---------------------------- MODULE BridgeProofs ----------------------------
(***************************************************************************)
(* Every session of the bridge, whatever the number of transfers, frames    *)
(* and commands: one transfer at a time, none left behind, the phone is told *)
(* how each one ended, and all it can see is what module Session promises.  *)
(***************************************************************************)
EXTENDS BridgeSession, TLAPS

-----------------------------------------------------------------------------
(* The inductive invariant.                                                *)

\* The types the proofs rest on.
Records ==
    /\ task \in [Transfers -> TaskState]
    /\ loop \in LoopState
    /\ lastWord \in [Transfers -> {"none", "done", "error"}]
    /\ nextID \in Nat /\ activeID \in Nat /\ cancel \in Nat
    /\ busy \in BOOLEAN

\* Ids are given out in order.
InTurn == \A k \in Transfers : task[k].pc # "none" <=> k <= nextID

\* Where a goroutine is, what it has still to say, and what it has said.
Untold(t, w, script) == t.out = script /\ w = "none"
Told(t, w, word) == t.out = <<>> /\ (w = word \/ (w = "none" /\ Down))

Says(k, t, w) ==
    \/ t.pc = "none" /\ ~t.err /\ Untold(t, w, <<>>)
    \/ /\ t.pc = "send" /\ ~t.err
       /\ Untold(t, w, <<>>) \/ Untold(t, w, <<Progress(k)>>)
    \/ /\ t.pc = "clear" /\ t.err
       /\ Untold(t, w, <<>>) \/ Untold(t, w, <<Progress(k)>>)
    \/ /\ t.pc = "clear" /\ ~t.err /\ t.left = 0
       /\ \/ Untold(t, w, <<Progress(k), DoneEvent(k)>>)
          \/ Untold(t, w, <<DoneEvent(k)>>)
          \/ Told(t, w, "done")
    \/ /\ t.pc = "last" /\ t.err
       /\ \/ Untold(t, w, <<Progress(k), Error(k)>>)
          \/ Untold(t, w, <<Error(k)>>)
          \/ Told(t, w, "error")
    \/ t.pc = "last" /\ ~t.err /\ t.left = 0 /\ Told(t, w, "done")

Speech == \A k \in Transfers : Says(k, task[k], lastWord[k])

SessionInv == Records /\ InTurn /\ OneTransfer /\ NoOrphan /\ Speech

-----------------------------------------------------------------------------
(* Steps that leave the goroutines of the transfers alone.                 *)

Goroutines == <<busy, cancel, nextID, activeID, task, lastWord>>

\* A step that starts no transfer, ends none and takes no cancel back keeps the
\* invariant, as long as the loop does not leave a transfer to itself.
LEMMA QuietStep ==
    ASSUME SessionInv, UNCHANGED Goroutines,
           loop' \in LoopState, Down => Down', cancelled \subseteq cancelled',
           loop'.pc # "read" => loop.pc # "read" \/ Working \subseteq cancelled'
    PROVE  SessionInv'
<1>1. UNCHANGED <<busy, cancel, nextID, activeID, task, lastWord>>
  BY DEF Goroutines
<1>2. Working' = Working
  BY <1>1 DEF Working
<1>3. Records' /\ InTurn' /\ OneTransfer'
  BY <1>1, <1>2 DEF SessionInv, Records, InTurn, OneTransfer
<1>4. NoOrphan'
  BY <1>2 DEF SessionInv, NoOrphan
<1>5. Speech'
  <2> SUFFICES ASSUME NEW k \in Transfers PROVE Says(k, task[k], lastWord[k])'
    BY DEF Speech
  <2>1. Says(k, task[k], lastWord[k])
    BY DEF SessionInv, Speech
  <2> QED
    BY <1>1, <2>1 DEF Says, Untold, Told
<1> QED
  BY <1>3, <1>4, <1>5 DEF SessionInv

\* What the loop writes is an event.
LEMMA AnswerType ==
    ASSUME loop \in LoopState, NEW event \in Event, Answers(event)
    PROVE  loop' \in LoopState /\ loop'.pc = loop.pc
<1>1. <<event>> \in Seq(Event)
  OBVIOUS
<1> QED
  BY <1>1 DEF Answers, LoopState

\* The loop writes, or reads a command that starts no transfer.
LEMMA LoopSteps ==
    ASSUME SessionInv,
           LoopWrites \/ Authenticate \/ SendCatalog \/ Refuse \/ Abort
    PROVE  SessionInv'
<1>1. loop \in LoopState
  BY DEF SessionInv, Records
<1>2. Catalog \in Event /\ Error(0) \in Event
  BY BoundsAssumption DEF Catalog, Error, Event
<1>3. UNCHANGED Goroutines /\ link' = link
  BY DEF LoopWrites, Authenticate, SendCatalog, Refuse, Abort, Goroutines, Reads, session
<1>4. Down' = Down
  BY <1>3 DEF Down
<1>5. cancelled \subseteq cancelled'
  BY DEF LoopWrites, Authenticate, SendCatalog, Refuse, Abort
<1>6. loop' \in LoopState /\ loop'.pc = loop.pc
  <2>1. CASE LoopWrites
    <3>1. loop.out \in Seq(Event) /\ loop.out # <<>>
      BY <1>1, <2>1 DEF LoopWrites, LoopState
    <3>2. Tail(loop.out) \in Seq(Event)
      BY <3>1
    <3> QED
      BY <1>1, <2>1, <3>2 DEF LoopWrites, LoopState
  <2>2. CASE Abort
    BY <1>1, <2>2 DEF Abort
  <2>3. CASE Authenticate \/ SendCatalog \/ Refuse
    <3>1. Answers(Catalog) \/ Answers(Error(0))
      BY <2>3 DEF Authenticate, SendCatalog, Refuse
    <3> QED
      BY <1>1, <1>2, <3>1, AnswerType
  <2> QED
    BY <2>1, <2>2, <2>3
<1> QED
  BY <1>3, <1>4, <1>5, <1>6, QuietStep

\* The loop ends: abort(0) reaches whatever is at work, and Close is the last
\* thing it does.
LEMMA LoopEnds ==
    ASSUME SessionInv, ReadFails \/ Close
    PROVE  SessionInv'
<1>1. loop \in LoopState
  BY DEF SessionInv, Records
<1>2. UNCHANGED Goroutines
  BY DEF ReadFails, Close, Goroutines, session
<1>3. CASE ReadFails
  <2>1. link' = link
    BY <1>3 DEF ReadFails, Reads, channel
  <2>2. Working \subseteq cancelled'
    <3>1. \A k \in Working : k = cancel
      BY DEF SessionInv, OneTransfer
    <3>2. \A k \in Working : k # 0
      BY DEF Working, Transfers
    <3> QED
      BY <1>3, <3>1, <3>2 DEF ReadFails, Abandoned, Aborted
  <2>3. loop' \in LoopState
    BY <1>1, <1>3 DEF ReadFails, LoopState
  <2> QED
    BY <1>2, <1>3, <2>1, <2>2, <2>3, QuietStep DEF ReadFails, Down
<1>4. CASE Close
  <2>1. Down'
    BY <1>4 DEF Close, Down
  <2>2. loop.pc # "read" /\ loop' \in LoopState /\ cancelled' = cancelled
    BY <1>1, <1>4 DEF Close, LoopState
  <2> QED
    BY <1>2, <2>1, <2>2, QuietStep
<1> QED
  BY <1>3, <1>4

\* Pings, the phone and the network touch the channel only.
LEMMA OutsideSteps ==
    ASSUME SessionInv, WritePing \/ Phone \/ Network
    PROVE  SessionInv'
<1>1. UNCHANGED Goroutines /\ loop' = loop /\ cancelled' = cancelled
  BY DEF WritePing, Phone, Network, Goroutines, session
<1>2. Down => Down'
  BY DEF WritePing, Phone, Network, PhoneSays, PhoneReads, PhoneDrops, FallsSilent,
         ComesBack, KernelGivesUp, TornDown, Down
<1> QED
  BY <1>1, <1>2, QuietStep DEF SessionInv, Records

-----------------------------------------------------------------------------
(* Steps of the goroutine of a transfer.                                   *)

\* A step of a goroutine that keeps it at work, or keeps it past its work.
LEMMA OwnStep ==
    ASSUME SessionInv, NEW k \in Transfers, NEW t \in TaskState,
           NEW w \in {"none", "done", "error"},
           task' = [task EXCEPT ![k] = t], lastWord' = [lastWord EXCEPT ![k] = w],
           UNCHANGED <<link, session, loop, cancelled>>,
           t.pc \in {"send", "clear"} <=> k \in Working,
           t.pc # "none", task[k].pc # "none",
           Says(k, t, w)
    PROVE  SessionInv'
<1>1. /\ task \in [Transfers -> TaskState]
      /\ lastWord \in [Transfers -> {"none", "done", "error"}]
  BY DEF SessionInv, Records
<1>2. /\ task'[k] = t /\ lastWord'[k] = w
      /\ \A j \in Transfers : j # k => task'[j] = task[j] /\ lastWord'[j] = lastWord[j]
  BY <1>1
<1>3. Working' = Working
  BY <1>2 DEF Working
<1>4. Records'
  <2>1. task' \in [Transfers -> TaskState]
    BY <1>1
  <2>2. lastWord' \in [Transfers -> {"none", "done", "error"}]
    BY <1>1
  <2> QED
    BY <2>1, <2>2 DEF SessionInv, Records, session
<1>5. InTurn'
  BY <1>2 DEF SessionInv, InTurn, session
<1>6. OneTransfer' /\ NoOrphan'
  BY <1>3 DEF SessionInv, OneTransfer, NoOrphan, session
<1>7. Speech'
  <2> SUFFICES ASSUME NEW j \in Transfers PROVE Says(j, task[j], lastWord[j])'
    BY DEF Speech
  <2>1. CASE j = k
    BY <1>2, <2>1 DEF Says, Untold, Told, Down
  <2>2. CASE j # k
    <3>1. Says(j, task[j], lastWord[j])
      BY DEF SessionInv, Speech
    <3> QED
      BY <1>2, <2>2, <3>1 DEF Says, Untold, Told, Down
  <2> QED
    BY <2>1, <2>2
<1> QED
  BY <1>4, <1>5, <1>6, <1>7 DEF SessionInv

\* What a goroutine knows of itself.
LEMMA OwnState ==
    ASSUME SessionInv, NEW k \in Transfers
    PROVE  /\ task[k] \in TaskState /\ lastWord[k] \in {"none", "done", "error"}
           /\ Says(k, task[k], lastWord[k])
           /\ task \in [Transfers -> TaskState]
           /\ lastWord \in [Transfers -> {"none", "done", "error"}]
           /\ Progress(k) \in Event /\ DoneEvent(k) \in Event /\ Error(k) \in Event
<1>1. Progress(k) \in Event /\ DoneEvent(k) \in Event
  BY DEF Progress, DoneEvent, Event
<1>2. Error(k) \in Event
  BY BoundsAssumption DEF Error, Event, Transfers
<1> QED
  BY <1>1, <1>2 DEF SessionInv, Records, Speech

\* What a goroutine says in one go is a sequence of events.
LEMMA ShortScripts ==
    ASSUME NEW e \in Event, NEW out \in {<<>>, <<e>>}
    PROVE  out \in Seq(Event)
<1>1. <<>> \in Seq(Event) /\ <<e>> \in Seq(Event)
  OBVIOUS
<1> QED
  BY <1>1

\* A frame goes out, or Send returns.
LEMMA SendSteps ==
    ASSUME SessionInv, NEW k \in Transfers,
           Reports(k) \/ SendsFrame(k) \/ SeesCancel(k) \/ TransferFails(k) \/ Finish(k)
    PROVE  SessionInv'
<1>1. /\ task[k] \in TaskState /\ lastWord[k] \in {"none", "done", "error"}
      /\ Says(k, task[k], lastWord[k])
      /\ task \in [Transfers -> TaskState]
      /\ lastWord \in [Transfers -> {"none", "done", "error"}]
      /\ Progress(k) \in Event /\ DoneEvent(k) \in Event
  BY OwnState
<1>2. /\ task[k].pc = "send" /\ task[k].out = <<>>
      /\ UNCHANGED <<link, session, loop, cancelled, lastWord>>
  BY DEF Reports, SendsFrame, SeesCancel, TransferFails, ReturnsError, Finish, InSend, channel
<1>3. ~task[k].err /\ lastWord[k] = "none" /\ k \in Working
  BY <1>1, <1>2 DEF Says, Untold, Working
<1>4. lastWord' = [lastWord EXCEPT ![k] = "none"]
  BY <1>1, <1>2, <1>3
<1>5. CASE Reports(k) \/ SendsFrame(k)
  <2>1. PICK out \in {<<>>, <<Progress(k)>>} :
          task' = [task EXCEPT ![k].left = @ - 1, ![k].out = out]
    BY <1>5 DEF Reports, SendsFrame
  <2> DEFINE t == [task[k] EXCEPT !.left = @ - 1, !.out = out]
  <2>2. task' = [task EXCEPT ![k] = t]
    BY <1>1, <2>1
  <2>3. out \in Seq(Event)
    BY <1>1, ShortScripts
  <2>4. t \in TaskState /\ t.pc = "send" /\ ~t.err /\ t.out = out
    <3>1. task[k].left - 1 \in 0..Frames
      BY <1>1, <1>5, FramesAssumption DEF TaskState, Reports, SendsFrame
    <3> QED
      BY <1>1, <1>2, <1>3, <2>3, <3>1 DEF TaskState
  <2>5. Says(k, t, "none")
    BY <2>4 DEF Says, Untold
  <2> HIDE DEF t
  <2> QED
    BY <1>2, <1>3, <1>4, <2>2, <2>4, <2>5, OwnStep
<1>6. CASE SeesCancel(k) \/ TransferFails(k)
  <2>1. PICK out \in {<<>>, <<Progress(k)>>} :
          task' = [task EXCEPT ![k].pc = "clear", ![k].err = TRUE, ![k].out = out]
    BY <1>6 DEF SeesCancel, TransferFails, ReturnsError
  <2> DEFINE t == [task[k] EXCEPT !.pc = "clear", !.err = TRUE, !.out = out]
  <2>2. task' = [task EXCEPT ![k] = t]
    BY <1>1, <2>1
  <2>3. out \in Seq(Event)
    BY <1>1, ShortScripts
  <2>4. t \in TaskState /\ t.pc = "clear" /\ t.err /\ t.out = out
    BY <1>1, <2>3 DEF TaskState
  <2>5. Says(k, t, "none")
    BY <2>4 DEF Says, Untold
  <2> HIDE DEF t
  <2> QED
    BY <1>2, <1>3, <1>4, <2>2, <2>4, <2>5, OwnStep
<1>7. CASE Finish(k)
  <2> DEFINE script == <<Progress(k), DoneEvent(k)>>
             t == [task[k] EXCEPT !.pc = "clear", !.out = script]
  <2>1. task' = [task EXCEPT ![k] = t]
    BY <1>1, <1>7 DEF Finish
  <2>2. script \in Seq(Event)
    BY <1>1
  <2> HIDE DEF script
  <2>3. t \in TaskState /\ t.pc = "clear" /\ ~t.err /\ t.out = script /\ t.left = 0
    BY <1>1, <1>3, <1>7, <2>2 DEF TaskState, Finish
  <2>4. Says(k, t, "none")
    BY <2>3 DEF Says, Untold, script
  <2> HIDE DEF t
  <2> QED
    BY <1>2, <1>3, <1>4, <2>1, <2>3, <2>4, OwnStep
<1> QED
  BY <1>5, <1>6, <1>7

\* An event goes out, or is dropped because the connection is down.
LEMMA WriteStep ==
    ASSUME SessionInv, NEW k \in Transfers, TaskWrites(k)
    PROVE  SessionInv'
<1> DEFINE event == Head(task[k].out)
           t == [task[k] EXCEPT !.out = Tail(@)]
           w == IF event.type \in {"done", "error"} /\ ~Down
                THEN event.type ELSE lastWord[k]
<1>1. /\ task[k] \in TaskState /\ lastWord[k] \in {"none", "done", "error"}
      /\ Says(k, task[k], lastWord[k])
      /\ task \in [Transfers -> TaskState]
      /\ lastWord \in [Transfers -> {"none", "done", "error"}]
  BY OwnState
<1>2. /\ task[k].out # <<>>
      /\ UNCHANGED <<link, session, loop, cancelled>>
      /\ task' = [task EXCEPT ![k] = t]
  BY <1>1 DEF TaskWrites
<1>3. w \in {"none", "done", "error"} /\ lastWord' = [lastWord EXCEPT ![k] = w]
  BY <1>1 DEF TaskWrites
<1>4. /\ t \in TaskState /\ t.out = Tail(task[k].out)
      /\ t.pc = task[k].pc /\ t.err = task[k].err /\ t.left = task[k].left
  <2>1. task[k].out \in Seq(Event)
    BY <1>1 DEF TaskState
  <2>2. Tail(task[k].out) \in Seq(Event)
    BY <1>2, <2>1
  <2> QED
    BY <1>1, <2>2 DEF TaskState
<1>5. /\ \A e : Head(<<e>>) = e /\ Tail(<<e>>) = <<>>
      /\ \A d, e : Head(<<d, e>>) = d /\ Tail(<<d, e>>) = <<e>>
  OBVIOUS
<1>6. /\ Progress(k).type = "progress" /\ DoneEvent(k).type = "done"
      /\ Error(k).type = "error"
  BY DEF Progress, DoneEvent, Error
<1>7. task[k].pc # "none"
  BY <1>1, <1>2 DEF Says, Untold
<1>8. Says(k, t, w)
  <2>1. CASE task[k].pc = "send" \/ (task[k].pc = "clear" /\ task[k].err)
    <3>1. task[k].out = <<Progress(k)>> /\ lastWord[k] = "none"
      BY <1>1, <1>2, <2>1 DEF Says, Untold, Told
    <3>2. t.out = <<>> /\ w = "none"
      BY <1>4, <1>5, <1>6, <3>1
    <3>3. ~task[k].err \/ task[k].pc = "clear"
      BY <1>1, <2>1 DEF Says
    <3> QED
      BY <1>1, <1>4, <2>1, <3>2, <3>3 DEF Says, Untold
  <2>2. CASE task[k].pc = "clear" /\ ~task[k].err
    <3>1. task[k].left = 0 /\ lastWord[k] = "none"
      BY <1>1, <1>2, <2>2 DEF Says, Untold, Told
    <3>2. task[k].out \in {<<Progress(k), DoneEvent(k)>>, <<DoneEvent(k)>>}
      BY <1>1, <1>2, <2>2 DEF Says, Untold, Told
    <3>3. CASE task[k].out = <<Progress(k), DoneEvent(k)>>
      <4>1. t.out = <<DoneEvent(k)>> /\ w = "none"
        BY <1>4, <1>5, <1>6, <3>1, <3>3
      <4> QED
        BY <1>4, <2>2, <3>1, <4>1 DEF Says, Untold
    <3>4. CASE task[k].out = <<DoneEvent(k)>>
      <4>1. t.out = <<>> /\ (w = "done" \/ (w = "none" /\ Down))
        BY <1>4, <1>5, <1>6, <3>1, <3>4
      <4> QED
        BY <1>4, <2>2, <3>1, <4>1 DEF Says, Told
    <3> QED
      BY <3>2, <3>3, <3>4
  <2>3. CASE task[k].pc = "last"
    <3>1. task[k].err /\ lastWord[k] = "none"
      BY <1>1, <1>2, <2>3 DEF Says, Untold, Told
    <3>2. task[k].out \in {<<Progress(k), Error(k)>>, <<Error(k)>>}
      BY <1>1, <1>2, <2>3 DEF Says, Untold, Told
    <3>3. CASE task[k].out = <<Progress(k), Error(k)>>
      <4>1. t.out = <<Error(k)>> /\ w = "none"
        BY <1>4, <1>5, <1>6, <3>1, <3>3
      <4> QED
        BY <1>4, <2>3, <3>1, <4>1 DEF Says, Untold
    <3>4. CASE task[k].out = <<Error(k)>>
      <4>1. t.out = <<>> /\ (w = "error" \/ (w = "none" /\ Down))
        BY <1>4, <1>5, <1>6, <3>1, <3>4
      <4> QED
        BY <1>4, <2>3, <3>1, <4>1 DEF Says, Told
    <3> QED
      BY <3>2, <3>3, <3>4
  <2> QED
    BY <1>1, <1>7, <2>1, <2>2, <2>3 DEF TaskState
<1> HIDE DEF t, w
<1>9. t.pc \in {"send", "clear"} <=> k \in Working
  BY <1>4 DEF Working
<1> QED
  BY <1>2, <1>3, <1>4, <1>7, <1>8, <1>9, OwnStep

\* The goroutine gives the session back: no transfer is at work any more.
LEMMA GiveBackStep ==
    ASSUME SessionInv, NEW k \in Transfers, GiveBack(k)
    PROVE  SessionInv'
<1> DEFINE t == [task[k] EXCEPT !.pc = "last", !.out = Epilogue(k)]
<1>1. /\ task[k] \in TaskState /\ Says(k, task[k], lastWord[k])
      /\ task \in [Transfers -> TaskState]
      /\ Progress(k) \in Event /\ Error(k) \in Event
  BY OwnState
<1>2. /\ task[k].pc = "clear" /\ task[k].out = <<>>
      /\ busy' = FALSE /\ cancel' = 0 /\ activeID' = 0
      /\ UNCHANGED <<link, nextID, loop, cancelled, lastWord>>
      /\ task' = [task EXCEPT ![k] = t]
  BY <1>1 DEF GiveBack, channel
<1>3. Epilogue(k) \in Seq(Event)
  <2>1. <<Progress(k), Error(k)>> \in Seq(Event) /\ <<>> \in Seq(Event)
    BY <1>1
  <2> QED
    BY <2>1 DEF Epilogue
<1>4. /\ t \in TaskState /\ t.pc = "last" /\ t.err = task[k].err
      /\ t.left = task[k].left /\ t.out = Epilogue(k)
  BY <1>1, <1>3 DEF TaskState
<1>5. Says(k, t, lastWord[k])
  <2>1. CASE task[k].err
    BY <1>1, <1>2, <1>4, <2>1 DEF Says, Untold, Told, Epilogue
  <2>2. CASE ~task[k].err
    BY <1>1, <1>2, <1>4, <2>2 DEF Says, Untold, Told, Epilogue
  <2> QED
    BY <2>1, <2>2
<1> HIDE DEF t
<1>6. /\ task'[k] = t /\ task' \in [Transfers -> TaskState]
      /\ \A j \in Transfers : j # k => task'[j] = task[j]
  BY <1>1, <1>2, <1>4
<1>7. Working' = {}
  <2>1. \A j \in Working : j = k
    BY <1>2 DEF SessionInv, OneTransfer, Working
  <2> QED
    BY <1>4, <1>6, <2>1 DEF Working
<1>8. Records'
  BY <1>2, <1>6 DEF SessionInv, Records
<1>9. InTurn'
  BY <1>2, <1>4, <1>6 DEF SessionInv, InTurn
<1>10. OneTransfer' /\ NoOrphan'
  BY <1>2, <1>7 DEF OneTransfer, NoOrphan
<1>11. Speech'
  <2> SUFFICES ASSUME NEW j \in Transfers PROVE Says(j, task[j], lastWord[j])'
    BY DEF Speech
  <2>1. CASE j = k
    BY <1>2, <1>5, <1>6, <2>1 DEF Says, Untold, Told, Down
  <2>2. CASE j # k
    <3>1. Says(j, task[j], lastWord[j])
      BY DEF SessionInv, Speech
    <3> QED
      BY <1>2, <1>6, <2>2, <3>1 DEF Says, Untold, Told, Down
  <2> QED
    BY <2>1, <2>2
<1> QED
  BY <1>8, <1>9, <1>10, <1>11 DEF SessionInv

\* A transfer starts only while none is at work, under an id nobody had.
LEMMA StartStep ==
    ASSUME SessionInv, StartSend
    PROVE  SessionInv'
<1> DEFINE id == nextID + 1
           t == [task[id] EXCEPT !.pc = "send"]
<1>1. id \in Transfers /\ nextID \in Nat
  BY BoundsAssumption DEF SessionInv, Records, StartSend, Transfers
<1>2. /\ task[id] \in TaskState /\ Says(id, task[id], lastWord[id])
      /\ task \in [Transfers -> TaskState]
  BY <1>1, OwnState
<1>3. /\ nextID' = id /\ activeID' = id /\ cancel' = id /\ busy' = TRUE
      /\ UNCHANGED <<link, loop, cancelled, lastWord>>
      /\ task' = [task EXCEPT ![id] = t]
      /\ ~busy /\ loop.pc = "read"
  BY <1>2 DEF StartSend, Reads, Free
<1>4. task[id].pc = "none"
  BY <1>1, <1>2 DEF SessionInv, InTurn, TaskState
<1>5. Working = {}
  BY <1>3 DEF SessionInv, OneTransfer
<1>6. t \in TaskState /\ t.pc = "send" /\ t.out = task[id].out /\ t.err = task[id].err
  BY <1>2 DEF TaskState
<1>7. Says(id, t, lastWord[id])
  BY <1>2, <1>4, <1>6 DEF Says, Untold
<1> HIDE DEF t, id
<1>8. /\ task'[id] = t /\ task' \in [Transfers -> TaskState]
      /\ \A j \in Transfers : j # id => task'[j] = task[j]
  BY <1>1, <1>2, <1>3, <1>6
<1>9. Working' = {id}
  BY <1>1, <1>5, <1>6, <1>8 DEF Working
<1>10. Records'
  <2>1. id \in Nat
    BY <1>1 DEF id
  <2> QED
    BY <1>3, <1>8, <2>1 DEF SessionInv, Records
<1>11. InTurn'
  <2> SUFFICES ASSUME NEW j \in Transfers
               PROVE  task'[j].pc # "none" <=> j <= id
    BY <1>3 DEF InTurn
  <2>1. CASE j = id
    BY <1>1, <1>6, <1>8, <2>1 DEF Transfers
  <2>2. CASE j # id
    <3>1. task[j].pc # "none" <=> j <= nextID
      BY DEF SessionInv, InTurn
    <3>2. j <= nextID <=> j <= id
      BY <1>1, <2>2, BoundsAssumption DEF id, Transfers
    <3> QED
      BY <1>8, <2>2, <3>1, <3>2
  <2> QED
    BY <2>1, <2>2
<1>12. OneTransfer' /\ NoOrphan'
  BY <1>3, <1>9 DEF OneTransfer, NoOrphan
<1>13. Speech'
  <2> SUFFICES ASSUME NEW j \in Transfers PROVE Says(j, task[j], lastWord[j])'
    BY DEF Speech
  <2>1. CASE j = id
    BY <1>3, <1>7, <1>8, <2>1 DEF Says, Untold, Told, Down
  <2>2. CASE j # id
    <3>1. Says(j, task[j], lastWord[j])
      BY DEF SessionInv, Speech
    <3> QED
      BY <1>3, <1>8, <2>2, <3>1 DEF Says, Untold, Told, Down
  <2> QED
    BY <2>1, <2>2
<1> QED
  BY <1>10, <1>11, <1>12, <1>13 DEF SessionInv

-----------------------------------------------------------------------------
(* The theorems.                                                           *)

\* A session begins without a transfer.
LEMMA InitSession == Init => SessionInv
<1> SUFFICES ASSUME Init PROVE SessionInv
  OBVIOUS
<1> DEFINE t == [pc |-> "none", left |-> Frames, err |-> FALSE, out |-> <<>>]
<1>1. /\ task = [k \in Transfers |-> t] /\ lastWord = [k \in Transfers |-> "none"]
      /\ busy = FALSE /\ cancel = 0 /\ nextID = 0 /\ activeID = 0
      /\ loop = [pc |-> "read", out |-> <<Hello>>]
  BY DEF Init
<1>2. t \in TaskState
  <2>1. Frames \in 0..Frames /\ <<>> \in Seq(Event)
    BY FramesAssumption
  <2> QED
    BY <2>1 DEF TaskState
<1>3. loop \in LoopState
  <2>1. Hello \in Event
    BY DEF Hello, Event
  <2>2. <<Hello>> \in Seq(Event)
    BY <2>1
  <2> QED
    BY <1>1, <2>2 DEF LoopState
<1>4. \A k \in Transfers : task[k].pc = "none" /\ ~task[k].err /\ task[k].out = <<>>
  BY <1>1
<1>5. Working = {}
  BY <1>4 DEF Working
<1>6. Records
  BY <1>1, <1>2, <1>3 DEF Records
<1>7. InTurn /\ OneTransfer /\ NoOrphan
  BY <1>1, <1>4, <1>5 DEF InTurn, OneTransfer, NoOrphan, Transfers
<1>8. Speech
  BY <1>1, <1>4 DEF Speech, Says, Untold
<1> QED
  BY <1>6, <1>7, <1>8 DEF SessionInv

\* Every step of a session.
LEMMA NextSession == SessionInv /\ [Next]_vars => SessionInv'
<1> SUFFICES ASSUME SessionInv, [Next]_vars PROVE SessionInv'
  OBVIOUS
<1>1. CASE LoopStep
  BY <1>1, LoopSteps, LoopEnds, StartStep DEF LoopStep
<1>2. CASE WritePing \/ Phone \/ Network
  BY <1>2, OutsideSteps
<1>3. ASSUME NEW k \in Transfers, TaskStep(k) \/ TransferFails(k)
      PROVE  SessionInv'
  BY <1>3, WriteStep, SendSteps, GiveBackStep DEF TaskStep
<1>4. CASE UNCHANGED vars
  <2>1. UNCHANGED Goroutines /\ loop' = loop /\ cancelled' = cancelled /\ Down' = Down
    BY <1>4 DEF vars, channel, session, Goroutines, Down
  <2> QED
    BY <2>1, QuietStep DEF SessionInv, Records
<1> QED
  BY <1>1, <1>2, <1>3, <1>4 DEF Next

\* The invariant holds in every state of a session.
LEMMA SessionInvariant == Spec => []SessionInv
<1>1. SessionInv /\ [Next]_vars => SessionInv'
  BY NextSession
<1> QED
  BY InitSession, <1>1, PTL DEF Spec

\* A session runs one transfer at a time, and a cancel can only reach that one
\* (busy, cancel and activeID under sess.mu).
THEOREM OneTransferAlways == Spec => []OneTransfer
<1>1. SessionInv => OneTransfer
  BY DEF SessionInv
<1> QED
  BY <1>1, SessionInvariant, PTL

\* However a session ends, no transfer goes on that was not told to stop.
THEOREM NoOrphanEver == Spec => []NoOrphan
<1>1. SessionInv => NoOrphan
  BY DEF SessionInv
<1> QED
  BY <1>1, SessionInvariant, PTL

\* The last event about a transfer says truthfully how it ended.
THEOREM OutcomeIsTold == Spec => []ToldTheOutcome
<1>1. ASSUME SessionInv PROVE ToldTheOutcome
  <2> SUFFICES ASSUME NEW k \in Transfers
               PROVE  /\ lastWord[k] = "done" => task[k].left = 0 /\ ~task[k].err
                      /\ lastWord[k] = "error" => task[k].err
                      /\ lastWord[k] # "none" => task[k].out = <<>>
                      /\ Over(k) /\ ~Down =>
                            lastWord[k] = IF task[k].err THEN "error" ELSE "done"
    BY DEF ToldTheOutcome
  <2>1. Says(k, task[k], lastWord[k]) /\ task[k] \in TaskState
    BY <1>1, OwnState
  <2>2. <<Progress(k), Error(k)>> # <<>> /\ <<Error(k)>> # <<>>
    OBVIOUS
  <2> QED
    BY <2>1, <2>2 DEF Says, Untold, Told, Over
<1> QED
  BY <1>1, SessionInvariant, PTL

-----------------------------------------------------------------------------
(* The type invariant.                                                     *)

\* What Records leaves open: the connection, and that no id goes beyond the last.
Bounded ==
    /\ ChannelTypeOK
    /\ authed \in BOOLEAN
    /\ cancel \in 0..MaxSends /\ nextID \in 0..MaxSends /\ activeID \in 0..MaxSends
    /\ cancelled \subseteq Transfers

\* A write puts an event into the room there is.
LEMMA WriteType ==
    ASSUME ChannelTypeOK, NEW event \in Event, Write(event)
    PROVE  outbox' \in Seq(Event) /\ Len(outbox') <= Room
<1>1. outbox \in Seq(Event) /\ Len(outbox) <= Room /\ Len(outbox) \in Nat
  BY DEF ChannelTypeOK
<1>2. CASE outbox' = outbox
  BY <1>1, <1>2
<1>3. CASE Fits /\ outbox' = Append(outbox, event)
  BY <1>1, <1>3, BoundsAssumption DEF Fits
<1> QED
  BY <1>2, <1>3 DEF Write

\* A read takes a command off the connection.
LEMMA ReadType ==
    ASSUME ChannelTypeOK, NEW type, Reads(type)
    PROVE  ChannelTypeOK'
<1>1. inbox \in Seq(Command) /\ inbox # <<>>
  BY DEF ChannelTypeOK, Reads
<1>2. inbox' \in Seq(Command)
  BY <1>1 DEF Reads
<1> QED
  BY <1>2 DEF ChannelTypeOK, Reads

\* What is told to stop is a transfer.
LEMMA AbortedType ==
    ASSUME Bounded, NEW id
    PROVE  Aborted(id) \subseteq Transfers
<1>1. cancel \in 0..MaxSends
  BY DEF Bounded
<1>2. {cancel} \ {0} \subseteq Transfers
  BY <1>1 DEF Transfers
<1> QED
  BY <1>2 DEF Aborted

\* The loop keeps to the bounds.
LEMMA LoopBounded ==
    ASSUME SessionInv, Bounded, LoopStep
    PROVE  Bounded'
<1>1. loop.out \in Seq(Event)
  BY DEF SessionInv, Records, LoopState
<1>2. CASE LoopWrites
  <2>1. Head(loop.out) \in Event
    BY <1>1, <1>2 DEF LoopWrites
  <2>2. outbox' \in Seq(Event) /\ Len(outbox') <= Room
    BY <1>2, <2>1, WriteType DEF LoopWrites, Bounded
  <2> QED
    BY <1>2, <2>2 DEF LoopWrites, Bounded, ChannelTypeOK, session
<1>3. CASE Authenticate \/ SendCatalog \/ Refuse
  <2>1. ChannelTypeOK'
    BY <1>3, ReadType DEF Authenticate, SendCatalog, Refuse, Bounded
  <2> QED
    BY <1>3, <2>1 DEF Authenticate, SendCatalog, Refuse, Bounded, session
<1>4. CASE StartSend
  <2>1. ChannelTypeOK'
    BY <1>4, ReadType DEF StartSend, Bounded
  <2>2. nextID + 1 \in 0..MaxSends
    BY <1>4, BoundsAssumption DEF StartSend, Bounded
  <2> QED
    BY <1>4, <2>1, <2>2 DEF StartSend, Bounded
<1>5. CASE Abort
  <2>1. ChannelTypeOK'
    BY <1>5, ReadType DEF Abort, Bounded
  <2> QED
    BY <1>5, <2>1, AbortedType DEF Abort, Bounded, session
<1>6. CASE ReadFails
  <2>1. ChannelTypeOK'
    <3>1. CASE Reads("close")
      BY <3>1, ReadType DEF Bounded
    <3>2. CASE UNCHANGED channel
      BY <3>2 DEF channel, Bounded, ChannelTypeOK
    <3> QED
      BY <1>6, <3>1, <3>2 DEF ReadFails
  <2> QED
    BY <1>6, <2>1, AbortedType DEF ReadFails, Abandoned, Bounded, session
<1>7. CASE Close
  <2>1. CloseFrame \in Event
    BY DEF CloseFrame, Event
  <2>2. outbox' \in Seq(Event) /\ Len(outbox') <= Room
    BY <1>7, <2>1, WriteType DEF Close, Bounded
  <2> QED
    BY <1>7, <2>2 DEF Close, Bounded, ChannelTypeOK, session
<1> QED
  BY <1>2, <1>3, <1>4, <1>5, <1>6, <1>7 DEF LoopStep

\* So does the goroutine of a transfer.
LEMMA TaskBounded ==
    ASSUME SessionInv, Bounded, NEW k \in Transfers, TaskStep(k) \/ TransferFails(k)
    PROVE  Bounded'
<1>1. CASE TaskWrites(k)
  <2>1. Head(task[k].out) \in Event
    <3>1. task[k].out \in Seq(Event)
      BY OwnState DEF TaskState
    <3> QED
      BY <1>1, <3>1 DEF TaskWrites
  <2>2. outbox' \in Seq(Event) /\ Len(outbox') <= Room
    BY <1>1, <2>1, WriteType DEF TaskWrites, Bounded
  <2> QED
    BY <1>1, <2>2 DEF TaskWrites, Bounded, ChannelTypeOK, session
<1>2. CASE Reports(k) \/ SendsFrame(k) \/ SeesCancel(k) \/ TransferFails(k) \/ Finish(k)
  BY <1>2 DEF Reports, SendsFrame, SeesCancel, TransferFails, ReturnsError, Finish,
              Bounded, ChannelTypeOK, channel, session
<1>3. CASE GiveBack(k)
  BY <1>3, BoundsAssumption DEF GiveBack, Bounded, ChannelTypeOK, channel
<1> QED
  BY <1>1, <1>2, <1>3 DEF TaskStep

\* So do pings, the phone and the network.
LEMMA OutsideBounded ==
    ASSUME Bounded, WritePing \/ Phone \/ Network
    PROVE  Bounded'
<1>1. ChannelTypeOK
  BY DEF Bounded
<1>2. ChannelTypeOK'
  <2>1. CASE WritePing
    <3>1. Ping \in Event
      BY DEF Ping, Event
    <3>2. outbox' \in Seq(Event) /\ Len(outbox') <= Room
      BY <1>1, <2>1, <3>1, WriteType DEF WritePing
    <3> QED
      BY <1>1, <2>1, <3>2 DEF WritePing, ChannelTypeOK
  <2>2. ASSUME NEW command \in Command, PhoneSays(command) PROVE ChannelTypeOK'
    <3>1. inbox' \in Seq(Command)
      BY <1>1, <2>2 DEF PhoneSays, ChannelTypeOK
    <3>2. commands' \in 0..MaxCommands /\ sends' \in 0..MaxSends
      BY <1>1, <2>2, BoundsAssumption DEF PhoneSays, ChannelTypeOK
    <3> QED
      BY <1>1, <2>2, <3>1, <3>2 DEF PhoneSays, ChannelTypeOK
  <2>3. CASE PhoneReads
    <3>1. outbox' \in Seq(Event) /\ Len(outbox') <= Room
      BY <1>1, <2>3, BoundsAssumption DEF PhoneReads, ChannelTypeOK
    <3> QED
      BY <1>1, <2>3, <3>1 DEF PhoneReads, ChannelTypeOK
  <2>4. CASE PhoneDrops \/ KernelGivesUp
    <3>1. TornDown
      BY <2>4 DEF PhoneDrops, KernelGivesUp
    <3> QED
      BY <1>1, <3>1, BoundsAssumption DEF TornDown, ChannelTypeOK
  <2>5. CASE FallsSilent \/ ComesBack
    BY <1>1, <2>5, BoundsAssumption DEF FallsSilent, ComesBack, ChannelTypeOK
  <2> QED
    BY <2>1, <2>2, <2>3, <2>4, <2>5 DEF Phone, Network
<1> QED
  BY <1>2 DEF WritePing, Phone, Network, Bounded, session

\* So does every step.
LEMMA NextBounded == SessionInv /\ Bounded /\ [Next]_vars => Bounded'
<1> SUFFICES ASSUME SessionInv, Bounded, [Next]_vars PROVE Bounded'
  OBVIOUS
<1>1. CASE UNCHANGED vars
  BY <1>1 DEF vars, channel, session, Bounded, ChannelTypeOK
<1> QED
  BY <1>1, LoopBounded, TaskBounded, OutsideBounded DEF Next

\* Every variable of a session keeps its type; the connection never holds more
\* events than it has room for, and no id is beyond the last that was given out.
THEOREM TypeCorrect == Spec => []TypeOK
<1>1. Init => SessionInv /\ Bounded
  BY InitSession, BoundsAssumption DEF Init, ChannelInit, Bounded, ChannelTypeOK
<1>2. SessionInv /\ Bounded /\ [Next]_vars => (SessionInv /\ Bounded)'
  BY NextSession, NextBounded
<1>3. SessionInv /\ Bounded => TypeOK
  BY DEF SessionInv, Records, Bounded, TypeOK
<1> QED
  BY <1>1, <1>2, <1>3, PTL DEF Spec

-----------------------------------------------------------------------------
(* The refinement of Session.                                              *)

\* A cancel reaches no transfer before it has started.
Heard == \A k \in cancelled : k <= nextID

-----------------------------------------------------------------------------
(* Events, as the phone sees them.                                         *)

\* What is seen is a sequence as long as what was written.
LEMMA SeenType ==
    ASSUME NEW events \in Seq(Event)
    PROVE  /\ Seen(events) \in Seq({Shown(event) : event \in Event})
           /\ Len(Seen(events)) = Len(events)
           /\ \A i \in 1..Len(events) : Seen(events)[i] = Shown(events[i])
<1>1. DOMAIN events = 1..Len(events) /\ Len(events) \in Nat
  OBVIOUS
<1>2. \A i \in 1..Len(events) : events[i] \in Event
  OBVIOUS
<1>3. Seen(events) = [i \in 1..Len(events) |-> Shown(events[i])]
  BY <1>1 DEF Seen
<1> DEFINE S == {Shown(event) : event \in Event}
<1>4. \A i \in 1..Len(events) : Shown(events[i]) \in S
  BY <1>2
<1> HIDE DEF S
<1>5. Seen(events) \in [1..Len(events) -> S]
  BY <1>3, <1>4
<1>6. Seen(events) \in Seq(S) /\ Len(Seen(events)) = Len(events)
  BY <1>1, <1>5
<1> QED
  BY <1>3, <1>6 DEF S

\* A write adds one more to what is seen.
LEMMA SeenAppend ==
    ASSUME NEW events \in Seq(Event), NEW event \in Event
    PROVE  Seen(Append(events, event)) = Append(Seen(events), Shown(event))
<1> DEFINE longer == Append(events, event)
           S == {Shown(e) : e \in Event}
<1>1. /\ longer \in Seq(Event) /\ Len(longer) = Len(events) + 1
      /\ Len(events) \in Nat
      /\ \A i \in 1..Len(events) : longer[i] = events[i]
      /\ longer[Len(events) + 1] = event
  OBVIOUS
<1> HIDE DEF longer
<1>2. /\ Seen(longer) \in Seq(S) /\ Len(Seen(longer)) = Len(events) + 1
      /\ \A i \in 1..Len(longer) : Seen(longer)[i] = Shown(longer[i])
  BY <1>1, SeenType
<1>3. /\ Seen(events) \in Seq(S) /\ Len(Seen(events)) = Len(events)
      /\ \A i \in 1..Len(events) : Seen(events)[i] = Shown(events[i])
  BY SeenType
<1>4. Shown(event) \in S
  OBVIOUS
<1> HIDE DEF S
<1>5. \A i \in 1..(Len(events) + 1) :
         Seen(longer)[i] = Append(Seen(events), Shown(event))[i]
  BY <1>1, <1>2, <1>3, <1>4
<1>6. /\ Append(Seen(events), Shown(event)) \in Seq(S)
      /\ Len(Append(Seen(events), Shown(event))) = Len(events) + 1
  BY <1>3, <1>4
<1>7. Seen(longer) = Append(Seen(events), Shown(event))
  BY <1>1, <1>2, <1>5, <1>6
<1> QED
  BY <1>7 DEF longer

\* A read takes the first off.
LEMMA SeenTail ==
    ASSUME NEW events \in Seq(Event), events # <<>>
    PROVE  /\ Seen(events) # <<>>
           /\ Head(Seen(events)) = Shown(Head(events))
           /\ Seen(Tail(events)) = Tail(Seen(events))
<1> DEFINE rest == Tail(events)
           S == {Shown(e) : e \in Event}
<1>1. /\ rest \in Seq(Event) /\ Len(rest) = Len(events) - 1
      /\ Len(events) \in Nat \ {0} /\ Head(events) = events[1]
      /\ \A i \in 1..Len(rest) : rest[i] = events[i + 1]
  OBVIOUS
<1> HIDE DEF rest
<1>2. /\ Seen(rest) \in Seq(S) /\ Len(Seen(rest)) = Len(rest)
      /\ \A i \in 1..Len(rest) : Seen(rest)[i] = Shown(rest[i])
  BY <1>1, SeenType
<1>3. /\ Seen(events) \in Seq(S) /\ Len(Seen(events)) = Len(events)
      /\ \A i \in 1..Len(events) : Seen(events)[i] = Shown(events[i])
  BY SeenType
<1> HIDE DEF S
<1>4. Seen(events) # <<>> /\ Head(Seen(events)) = Shown(Head(events))
  BY <1>1, <1>3
<1>5. /\ Tail(Seen(events)) \in Seq(S) /\ Len(Tail(Seen(events))) = Len(rest)
      /\ \A i \in 1..Len(rest) : Tail(Seen(events))[i] = Seen(events)[i + 1]
  BY <1>1, <1>3, <1>4
<1>6. \A i \in 1..Len(rest) : Seen(rest)[i] = Tail(Seen(events))[i]
  BY <1>1, <1>2, <1>3, <1>5
<1>7. Seen(rest) = Tail(Seen(events))
  BY <1>2, <1>5, <1>6
<1> QED
  BY <1>4, <1>7 DEF rest

\* Nothing is seen of nothing, and one of one.
LEMMA SeenShort ==
    /\ Seen(<<>>) = <<>>
    /\ \A e : Seen(<<e>>) = <<Shown(e)>>
    /\ \A d, e : Seen(<<d, e>>) = <<Shown(d), Shown(e)>>
BY DEF Seen

-----------------------------------------------------------------------------
(* Steps of the read loop.                                                 *)

\* What is written to the WebSocket reaches the phone as an event.
LEMMA WriteMapped ==
    ASSUME Bounded, NEW event \in Event, Write(event)
    PROVE  Promise!Write(1, Shown(event))
<1>1. outbox \in Seq(Event) /\ link \in {"up", "silent", "gone", "closed"}
  BY DEF Bounded, ChannelTypeOK
<1>2. CASE Down
  BY <1>2 DEF Down, Write, Promise!Write
<1>3. CASE ~Down
  <2>1. Seen(outbox') = Append(Seen(outbox), Shown(event))
    BY <1>1, <1>3, SeenAppend DEF Write
  <2> QED
    BY <1>1, <1>3, <2>1 DEF Down, Promise!Write
<1> QED
  BY <1>2, <1>3

Fields ==
    {"loop", "answer", "authed", "last", "active", "stopped", "outcome", "voice"}

\* The session that the phone sees, field by field.
LEMMA PromisedFields ==
    /\ Promised = [x \in Fields |-> Promised[x]]
    /\ Promised.loop = loop.pc /\ Promised.answer = Seen(loop.out)
    /\ Promised.authed = authed /\ Promised.last = nextID
    /\ Promised.active = activeID /\ Promised.outcome = Outcome
    /\ Promised.stopped = Stopped
    /\ Promised.voice = [k \in Transfers |-> Seen(task[k].out)]
<1> DEFINE voices == [k \in Transfers |-> Seen(task[k].out)]
<1>1. Promised = [loop |-> loop.pc, answer |-> Seen(loop.out), authed |-> authed,
                  last |-> nextID, active |-> activeID, stopped |-> Stopped,
                  outcome |-> Outcome, voice |-> voices]
  BY DEF Promised
<1> HIDE DEF voices
<1>2. /\ Promised = [x \in Fields |-> Promised[x]]
      /\ Promised.loop = loop.pc /\ Promised.answer = Seen(loop.out)
      /\ Promised.authed = authed /\ Promised.last = nextID
      /\ Promised.active = activeID /\ Promised.outcome = Outcome
      /\ Promised.stopped = Stopped /\ Promised.voice = voices
  BY <1>1 DEF Fields
<1> QED
  BY <1>2 DEF voices

\* The same after a step.
LEMMA PromisedFieldsNext ==
    /\ Promised' = [x \in Fields |-> Promised'[x]]
    /\ Promised'.loop = loop'.pc /\ Promised'.answer = Seen(loop'.out)
    /\ Promised'.authed = authed' /\ Promised'.last = nextID'
    /\ Promised'.active = activeID' /\ Promised'.outcome = Outcome'
    /\ Promised'.stopped = Stopped'
    /\ Promised'.voice = [k \in Transfers |-> Seen(task'[k].out)]
<1>1. PromisedFields'
  BY PromisedFields, PTL
<1> QED
  BY <1>1 DEF PromisedFields

\* A step of the loop that touches no transfer changes what the loop is at.
LEMMA LoopPromise ==
    ASSUME UNCHANGED <<task, activeID, nextID>>
    PROVE  Promised' = [Promised EXCEPT !.loop = loop'.pc, !.answer = Seen(loop'.out),
                                        !.authed = authed',
                                        !.stopped = Stopped']
<1>1. Working' = Working
  BY DEF Working
<1>2. Outcome' = Outcome
  BY <1>1 DEF Outcome
<1>3. [k \in Transfers |-> Seen(task[k].out)]' = [k \in Transfers |-> Seen(task[k].out)]
  OBVIOUS
<1> DEFINE voices == [k \in Transfers |-> Seen(task[k].out)]
<1>4. /\ Promised = [x \in Fields |-> Promised[x]]
      /\ Promised.last = nextID /\ Promised.active = activeID
      /\ Promised.outcome = Outcome /\ Promised.voice = voices
  BY PromisedFields
<1>5. /\ Promised' = [x \in Fields |-> Promised'[x]]
      /\ Promised'.loop = loop'.pc /\ Promised'.answer = Seen(loop'.out)
      /\ Promised'.authed = authed' /\ Promised'.last = nextID
      /\ Promised'.active = activeID /\ Promised'.outcome = Outcome
      /\ Promised'.stopped = Stopped' /\ Promised'.voice = voices
  BY <1>2, <1>3, PromisedFieldsNext
<1> HIDE DEF voices
<1> QED
  BY ONLY <1>4, <1>5 DEF Fields

\* A command that is read is the next on the connection.
LEMMA ReadsMapped ==
    ASSUME Bounded, NEW type, Reads(type)
    PROVE  Promise!Hears(1, type)
<1>1. link \in {"up", "silent", "gone", "closed"} /\ inbox \in Seq(Command)
  BY DEF Bounded, ChannelTypeOK
<1>2. Promised.loop = "read" /\ Promised.answer = <<>>
  BY SeenShort DEF Reads, Promised
<1> QED
  BY <1>1, <1>2 DEF Reads, Promise!Hears

\* An answer is one event.
LEMMA AnswersMapped ==
    ASSUME NEW event, Answers(event), loop \in LoopState
    PROVE  loop'.pc = loop.pc /\ Seen(loop'.out) = <<Shown(event)>>
BY SeenShort DEF Answers, LoopState

\* The loop writes an event.
LEMMA LoopWritesMapped ==
    ASSUME SessionInv, Bounded, LoopWrites
    PROVE  Promise!Answer(1)
<1>1. /\ loop \in LoopState /\ loop.out \in Seq(Event) /\ loop.out # <<>>
      /\ Head(loop.out) \in Event
  BY DEF SessionInv, Records, LoopState, LoopWrites
<1>2. Promise!Write(1, Head(Seen(loop.out)))
  BY <1>1, WriteMapped, SeenTail DEF LoopWrites
<1>3. loop'.pc = loop.pc /\ Seen(loop'.out) = Tail(Seen(loop.out))
  BY <1>1, SeenTail DEF LoopWrites, LoopState
<1>4. Promised' = [Promised EXCEPT !.loop = loop'.pc, !.answer = Seen(loop'.out),
                                   !.authed = authed',
                                   !.stopped = Stopped']
  BY LoopPromise DEF LoopWrites, session
<1>5. Promised' = [Promised EXCEPT !.answer = Tail(@)]
  <2>1. /\ authed' = authed /\ Stopped' = Stopped
    BY DEF LoopWrites, session, Stopped
  <2> QED
    BY ONLY <1>3, <1>4, <2>1, PromisedFields DEF Fields
<1>6. Promised.answer # <<>> /\ Promised.answer = Seen(loop.out)
  BY <1>1, SeenTail DEF Promised
<1>7. link \in {"up", "silent", "gone", "closed"}
  BY DEF Bounded, ChannelTypeOK
<1> QED
  BY <1>2, <1>5, <1>6, <1>7 DEF LoopWrites, Promise!Answer

\* What the answers look like to the phone.
LEMMA ShownEvents ==
    /\ Shown(Catalog) = Promise!Event("catalog")
    /\ Shown(Ping) = Promise!Event("ping")
    /\ Shown(CloseFrame) = Promise!Event("close")
    /\ \A k : Shown(Error(k)) = Promise!Event("error")
    /\ \A k : Shown(Progress(k)) = Promise!About("progress", k)
    /\ \A k : Shown(DoneEvent(k)) = Promise!About("done", k)
BY DEF Shown, Catalog, Ping, CloseFrame, Error, Progress, DoneEvent,
       Promise!Event, Promise!About

\* A command that is answered at once.
LEMMA AnswerMapped ==
    ASSUME SessionInv, NEW event, Answers(event), UNCHANGED <<session, task, cancelled>>
    PROVE  Promised' = [Promised EXCEPT !.answer = <<Shown(event)>>]
<1>1. Promised' = [Promised EXCEPT !.loop = loop'.pc, !.answer = Seen(loop'.out),
                                   !.authed = authed', !.stopped = Stopped']
  BY LoopPromise DEF session
<1>2. loop'.pc = loop.pc /\ Seen(loop'.out) = <<Shown(event)>>
  BY AnswersMapped DEF SessionInv, Records
<1>3. authed' = authed /\ Stopped' = Stopped
  BY DEF session, Stopped
<1> QED
  BY ONLY <1>1, <1>2, <1>3, PromisedFields DEF Fields

\* The right secret opens the session.
LEMMA AuthenticateMapped ==
    ASSUME SessionInv, Bounded, Authenticate
    PROVE  Promise!Authenticate(1)
<1>1. Promise!Hears(1, "auth")
  BY ReadsMapped DEF Authenticate
<1>2. Promised' = [Promised EXCEPT !.loop = loop'.pc, !.answer = Seen(loop'.out),
                                   !.authed = authed', !.stopped = Stopped']
  BY LoopPromise DEF Authenticate
<1>3. loop'.pc = loop.pc /\ Seen(loop'.out) = <<Promise!Event("catalog")>>
  BY AnswersMapped, ShownEvents DEF SessionInv, Records, Authenticate
<1>4. authed' = TRUE /\ Stopped' = Stopped
  BY DEF Authenticate, Stopped
<1>5. Promised' = [Promised EXCEPT !.authed = TRUE,
                                   !.answer = <<Promise!Event("catalog")>>]
  BY ONLY <1>2, <1>3, <1>4, PromisedFields DEF Fields
<1> QED
  BY <1>1, <1>5 DEF Promise!Authenticate

\* A list is answered with the catalog, or refused.
LEMMA CatalogMapped ==
    ASSUME SessionInv, Bounded, SendCatalog
    PROVE  Promise!List(1) \/ Promise!Refuse(1)
<1>1. Promise!Hears(1, "list")
  BY ReadsMapped DEF SendCatalog
<1>2. CASE authed
  <2>1. Promised' = [Promised EXCEPT !.answer = <<Promise!Event("catalog")>>]
    BY <1>2, AnswerMapped, ShownEvents DEF SendCatalog
  <2> QED
    BY <1>1, <1>2, <2>1, PromisedFields DEF Promise!List
<1>3. CASE ~authed
  <2>1. Promised' = [Promised EXCEPT !.answer = <<Promise!Event("error")>>]
    BY <1>3, AnswerMapped, ShownEvents DEF SendCatalog
  <2> QED
    BY <1>1, <1>3, <2>1, PromisedFields DEF Promise!Refuse
<1> QED
  BY <1>2, <1>3

\* The session is busy when a transfer is at work.
LEMMA RefuseMapped ==
    ASSUME SessionInv, Bounded, Refuse
    PROVE  Promise!Refuse(1)
<1>1. Promised' = [Promised EXCEPT !.answer = <<Promise!Event("error")>>]
  BY AnswerMapped, ShownEvents DEF Refuse
<1>2. busy => activeID # 0
  BY DEF SessionInv, OneTransfer, Working, Transfers
<1>3. \/ Promise!Hears(1, "refused")
      \/ Promise!Hears(1, "send") /\ (~Promised.authed \/ Promised.active # 0)
      \/ Promise!Hears(1, "cancel") /\ ~Promised.authed
  BY <1>2, ReadsMapped, PromisedFields DEF Refuse, Free
<1> QED
  BY <1>1, <1>3 DEF Promise!Refuse

\* abort reaches the transfer at work, if it is the one meant.
LEMMA AbortedMapped ==
    ASSUME SessionInv, Bounded, NEW id, cancelled' = cancelled \cup Aborted(id),
           activeID' = activeID
    PROVE  Stopped' = (Stopped \/ (activeID # 0 /\ id \in {0, activeID}))
<1>1. cancel = activeID
  BY DEF SessionInv, OneTransfer
<1>2. 0 \notin cancelled
  BY DEF Bounded, Transfers
<1> QED
  BY <1>1, <1>2 DEF Stopped, Aborted

\* A cancel stops the transfer at work or nothing.
LEMMA AbortMapped ==
    ASSUME SessionInv, Bounded, Abort
    PROVE  Promise!Stop(1)
<1>1. Promise!Hears(1, "cancel") /\ Promised.authed
  BY ReadsMapped, PromisedFields DEF Abort
<1> DEFINE stop == Stopped \/ Promise!Aimed(1, Head(inbox).id)
<1>2. Stopped' = stop
  BY AbortedMapped, PromisedFields DEF Abort, session, Promise!Aimed
<1>3. Promised' = [Promised EXCEPT !.loop = loop'.pc, !.answer = Seen(loop'.out),
                                   !.authed = authed', !.stopped = Stopped']
  BY LoopPromise DEF Abort, session
<1>4. loop' = loop /\ authed' = authed
  BY DEF Abort, session
<1>5. Promised' = [Promised EXCEPT !.stopped = Stopped']
  BY ONLY <1>3, <1>4, PromisedFields DEF Fields
<1>6. stop = (Promised.stopped \/ Promise!Aimed(1, Head(inbox).id))
  BY PromisedFields
<1> HIDE DEF stop
<1> QED
  BY <1>1, <1>2, <1>5, <1>6 DEF Promise!Stop

\* The loop leaves, and stops what is at work.
LEMMA ReadFailsMapped ==
    ASSUME SessionInv, Bounded, ReadFails
    PROVE  Promise!Leave(1)
<1>1. \/ Promise!Hears(1, "close")
      \/ /\ link \notin {"none", "up", "silent"} /\ inbox = <<>>
         /\ Promised.loop = "read" /\ Promised.answer = <<>>
         /\ UNCHANGED channel
  <2>1. CASE Reads("close")
    BY <2>1, ReadsMapped
  <2>2. CASE loop.pc = "read" /\ loop.out = <<>> /\ inbox = <<>> /\ Down
             /\ UNCHANGED channel
    BY <2>2, PromisedFields, SeenShort DEF Down
  <2> QED
    BY <2>1, <2>2 DEF ReadFails
<1> DEFINE stop == Stopped \/ Promise!Aimed(1, 0)
<1>2. Stopped' = stop
  BY AbortedMapped, PromisedFields DEF ReadFails, Abandoned, session, Promise!Aimed
<1>3. Promised' = [Promised EXCEPT !.loop = loop'.pc, !.answer = Seen(loop'.out),
                                   !.authed = authed', !.stopped = Stopped']
  BY LoopPromise DEF ReadFails, session
<1>4. loop'.pc = "close" /\ loop'.out = loop.out /\ authed' = authed
  BY DEF ReadFails, session, SessionInv, Records, LoopState
<1>5. Promised' = [Promised EXCEPT !.loop = "close", !.stopped = Stopped']
  BY ONLY <1>3, <1>4, PromisedFields DEF Fields
<1>6. stop = (Promised.stopped \/ Promise!Aimed(1, 0))
  BY PromisedFields
<1> HIDE DEF stop
<1> QED
  BY <1>1, <1>2, <1>5, <1>6 DEF Promise!Leave, Promise!wire, channel

\* The connection is closed.
LEMMA CloseMapped ==
    ASSUME SessionInv, Bounded, Close
    PROVE  Promise!Close(1)
<1>1. Promise!Write(1, Promise!Event("close"))
  BY WriteMapped, ShownEvents DEF Close, CloseFrame, Event
<1>2. Promised' = [Promised EXCEPT !.loop = loop'.pc, !.answer = Seen(loop'.out),
                                   !.authed = authed', !.stopped = Stopped']
  BY LoopPromise DEF Close, session
<1>3. /\ loop'.pc = "closed" /\ loop'.out = loop.out
      /\ authed' = authed /\ Stopped' = Stopped
  BY DEF Close, session, SessionInv, Records, LoopState, Stopped
<1>4. Promised' = [Promised EXCEPT !.loop = "closed"]
  BY ONLY <1>2, <1>3, PromisedFields DEF Fields
<1>5. link \in {"up", "silent", "gone", "closed"}
  BY DEF Bounded, ChannelTypeOK
<1>6. (IF link = "silent" THEN "up" ELSE link)' =
         IF link \in {"up", "silent"} THEN "closed" ELSE link
  BY <1>5 DEF Close, Write, Down
<1> QED
  BY <1>1, <1>4, <1>5, <1>6, PromisedFields DEF Close, Promise!Close

\* No ping comes before the hello.
LEMMA PingMapped ==
    ASSUME SessionInv, Bounded, WritePing
    PROVE  Promise!Ping(1)
<1>1. Promise!Write(1, Promise!Event("ping"))
  BY WriteMapped, ShownEvents DEF WritePing, Ping, Event
<1>2. Promised' = Promised
  BY DEF WritePing, session, Promised, Outcome, Working, Stopped
<1>3. Promised.loop = "read" /\ Promised.answer # <<Promise!Event("hello")>>
  <2>1. loop.out \in Seq(Event) /\ loop.out # <<Hello>>
    BY DEF SessionInv, Records, LoopState, WritePing, Ticks
  <2>2. /\ Len(Seen(loop.out)) = Len(loop.out)
        /\ \A i \in 1..Len(loop.out) : Seen(loop.out)[i] = Shown(loop.out[i])
    BY <2>1, SeenType
  <2>3. ASSUME Seen(loop.out) = <<Promise!Event("hello")>> PROVE FALSE
    <3>1. Len(loop.out) = 1 /\ Shown(loop.out[1]) = [type |-> "hello"]
      BY <2>2, <2>3 DEF Promise!Event
    <3>2. loop.out[1] \in Event
      BY <2>1, <3>1
    <3>3. loop.out[1] = Hello
      BY <3>1, <3>2 DEF Shown, Hello
    <3> QED
      BY <2>1, <3>1, <3>3
  <2> QED
    BY <2>3, PromisedFields DEF WritePing, Ticks
<1>4. link \in {"up", "silent", "gone", "closed"} /\ ~Down
  BY DEF Bounded, ChannelTypeOK, WritePing
<1> QED
  BY <1>1, <1>2, <1>3, <1>4 DEF Promise!Ping, WritePing, Down

\* The transfer takes the next id, which no cancel has reached before.
LEMMA StartMapped ==
    ASSUME SessionInv, Bounded, Heard, StartSend
    PROVE  Promise!Start(1)
<1> DEFINE id == nextID + 1
<1>1. /\ Reads("send") /\ authed /\ ~busy
      /\ nextID' = id /\ activeID' = id /\ id \in Transfers
      /\ task' = [task EXCEPT ![id].pc = "send"]
      /\ UNCHANGED <<authed, loop, cancelled>>
  BY BoundsAssumption DEF StartSend, Free, Bounded, Transfers
<1>2. task \in [Transfers -> TaskState] /\ nextID \in Nat
  BY DEF SessionInv, Records
<1>3. Working = {} /\ activeID = 0
  BY <1>1 DEF SessionInv, OneTransfer
<1>4. Outcome = "open"
  BY <1>3 DEF Outcome
<1>5. /\ task'[id].pc = "send"
      /\ \A k \in Transfers : task'[k].out = task[k].out
  BY <1>1, <1>2 DEF TaskState
<1>6. Outcome' = "open"
  BY <1>1, <1>5 DEF Outcome
<1>7. ~Stopped /\ ~Stopped'
  BY <1>1, <1>2, <1>3 DEF Stopped, Heard, Bounded, Transfers
<1>8. Promised'.voice = Promised.voice
  <2>1. [k \in Transfers |-> Seen(task'[k].out)] = [k \in Transfers |-> Seen(task[k].out)]
    BY <1>5
  <2> QED
    BY ONLY <2>1, PromisedFields, PromisedFieldsNext
<1>9. Stopped' = Stopped
  BY <1>7 DEF Stopped
<1> HIDE DEF id
<1>10. Promised' = [Promised EXCEPT !.last = id, !.active = id]
  <2>1. /\ Promised'.loop = Promised.loop /\ Promised'.answer = Promised.answer
        /\ Promised'.authed = Promised.authed
        /\ Promised'.last = id /\ Promised'.active = id
    BY <1>1, PromisedFields, PromisedFieldsNext
  <2>3. Promised'.outcome = Promised.outcome
    BY <1>4, <1>6, PromisedFields, PromisedFieldsNext
  <2>4. Promised'.stopped = Promised.stopped
    BY ONLY <1>9, PromisedFields, PromisedFieldsNext
  <2>2. /\ Promised = [x \in Fields |-> Promised[x]]
        /\ Promised' = [x \in Fields |-> Promised'[x]]
    BY PromisedFields, PromisedFieldsNext
  <2> QED
    BY ONLY <1>8, <2>1, <2>3, <2>4, <2>2 DEF Fields
<1>11. Promised' = [Promised EXCEPT !.last = @ + 1, !.active = Promised.last + 1]
  BY <1>10, PromisedFields DEF id
<1>12. Promise!Hears(1, "send")
  BY <1>1, ReadsMapped
<1> QED
  BY <1>1, <1>3, <1>11, <1>12, PromisedFields DEF Promise!Start, id

-----------------------------------------------------------------------------
(* Steps of the goroutine of a transfer.                                   *)

\* A goroutine that stays where it is with what is at work changes its voice.
LEMMA VoicePromise ==
    ASSUME SessionInv, NEW k \in Transfers, NEW t,
           task' = [task EXCEPT ![k] = t], UNCHANGED <<authed, nextID, loop>>
    PROVE  /\ Promised'.loop = Promised.loop /\ Promised'.answer = Promised.answer
           /\ Promised'.authed = Promised.authed /\ Promised'.last = Promised.last
           /\ Promised'.voice = [Promised.voice EXCEPT ![k] = Seen(t.out)]
           /\ Promised = [x \in Fields |-> Promised[x]]
           /\ Promised' = [x \in Fields |-> Promised'[x]]
           /\ Promised.voice[k] = Seen(task[k].out)
<1>1. DOMAIN task = Transfers
  BY DEF SessionInv, Records
<1>2. task'[k] = t /\ \A j \in Transfers : j # k => task'[j] = task[j]
  BY <1>1
<1>3. [j \in Transfers |-> Seen(task'[j].out)]
         = [[j \in Transfers |-> Seen(task[j].out)] EXCEPT ![k] = Seen(t.out)]
  <2>1. \A j \in Transfers :
           Seen(task'[j].out) = IF j = k THEN Seen(t.out) ELSE Seen(task[j].out)
    BY <1>2
  <2> QED
    BY ONLY <2>1
<1>4. Promised'.voice = [Promised.voice EXCEPT ![k] = Seen(t.out)]
  BY ONLY <1>3, PromisedFields, PromisedFieldsNext
<1>5. Promised.voice[k] = Seen(task[k].out)
  BY PromisedFields
<1>6. /\ Promised = [x \in Fields |-> Promised[x]]
      /\ Promised' = [x \in Fields |-> Promised'[x]]
  BY PromisedFields, PromisedFieldsNext
<1>7. /\ Promised'.loop = Promised.loop /\ Promised'.answer = Promised.answer
      /\ Promised'.authed = Promised.authed /\ Promised'.last = Promised.last
  BY PromisedFields, PromisedFieldsNext
<1> QED
  BY <1>4, <1>5, <1>6, <1>7

\* The transfer at work is the one the session is busy with.
LEMMA AtWork ==
    ASSUME SessionInv, NEW k \in Working
    PROVE  /\ activeID = k /\ k \in Transfers
           /\ Outcome = IF task[k].pc = "send" THEN "open"
                        ELSE IF task[k].err THEN "failed" ELSE "sent"
<1>1. activeID = k /\ Working # {} /\ k \in Transfers
  BY DEF SessionInv, OneTransfer, Working
<1> QED
  BY <1>1 DEF Outcome

\* A goroutine writes an event.
LEMMA TaskWritesMapped ==
    ASSUME SessionInv, Bounded, NEW k \in Transfers, TaskWrites(k)
    PROVE  Promise!Speak(1, k)
<1> DEFINE t == [task[k] EXCEPT !.out = Tail(@)]
<1>1. /\ task[k] \in TaskState /\ task \in [Transfers -> TaskState]
      /\ task[k].out \in Seq(Event) /\ task[k].out # <<>> /\ Head(task[k].out) \in Event
  BY OwnState DEF TaskState, TaskWrites
<1>2. task' = [task EXCEPT ![k] = t] /\ UNCHANGED <<link, inbox, session, loop, cancelled>>
  BY <1>1 DEF TaskWrites
<1>3. t.out = Tail(task[k].out) /\ t.pc = task[k].pc /\ t.err = task[k].err
  BY <1>1 DEF TaskState
<1>4. Promise!Write(1, Head(Seen(task[k].out)))
  BY <1>1, WriteMapped, SeenTail DEF TaskWrites
<1>5. /\ task'[k].pc = task[k].pc /\ task'[k].err = task[k].err
      /\ \A j \in Transfers : j # k => task'[j] = task[j]
  BY <1>1, <1>2, <1>3
<1>6. Working' = Working
  BY <1>5 DEF Working
<1>7. Outcome' = Outcome
  <2>1. Working # {} => activeID \in Transfers
    BY DEF SessionInv, OneTransfer, Working
  <2>2. activeID' = activeID
    BY <1>2 DEF session
  <2> QED
    BY <1>5, <1>6, <2>1, <2>2 DEF Outcome
<1>8. Stopped' = Stopped /\ activeID' = activeID
  BY <1>2 DEF Stopped, session
<1> HIDE DEF t
<1>9. /\ Promised'.loop = Promised.loop /\ Promised'.answer = Promised.answer
      /\ Promised'.authed = Promised.authed /\ Promised'.last = Promised.last
      /\ Promised'.voice = [Promised.voice EXCEPT ![k] = Seen(t.out)]
      /\ Promised = [x \in Fields |-> Promised[x]]
      /\ Promised' = [x \in Fields |-> Promised'[x]]
      /\ Promised.voice[k] = Seen(task[k].out)
  BY <1>2, VoicePromise DEF session
<1>10. /\ Promised'.outcome = Promised.outcome /\ Promised'.active = Promised.active
       /\ Promised'.stopped = Promised.stopped
  <2>1. Promised'.outcome = Promised.outcome /\ Promised'.active = Promised.active
    BY <1>7, <1>8, PromisedFields, PromisedFieldsNext
  <2>2. Promised'.stopped = Promised.stopped
    BY <1>8, PromisedFields, PromisedFieldsNext
  <2> QED
    BY <2>1, <2>2
<1>11. Promised' = [Promised EXCEPT !.voice = [@ EXCEPT ![k] = Seen(t.out)]]
  BY ONLY <1>9, <1>10 DEF Fields
<1>12. Seen(t.out) = Tail(Promised.voice[k]) /\ Promised.voice[k] # <<>>
  BY <1>1, <1>3, <1>9, SeenTail
<1> QED
  BY <1>2, <1>4, <1>9, <1>11, <1>12 DEF Promise!Speak

\* A step of the goroutine at work that keeps it at work.
LEMMA WorkPromise ==
    ASSUME SessionInv, NEW k \in Working, NEW t \in TaskState, t.pc \in {"send", "clear"},
           task' = [task EXCEPT ![k] = t], UNCHANGED <<session, loop, cancelled>>,
           NEW outcome, \/ t.pc = "send" /\ outcome = "open"
                        \/ t.pc = "clear" /\ t.err = TRUE /\ outcome = "failed"
                        \/ t.pc = "clear" /\ ~t.err /\ outcome = "sent"
    PROVE  Promised' = [Promised EXCEPT !.outcome = outcome,
                                        !.voice = [@ EXCEPT ![k] = Seen(t.out)]]
<1>1. activeID = k /\ k \in Transfers /\ activeID' = activeID
  BY AtWork DEF session
<1>2. task'[k] = t
  BY <1>1 DEF SessionInv, Records
<1>3. Working' # {}
  BY <1>1, <1>2 DEF Working
<1>4. Outcome' = outcome
  BY <1>1, <1>2, <1>3 DEF Outcome
<1>5. Stopped' = Stopped
  BY DEF Stopped, session
<1>6. /\ Promised'.loop = Promised.loop /\ Promised'.answer = Promised.answer
      /\ Promised'.authed = Promised.authed /\ Promised'.last = Promised.last
      /\ Promised'.voice = [Promised.voice EXCEPT ![k] = Seen(t.out)]
      /\ Promised = [x \in Fields |-> Promised[x]]
      /\ Promised' = [x \in Fields |-> Promised'[x]]
  BY <1>1, VoicePromise DEF session
<1>7. Promised'.outcome = outcome /\ Promised'.active = Promised.active
  BY <1>1, <1>4, PromisedFields, PromisedFieldsNext
<1>8. Promised'.stopped = Promised.stopped
  BY <1>5, PromisedFields, PromisedFieldsNext
<1> QED
  BY ONLY <1>6, <1>7, <1>8 DEF Fields

\* What the phone sees of a transfer that is sending.
LEMMA InSendMapped ==
    ASSUME SessionInv, NEW k \in Transfers, InSend(k)
    PROVE  /\ k \in Working /\ Promise!AtWork(1, k)
           /\ task[k] \in TaskState /\ ~task[k].err
<1>1. k \in Working
  BY DEF InSend, Working
<1>2. activeID = k /\ Outcome = "open"
  BY <1>1, AtWork DEF InSend
<1>3. Seen(task[k].out) = <<>>
  BY SeenShort DEF InSend
<1>4. task[k] \in TaskState /\ ~task[k].err
  BY OwnState DEF InSend, Says
<1>5. Promised.voice[k] = <<>>
  BY <1>3, PromisedFields
<1> QED
  BY <1>1, <1>2, <1>4, <1>5, PromisedFields DEF Promise!AtWork

\* What is seen of a goroutine that says nothing, or how far it is.
LEMMA SeenReport ==
    ASSUME NEW k, NEW out \in {<<>>, <<Progress(k)>>}
    PROVE  Seen(out) = IF out = <<>> THEN <<>> ELSE <<Promise!About("progress", k)>>
BY SeenShort, ShownEvents

\* A frame, or a report between two, is a report or nothing to the phone.
LEMMA SendsFrameMapped ==
    ASSUME SessionInv, Bounded, NEW k \in Transfers, Reports(k) \/ SendsFrame(k)
    PROVE  Promise!Report(1, k) \/ UNCHANGED Promise!sessionVars
<1>1. /\ k \in Working /\ Promise!AtWork(1, k) /\ task[k] \in TaskState
  BY InSendMapped DEF Reports, SendsFrame
<1>2. PICK out \in {<<>>, <<Progress(k)>>} :
        task' = [task EXCEPT ![k].left = @ - 1, ![k].out = out]
  BY DEF Reports, SendsFrame
<1> DEFINE t == [task[k] EXCEPT !.left = @ - 1, !.out = out]
<1>3. task' = [task EXCEPT ![k] = t]
  BY <1>2 DEF SessionInv, Records
<1>4. t \in TaskState /\ t.pc = "send" /\ t.out = out
  <2>1. task[k].left - 1 \in 0..Frames /\ task[k].pc = "send"
    BY <1>1, FramesAssumption DEF TaskState, Reports, SendsFrame, InSend
  <2>2. out \in Seq(Event)
    BY OwnState, ShortScripts
  <2> QED
    BY <1>1, <2>1, <2>2 DEF TaskState
<1> HIDE DEF t
<1>5. Promised' = [Promised EXCEPT !.outcome = "open",
                                   !.voice = [@ EXCEPT ![k] = Seen(out)]]
  <2>1. UNCHANGED <<session, loop, cancelled>>
    BY <1>1 DEF Reports, SendsFrame
  <2> QED
    BY <1>1, <1>3, <1>4, <2>1, WorkPromise
<1>6. Promised.outcome = "open" /\ Promised.voice[k] = <<>>
  BY <1>1 DEF Promise!AtWork
<1>7. Promised' = [Promised EXCEPT !.voice = [@ EXCEPT ![k] = Seen(out)]]
  BY ONLY <1>5, <1>6, PromisedFields DEF Fields
<1>8. Seen(out) = IF out = <<>> THEN <<>> ELSE <<Promise!About("progress", k)>>
  BY SeenReport
<1>9. CASE out = <<>>
  <2>1. Promised' = Promised
    <3>1. [Promised.voice EXCEPT ![k] = <<>>] = Promised.voice
      BY <1>6, PromisedFields
    <3> QED
      BY ONLY <1>7, <1>8, <1>9, <3>1, PromisedFields DEF Fields
  <2> QED
    BY <2>1 DEF Reports, SendsFrame, channel, Promise!sessionVars, Promise!wire
<1>10. CASE out # <<>>
  <2>1. Promised' = [Promised EXCEPT !.voice =
                        [@ EXCEPT ![k] = <<Promise!About("progress", k)>>]]
    BY <1>7, <1>8, <1>10
  <2> QED
    BY <1>1, <2>1 DEF Reports, SendsFrame, channel, Promise!Report, Promise!wire
<1> QED
  BY <1>9, <1>10

\* Send fails.
LEMMA ReturnsErrorMapped ==
    ASSUME SessionInv, Bounded, NEW k \in Transfers, SeesCancel(k) \/ TransferFails(k)
    PROVE  Promise!Fail(1, k)
<1>1. /\ k \in Working /\ Promise!AtWork(1, k) /\ task[k] \in TaskState
      /\ ReturnsError(k)
  BY InSendMapped DEF SeesCancel, TransferFails
<1>2. PICK out \in {<<>>, <<Progress(k)>>} :
        task' = [task EXCEPT ![k].pc = "clear", ![k].err = TRUE, ![k].out = out]
  BY <1>1 DEF ReturnsError
<1> DEFINE t == [task[k] EXCEPT !.pc = "clear", !.err = TRUE, !.out = out]
<1>3. task' = [task EXCEPT ![k] = t]
  BY <1>2 DEF SessionInv, Records
<1>4. t \in TaskState /\ t.pc = "clear" /\ t.err = TRUE /\ t.out = out
  <2>1. out \in Seq(Event)
    BY OwnState, ShortScripts
  <2> QED
    BY <1>1, <2>1 DEF TaskState
<1> HIDE DEF t
<1>5. Promised' = [Promised EXCEPT !.outcome = "failed",
                                   !.voice = [@ EXCEPT ![k] = Seen(out)]]
  <2>1. UNCHANGED <<session, loop, cancelled>>
    BY <1>1 DEF ReturnsError
  <2>2. k \in Working
    BY <1>1
  <2> DEFINE said == Seen(out)
  <2>3. Seen(t.out) = said
    BY <1>4
  <2> HIDE DEF said
  <2>4. t \in TaskState /\ t.pc = "clear" /\ t.err = TRUE
    BY <1>4
  <2>5. Promised' = [Promised EXCEPT !.outcome = "failed", !.voice = [@ EXCEPT ![k] = said]]
    BY <1>3, <2>1, <2>2, <2>3, <2>4, WorkPromise
  <2> QED
    BY <2>5 DEF said
<1>6. Seen(out) \in {<<>>, <<Promise!About("progress", k)>>}
  BY SeenReport
<1> QED
  <2>1. UNCHANGED channel
    BY <1>1 DEF ReturnsError
  <2> QED
    BY <1>1, <1>5, <1>6, <2>1 DEF channel, Promise!Fail, Promise!wire

\* Send succeeds.
LEMMA FinishMapped ==
    ASSUME SessionInv, Bounded, NEW k \in Transfers, Finish(k)
    PROVE  Promise!Succeed(1, k)
<1>1. /\ k \in Working /\ Promise!AtWork(1, k) /\ task[k] \in TaskState /\ ~task[k].err
  BY InSendMapped DEF Finish
<1> DEFINE script == <<Progress(k), DoneEvent(k)>>
           t == [task[k] EXCEPT !.pc = "clear", !.out = script]
<1>2. task' = [task EXCEPT ![k] = t]
  BY DEF Finish, SessionInv, Records
<1>3. script \in Seq(Event)
  BY OwnState
<1>4. Seen(script) = <<Promise!About("progress", k), Promise!About("done", k)>>
  BY SeenShort, ShownEvents
<1> HIDE DEF script
<1>5. t \in TaskState /\ t.pc = "clear" /\ ~t.err /\ t.out = script
  BY <1>1, <1>3 DEF TaskState
<1> HIDE DEF t
<1>6. Promised' = [Promised EXCEPT !.outcome = "sent",
                                   !.voice = [@ EXCEPT ![k] = Seen(script)]]
  <2>1. UNCHANGED <<session, loop, cancelled>>
    BY <1>1 DEF Finish
  <2> QED
    BY <1>1, <1>2, <1>5, <2>1, WorkPromise
<1> QED
  BY <1>1, <1>4, <1>6 DEF Finish, channel, Promise!Succeed, Promise!wire

\* The session is free again, and an error is due.
LEMMA GiveBackMapped ==
    ASSUME SessionInv, Bounded, NEW k \in Transfers, GiveBack(k)
    PROVE  Promise!GiveBack(1, k)
<1>1. /\ task[k] \in TaskState /\ task \in [Transfers -> TaskState]
      /\ task[k].pc = "clear" /\ task[k].out = <<>> /\ k \in Working
  BY OwnState DEF GiveBack, Working
<1>2. /\ activeID = k /\ Outcome = IF task[k].err THEN "failed" ELSE "sent"
  BY <1>1, AtWork
<1> DEFINE words == Epilogue(k)
           t == [task[k] EXCEPT !.pc = "last", !.out = words]
<1>3. task' = [task EXCEPT ![k] = t]
  BY <1>1 DEF GiveBack
<1>4. Seen(words) = IF task[k].err
                    THEN <<Promise!About("progress", k), Promise!Event("error")>>
                    ELSE <<>>
  BY SeenShort, ShownEvents DEF Epilogue
<1> HIDE DEF words
<1>5. t.pc = "last" /\ t.out = words
  BY <1>1 DEF TaskState
<1> HIDE DEF t
<1>6. Working' = {}
  <2>1. \A j \in Transfers : j # k => j \notin Working /\ task'[j] = task[j]
    BY <1>1, <1>2, <1>3 DEF SessionInv, OneTransfer
  <2>2. task'[k] = t
    BY <1>1, <1>3
  <2> QED
    BY <1>5, <2>1, <2>2 DEF Working
<1>7. Outcome' = "open" /\ activeID' = 0
  BY <1>6 DEF Outcome, GiveBack
<1>8. Stopped' = FALSE
  BY DEF GiveBack, Stopped, Bounded, Transfers
<1>9. /\ Promised'.loop = Promised.loop /\ Promised'.answer = Promised.answer
      /\ Promised'.authed = Promised.authed /\ Promised'.last = Promised.last
      /\ Promised'.voice = [Promised.voice EXCEPT ![k] = Seen(t.out)]
      /\ Promised = [x \in Fields |-> Promised[x]]
      /\ Promised' = [x \in Fields |-> Promised'[x]]
      /\ Promised.voice[k] = Seen(task[k].out)
  BY <1>3, VoicePromise DEF GiveBack
<1>10. /\ Promised'.outcome = "open" /\ Promised'.active = 0
  BY <1>7, PromisedFields, PromisedFieldsNext
<1>11. Promised'.stopped = FALSE
  BY <1>8, PromisedFields, PromisedFieldsNext
<1>12. Promised' = [Promised EXCEPT !.active = 0, !.stopped = FALSE, !.outcome = "open",
                                    !.voice = [@ EXCEPT ![k] = Seen(words)]]
  BY ONLY <1>5, <1>9, <1>10, <1>11 DEF Fields
<1>13. /\ Promised.active = k /\ Promised.voice[k] = <<>>
       /\ Promised.outcome = IF task[k].err THEN "failed" ELSE "sent"
  BY <1>1, <1>2, <1>9, SeenShort, PromisedFields
<1>14. Seen(words) \in IF Promised.outcome = "failed" THEN Promise!LastWords(k) ELSE {<<>>}
  BY <1>4, <1>13 DEF Promise!LastWords
<1> QED
  <2> DEFINE sess == [s \in {1} |-> Promised]
  <2>1. [s \in {1} |-> Promised'] =
           [sess EXCEPT ![1].active = 0, ![1].stopped = FALSE, ![1].outcome = "open",
                        ![1].voice[k] = Seen(words)]
    BY ONLY <1>12
  <2> HIDE DEF sess
  <2>2. UNCHANGED channel
    BY DEF GiveBack
  <2> QED
    BY <1>13, <1>14, <2>1, <2>2 DEF sess, channel, Promise!GiveBack, Promise!wire

-----------------------------------------------------------------------------
(* Steps of the phone and of the network.                                  *)

\* What touches the connection alone leaves the session as it was.
LEMMA SameSession ==
    ASSUME UNCHANGED <<session, loop, task, cancelled>>
    PROVE  Promised' = Promised
BY DEF session, Promised, Outcome, Working, Stopped

\* A connection that breaks loses the events under way.
LEMMA TornDownMapped ==
    ASSUME Bounded, link \in {"up", "silent"}, TornDown,
           UNCHANGED <<session, loop, task, cancelled>>
    PROVE  Promise!Break(1)
<1>1. Seen(outbox') = <<>>
  BY SeenShort DEF TornDown
<1>2. inbox \in Seq(Command) /\ inbox' = inbox /\ Len(inbox) \in 0..Len(inbox)
  BY DEF Bounded, ChannelTypeOK, TornDown
<1>3. SubSeq(inbox, 1, Len(inbox)) = inbox
  BY <1>2
<1> QED
  BY <1>1, <1>2, <1>3, SameSession DEF TornDown, Promise!Break

\* The phone and the network do what Session lets them; silence cannot be seen.
LEMMA OutsideMapped ==
    ASSUME Bounded, Phone \/ Network
    PROVE  Promise!SessionNext \/ UNCHANGED Promise!sessionVars
<1>1. /\ link \in {"up", "silent", "gone", "closed"}
      /\ inbox \in Seq(Command) /\ outbox \in Seq(Event)
  BY DEF Bounded, ChannelTypeOK
<1>2. Promised' = Promised /\ UNCHANGED <<session, loop, task, cancelled>>
  BY SameSession DEF Phone, Network
<1>3. ASSUME NEW command \in Command, PhoneSays(command)
      PROVE  Promise!Say(1, command) /\ command \in Promise!Command
  <2>1. command \in Promise!Command
    BY <1>3, BoundsAssumption DEF Command, Promise!Command, Transfers
  <2>2. Promise!Say(1, command)
    BY <1>2, <1>3 DEF PhoneSays, Promise!Say
  <2> QED
    BY <2>1, <2>2
<1>4. CASE PhoneReads
  <2>1. Seen(outbox) # <<>> /\ Seen(outbox') = Tail(Seen(outbox))
    BY <1>1, <1>4, SeenTail DEF PhoneReads
  <2> QED
    BY <1>2, <1>4, <2>1 DEF PhoneReads, Promise!Receive, Promise!SessionNext
<1>5. CASE PhoneDrops \/ KernelGivesUp
  <2>1. link \in {"up", "silent"} /\ TornDown
    BY <1>5 DEF PhoneDrops, KernelGivesUp
  <2> QED
    BY <1>2, <2>1, TornDownMapped DEF Promise!SessionNext
<1>6. CASE FallsSilent \/ ComesBack
  BY <1>1, <1>2, <1>6 DEF FallsSilent, ComesBack, Promise!sessionVars, Promise!wire
<1> QED
  BY <1>3, <1>4, <1>5, <1>6 DEF Phone, Network, Promise!SessionNext

-----------------------------------------------------------------------------
(* The refinement.                                                         *)

\* A session starts fresh.
LEMMA InitMapped == Init => Promise!SessionInit
<1> SUFFICES ASSUME Init PROVE Promise!SessionInit
  OBVIOUS
<1>1. /\ inbox = <<>> /\ outbox = <<>> /\ link = "up" /\ authed \in BOOLEAN
      /\ nextID = 0 /\ activeID = 0 /\ cancelled = {}
      /\ loop = [pc |-> "read", out |-> <<Hello>>]
  BY DEF Init, ChannelInit
<1>2. \A k \in Transfers : task[k].pc = "none" /\ task[k].out = <<>>
  BY DEF Init
<1>3. Seen(outbox) = <<>> /\ Seen(loop.out) = <<Promise!Event("hello")>>
  BY <1>1, SeenShort DEF Shown, Hello, Promise!Event
<1>4. Outcome = "open" /\ Stopped = FALSE
  BY <1>1, <1>2 DEF Outcome, Working, Stopped
<1>5. [k \in Transfers |-> Seen(task[k].out)] = [k \in Transfers |-> <<>>]
  BY <1>2, SeenShort
<1>6. Promised = Promise!Fresh(authed)
  <2>1. Promised.voice = [k \in Transfers |-> <<>>]
    BY ONLY <1>5, PromisedFields
  <2>2. /\ Promised.loop = "read" /\ Promised.answer = <<Promise!Event("hello")>>
        /\ Promised.authed = authed /\ Promised.last = 0 /\ Promised.active = 0
        /\ Promised.outcome = "open"
    BY <1>1, <1>3, <1>4, PromisedFields
  <2>3. Promised.stopped = FALSE
    BY ONLY <1>4, PromisedFields
  <2>4. Promised = [x \in Fields |-> Promised[x]]
    BY PromisedFields
  <2> QED
    BY ONLY <2>1, <2>2, <2>3, <2>4 DEF Fields, Promise!Fresh
<1>7. \E open \in [{1} -> BOOLEAN] :
         [s \in {1} |-> Promised] = [s \in {1} |-> Promise!Fresh(open[s])]
  <2> DEFINE open == [s \in {1} |-> authed]
  <2>1. open \in [{1} -> BOOLEAN] /\ open[1] = authed
    BY <1>1
  <2> HIDE DEF open
  <2>2. [s \in {1} |-> Promised] = [s \in {1} |-> Promise!Fresh(open[s])]
    BY <1>6, <2>1
  <2> QED
    BY <2>1, <2>2
<1> QED
  BY <1>1, <1>3, <1>7 DEF Promise!SessionInit

\* Every step is one of Session's, or cannot be seen.
LEMMA NextMapped ==
    ASSUME SessionInv, Bounded, Heard, [Next]_vars
    PROVE  [Promise!SessionNext]_(Promise!sessionVars)
<1>1. CASE LoopStep
  BY <1>1, LoopWritesMapped, AuthenticateMapped, CatalogMapped, StartMapped, RefuseMapped,
     AbortMapped, ReadFailsMapped, CloseMapped
     DEF LoopStep, Promise!SessionNext, Promise!LoopActs
<1>2. CASE WritePing
  BY <1>2, PingMapped DEF Promise!SessionNext
<1>3. ASSUME NEW k \in Transfers, TaskStep(k) \/ TransferFails(k)
      PROVE  [Promise!SessionNext]_(Promise!sessionVars)
  <2>1. Promise!TransferActs(1, k) \/ UNCHANGED Promise!sessionVars
    BY <1>3, TaskWritesMapped, SendsFrameMapped, ReturnsErrorMapped, FinishMapped,
       GiveBackMapped
       DEF TaskStep, Promise!TransferActs
  <2> QED
    BY <2>1 DEF Promise!SessionNext
<1>4. CASE Phone \/ Network
  BY <1>4, OutsideMapped
<1>5. CASE UNCHANGED vars
  <2>1. Promised' = Promised /\ UNCHANGED channel
    BY <1>5, SameSession DEF vars
  <2> QED
    BY <2>1 DEF channel, Promise!sessionVars, Promise!wire
<1> QED
  BY <1>1, <1>2, <1>3, <1>4, <1>5 DEF Next

\* No step lets a cancel reach further.
LEMMA HeardStep ==
    ASSUME SessionInv, Bounded, Heard, [Next]_vars
    PROVE  Heard'
<1>1. nextID \in Nat /\ cancel <= nextID /\ cancelled \subseteq Transfers
  BY DEF SessionInv, Records, OneTransfer, InTurn, Working, Bounded
<1>2. nextID' = nextID \/ nextID' = nextID + 1
  BY DEF Next, LoopStep, LoopWrites, Authenticate, SendCatalog, StartSend, Refuse, Abort,
         ReadFails, Close, WritePing, TaskStep, TaskWrites, Reports, SendsFrame, SeesCancel,
         TransferFails, ReturnsError, Finish, GiveBack, Phone, Network, session, vars
<1>3. cancelled' \subseteq cancelled \cup {cancel}
  BY DEF Next, LoopStep, LoopWrites, Authenticate, SendCatalog, StartSend, Refuse, Abort,
         ReadFails, Close, WritePing, TaskStep, TaskWrites, Reports, SendsFrame, SeesCancel,
         TransferFails, ReturnsError, Finish, GiveBack, Phone, Network, vars,
         Abandoned, Aborted
<1> QED
  BY <1>1, <1>2, <1>3 DEF Heard, Transfers

\* Each session of the bridge does what module Session promises its phone.
THEOREM SessionIsKept == Spec => KeepsSession
<1>1. Init => SessionInv /\ Bounded /\ Heard
  BY InitSession, BoundsAssumption DEF Init, ChannelInit, Bounded, ChannelTypeOK, Heard
<1>2. SessionInv /\ Bounded /\ Heard /\ [Next]_vars => (SessionInv /\ Bounded /\ Heard)'
  BY NextSession, HeardStep, NextBounded
<1>3. SessionInv /\ Bounded /\ Heard /\ [Next]_vars
         => [Promise!SessionNext]_(Promise!sessionVars)
  BY NextMapped
<1> QED
  BY <1>1, <1>2, <1>3, InitMapped, PTL DEF Spec, KeepsSession, Promise!SessionSpec

=============================================================================
