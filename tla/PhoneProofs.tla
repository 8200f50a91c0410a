----------------------------- MODULE PhoneProofs -----------------------------
(***************************************************************************)
(* The app never gives a command to a session that does not take it yet, and *)
(* leaves no more sockets behind than it was told to reconnect, for any      *)
(* number of transfers, of sockets, of losses and of taps.                  *)
(***************************************************************************)
EXTENDS Phone, FiniteSetTheorems, TLAPS

-----------------------------------------------------------------------------
(* Types.                                                                  *)

Ids == Transfers \cup {0}

Events ==
    [type : {"hello", "catalog", "error", "close"}]
    \cup [type : {"progress", "done"}, id : Ids]

SessionState ==
    [loop : {"read", "close", "closed"}, answer : Seq(Events), authed : BOOLEAN,
     last : Nat, active : Ids, stopped : BOOLEAN,
     outcome : {"open", "sent", "failed"}, voice : [Transfers -> Seq(Events)]]

Types ==
    /\ TypeOK
    /\ inbox \in [Sockets -> Seq(Command)]
    /\ outbox \in [Sockets -> Seq(Events)]
    /\ sess \in [Sockets -> SessionState]
    /\ ws \in Sockets \cup {0}
    /\ DOMAIN taps = DOMAIN Bound

LEMMA EventTypes ==
    /\ Event("hello") \in Events /\ Event("catalog") \in Events /\ Event("error") \in Events
    /\ \A k \in Ids : About("progress", k) \in Events /\ About("done", k) \in Events
    /\ Fresh(FALSE) \in SessionState
<1>1. /\ Event("hello") \in Events /\ Event("catalog") \in Events /\ Event("error") \in Events
      /\ \A k \in Ids : About("progress", k) \in Events /\ About("done", k) \in Events
  BY DEF Event, About, Events
<1>2. <<Event("hello")>> \in Seq(Events) /\ <<>> \in Seq(Events)
  BY <1>1
<1>3. Fresh(FALSE) \in SessionState
  BY <1>2 DEF Fresh, SessionState, Ids
<1> QED
  BY <1>1, <1>3

\* A session in a new state.
LEMMA SessionUpdate ==
    ASSUME Types, NEW s \in Sockets, NEW r \in SessionState, sess' = [sess EXCEPT ![s] = r]
    PROVE  /\ sess' \in [Sockets -> SessionState] /\ sess'[s] = r
           /\ \A t \in Sockets \ {s} : sess'[t] = sess[t]
BY DEF Types

-----------------------------------------------------------------------------
(* The inductive invariant.                                                *)

\* What waits for a session that is not authenticated begins with auth, and a
\* socket through which the app could give another command is broken.
AuthLeads(s) ==
    ~sess[s].authed =>
        /\ inbox[s] # <<>> => Head(inbox[s]).type = "auth"
        /\ inbox[s] = <<>> /\ ws = s /\ ready[s] = "open" => link[s] # "up"

\* Nothing is said before a socket is open.
SilentBefore(s) == link[s] = "none" => inbox[s] = <<>>

PhoneInv == Types /\ \A s \in Sockets : AuthLeads(s) /\ SilentBefore(s)

-----------------------------------------------------------------------------
(* The steps of a session.                                                 *)

\* What a step of the session s may do to the rest.
SessionMoves(s) ==
    /\ sess' \in [Sockets -> SessionState] /\ outbox' \in [Sockets -> Seq(Events)]
    /\ inbox' \in [Sockets -> Seq(Command)]
    /\ link' = link
    /\ \A t \in Sockets \ {s} : sess'[t] = sess[t] /\ inbox'[t] = inbox[t]
    /\ sess[s].authed => sess'[s].authed
    /\ inbox'[s] = inbox[s] \/ (inbox[s] # <<>> /\ sess'[s].authed)

LEMMA WriteTyped ==
    ASSUME Types, NEW s \in Sockets, NEW event \in Events, Write(s, event)
    PROVE  outbox' \in [Sockets -> Seq(Events)]
<1>1. outbox \in [Sockets -> Seq(Events)] /\ Append(outbox[s], event) \in Seq(Events)
  BY DEF Types
<1> QED
  BY <1>1 DEF Write

\* A command is read by a session that is authenticated, or is auth.
LEMMA HearsTyped ==
    ASSUME PhoneInv, NEW s \in Sockets, NEW type, Hears(s, type)
    PROVE  /\ inbox' \in [Sockets -> Seq(Command)]
           /\ inbox[s] # <<>> /\ \A t \in Sockets \ {s} : inbox'[t] = inbox[t]
           /\ sess[s].authed \/ type = "auth"
           /\ UNCHANGED <<link, outbox>>
<1>1. inbox \in [Sockets -> Seq(Command)] /\ inbox[s] # <<>>
  BY DEF PhoneInv, Types, Hears
<1>2. inbox' = [inbox EXCEPT ![s] = Tail(inbox[s])] /\ Head(inbox[s]).type = type
  BY DEF Hears
<1>3. Tail(inbox[s]) \in Seq(Command)
  BY <1>1
<1>4. inbox' \in [Sockets -> Seq(Command)] /\ \A t \in Sockets \ {s} : inbox'[t] = inbox[t]
  BY <1>1, <1>2, <1>3
<1>5. sess[s].authed \/ type = "auth"
  BY <1>1, <1>2 DEF PhoneInv, AuthLeads
<1> QED
  BY <1>1, <1>4, <1>5 DEF Hears

LEMMA LoopMoves ==
    ASSUME PhoneInv, NEW s \in Sockets,
           Answer(s) \/ Authenticate(s) \/ List(s) \/ Start(s) \/ Refuse(s) \/ Stop(s)
    PROVE  SessionMoves(s)
<1>1. Types /\ sess[s] \in SessionState /\ sess \in [Sockets -> SessionState]
  BY DEF PhoneInv, Types
<1>2. CASE Answer(s)
  <2> DEFINE rest == Tail(sess[s].answer)
             r == [sess[s] EXCEPT !.answer = rest]
  <2>1. sess[s].answer \in Seq(Events) /\ sess[s].answer # <<>>
    BY <1>1, <1>2 DEF Answer, SessionState
  <2>2. rest \in Seq(Events) /\ Head(sess[s].answer) \in Events
    BY <2>1
  <2>3. outbox' \in [Sockets -> Seq(Events)]
    BY <1>1, <1>2, <2>2, WriteTyped DEF Answer
  <2>4. sess' = [sess EXCEPT ![s] = r]
    BY <1>1, <1>2 DEF Answer
  <2> HIDE DEF rest
  <2>5. r \in SessionState /\ r.authed = sess[s].authed
    BY <1>1, <2>2 DEF SessionState
  <2> HIDE DEF r
  <2> QED
    BY <1>1, <1>2, <2>3, <2>4, <2>5, SessionUpdate DEF Answer, SessionMoves, Types
<1>3. CASE Authenticate(s)
  <2> DEFINE words == <<Event("catalog")>>
             r == [sess[s] EXCEPT !.authed = TRUE, !.answer = words]
  <2>1. sess' = [sess EXCEPT ![s] = r]
    BY <1>1, <1>3 DEF Authenticate
  <2>2. words \in Seq(Events)
    BY EventTypes
  <2> HIDE DEF words
  <2>3. r \in SessionState /\ r.authed
    BY <1>1, <2>2 DEF SessionState
  <2> HIDE DEF r
  <2> QED
    BY <1>1, <1>3, <2>1, <2>3, SessionUpdate, HearsTyped DEF Authenticate, SessionMoves, Types
<1>4. CASE List(s)
  <2> DEFINE words == <<Event("catalog")>>
             r == [sess[s] EXCEPT !.answer = words]
  <2>1. sess' = [sess EXCEPT ![s] = r]
    BY <1>1, <1>4 DEF List
  <2>2. words \in Seq(Events)
    BY EventTypes
  <2> HIDE DEF words
  <2>3. r \in SessionState /\ r.authed = sess[s].authed
    BY <1>1, <2>2 DEF SessionState
  <2> HIDE DEF r
  <2> QED
    BY <1>1, <1>4, <2>1, <2>3, SessionUpdate, HearsTyped DEF List, SessionMoves, Types
<1>5. CASE Start(s)
  <2> DEFINE id == sess[s].last + 1
             r == [sess[s] EXCEPT !.last = id, !.active = id]
  <2>1. sess' = [sess EXCEPT ![s] = r] /\ id \in Transfers
    BY <1>1, <1>5 DEF Start
  <2>2. id \in Nat
    BY <1>1 DEF SessionState
  <2> HIDE DEF id
  <2>3. r \in SessionState /\ r.authed = sess[s].authed
    BY <1>1, <2>1, <2>2 DEF SessionState, Ids
  <2> HIDE DEF r
  <2> QED
    BY <1>1, <1>5, <2>1, <2>3, SessionUpdate, HearsTyped DEF Start, SessionMoves, Types
<1>6. CASE Refuse(s)
  <2> DEFINE words == <<Event("error")>>
             r == [sess[s] EXCEPT !.answer = words]
  <2>1. sess' = [sess EXCEPT ![s] = r]
    BY <1>1, <1>6 DEF Refuse
  <2>2. words \in Seq(Events)
    BY EventTypes
  <2> HIDE DEF words
  <2>3. r \in SessionState /\ r.authed = sess[s].authed
    BY <1>1, <2>2 DEF SessionState
  <2>4. PICK type \in {"refused", "send", "list", "cancel"} : Hears(s, type)
    BY <1>6 DEF Refuse
  <2> HIDE DEF r
  <2> QED
    BY <1>1, <2>1, <2>3, <2>4, SessionUpdate, HearsTyped DEF SessionMoves, Types
<1>7. CASE Stop(s)
  <2> DEFINE halted == sess[s].stopped \/ Aimed(s, Head(inbox[s]).id)
             r == [sess[s] EXCEPT !.stopped = halted]
  <2>1. sess' = [sess EXCEPT ![s] = r]
    BY <1>1, <1>7, Zenon DEF Stop
  <2>2. halted \in BOOLEAN
    OBVIOUS
  <2> HIDE DEF halted
  <2>3. r \in SessionState /\ r.authed = sess[s].authed
    BY <1>1, <2>2 DEF SessionState
  <2> HIDE DEF r
  <2> QED
    BY <1>1, <1>7, <2>1, <2>3, SessionUpdate, HearsTyped DEF Stop, SessionMoves, Types
<1> QED
  BY <1>2, <1>3, <1>4, <1>5, <1>6, <1>7

LEMMA TransferMoves ==
    ASSUME PhoneInv, NEW s \in Sockets, NEW k \in Transfers, TransferActs(s, k)
    PROVE  SessionMoves(s)
<1> DEFINE x == sess[s]
<1>1. Types /\ x \in SessionState /\ sess \in [Sockets -> SessionState]
      /\ x.voice \in [Transfers -> Seq(Events)]
  BY DEF PhoneInv, Types, SessionState
<1>2. CASE Speak(s, k)
  <2> DEFINE voice == [x.voice EXCEPT ![k] = Tail(x.voice[k])]
             r == [x EXCEPT !.voice = voice]
  <2>1. x.voice[k] \in Seq(Events) /\ x.voice[k] # <<>>
    BY <1>1, <1>2 DEF Speak
  <2>2. Tail(x.voice[k]) \in Seq(Events) /\ Head(x.voice[k]) \in Events
    BY <2>1
  <2>3. outbox' \in [Sockets -> Seq(Events)]
    BY <1>1, <1>2, <2>2, WriteTyped DEF Speak
  <2>4. sess' = [sess EXCEPT ![s] = r]
    BY <1>1, <1>2 DEF Speak
  <2>5. voice \in [Transfers -> Seq(Events)]
    BY <1>1, <2>2
  <2> HIDE DEF voice
  <2>6. r \in SessionState /\ r.authed = x.authed
    BY <1>1, <2>5 DEF SessionState
  <2> HIDE DEF r
  <2> QED
    BY <1>1, <1>2, <2>3, <2>4, <2>6, SessionUpdate DEF Speak, SessionMoves, Types
<1>3. ASSUME NEW words \in Seq(Events), NEW r \in SessionState, r.authed = x.authed,
             sess' = [sess EXCEPT ![s] = r], UNCHANGED wire
      PROVE  SessionMoves(s)
  BY <1>1, <1>3, SessionUpdate DEF wire, SessionMoves, Types
<1>4. \A words \in Seq(Events) : [x.voice EXCEPT ![k] = words] \in [Transfers -> Seq(Events)]
  BY <1>1
<1>5. CASE Report(s, k)
  <2> DEFINE words == <<About("progress", k)>>
             voice == [x.voice EXCEPT ![k] = words]
             r == [x EXCEPT !.voice = voice]
  <2>1. sess' = [sess EXCEPT ![s] = r] /\ UNCHANGED wire
    BY <1>1, <1>5 DEF Report
  <2>2. words \in Seq(Events)
    BY EventTypes DEF Ids
  <2>3. voice \in [Transfers -> Seq(Events)]
    BY <1>4, <2>2
  <2> HIDE DEF voice, words
  <2>4. r \in SessionState /\ r.authed = x.authed
    BY <1>1, <2>3 DEF SessionState
  <2> HIDE DEF r
  <2> QED
    BY <1>3, <2>1, <2>2, <2>4
<1>6. CASE Succeed(s, k)
  <2> DEFINE words == <<About("progress", k), About("done", k)>>
             voice == [x.voice EXCEPT ![k] = words]
             r == [x EXCEPT !.outcome = "sent", !.voice = voice]
  <2>1. sess' = [sess EXCEPT ![s] = r] /\ UNCHANGED wire
    BY <1>1, <1>6 DEF Succeed
  <2>2. words \in Seq(Events)
    BY EventTypes DEF Ids
  <2>3. voice \in [Transfers -> Seq(Events)]
    BY <1>4, <2>2
  <2> HIDE DEF voice, words
  <2>4. r \in SessionState /\ r.authed = x.authed
    BY <1>1, <2>3 DEF SessionState
  <2> HIDE DEF r
  <2> QED
    BY <1>3, <2>1, <2>2, <2>4
<1>7. CASE Fail(s, k)
  <2>0. PICK words \in {<<>>, <<About("progress", k)>>} :
            sess' = [sess EXCEPT ![s].outcome = "failed", ![s].voice[k] = words]
    BY <1>7 DEF Fail
  <2> DEFINE voice == [x.voice EXCEPT ![k] = words]
             r == [x EXCEPT !.outcome = "failed", !.voice = voice]
  <2>1. sess' = [sess EXCEPT ![s] = r] /\ UNCHANGED wire
    <3>1. sess' = [sess EXCEPT ![s] = r]
      BY <1>1, <2>0
    <3> QED
      BY <3>1, <1>7 DEF Fail
  <2>2. words \in Seq(Events)
    <3>1. <<>> \in Seq(Events) /\ <<About("progress", k)>> \in Seq(Events)
      BY EventTypes DEF Ids
    <3> QED
      BY <3>1
  <2>3. voice \in [Transfers -> Seq(Events)]
    BY <1>4, <2>2
  <2> HIDE DEF voice
  <2>4. r \in SessionState /\ r.authed = x.authed
    BY <1>1, <2>3 DEF SessionState
  <2> HIDE DEF r
  <2> QED
    BY <1>3, <2>1, <2>2, <2>4
<1>8. CASE GiveBack(s, k)
  <2>0. PICK words \in IF x.outcome = "failed" THEN LastWords(k) ELSE {<<>>} :
            sess' = [sess EXCEPT ![s].active = 0, ![s].stopped = FALSE,
                                 ![s].outcome = "open", ![s].voice[k] = words]
    BY <1>8 DEF GiveBack
  <2> DEFINE voice == [x.voice EXCEPT ![k] = words]
             r == [x EXCEPT !.active = 0, !.stopped = FALSE, !.outcome = "open",
                            !.voice = voice]
  <2>1. sess' = [sess EXCEPT ![s] = r] /\ UNCHANGED wire
    <3>1. sess' = [sess EXCEPT ![s] = r]
      BY <1>1, <2>0
    <3> QED
      BY <3>1, <1>8 DEF GiveBack
  <2>2. words \in Seq(Events)
    <3>1. ASSUME NEW i \in {0, k}
          PROVE  <<About("progress", i), Event("error")>> \in Seq(Events)
      <4>1. i \in Ids
        BY DEF Ids
      <4> QED
        BY <4>1, EventTypes
    <3>2. <<>> \in Seq(Events)
      OBVIOUS
    <3> QED
      BY <3>1, <3>2 DEF LastWords
  <2>3. voice \in [Transfers -> Seq(Events)]
    BY <1>4, <2>2
  <2> HIDE DEF voice
  <2>4. r \in SessionState /\ r.authed = x.authed
    BY <1>1, <2>3 DEF SessionState, Ids
  <2> HIDE DEF r
  <2> QED
    BY <1>3, <2>1, <2>2, <2>4
<1> QED
  BY <1>2, <1>5, <1>6, <1>7, <1>8 DEF TransferActs

\* The steps of a session keep the invariant.
LEMMA BridgeKeeps ==
    ASSUME PhoneInv, NEW s \in Sockets, SessionMoves(s), UNCHANGED <<client, app, taps>>
    PROVE  PhoneInv'
<1>1. UNCHANGED <<link, ready, ws, timer, status, running, activeId, taps>>
  BY DEF SessionMoves, client, app
<1>2. Types'
  <2>1. TypeOK'
    BY <1>1 DEF PhoneInv, Types, TypeOK, SessionMoves, Bound
  <2> QED
    BY <1>1, <2>1 DEF PhoneInv, Types, SessionMoves, Bound
<1>3. ASSUME NEW t \in Sockets PROVE AuthLeads(t)' /\ SilentBefore(t)'
  <2>1. AuthLeads(t) /\ SilentBefore(t)
    BY DEF PhoneInv
  <2>2. CASE t # s
    BY <1>1, <2>1, <2>2 DEF SessionMoves, AuthLeads, SilentBefore
  <2>3. CASE t = s
    BY <1>1, <2>1, <2>3 DEF SessionMoves, AuthLeads, SilentBefore
  <2> QED
    BY <2>2, <2>3
<1> QED
  BY <1>2, <1>3 DEF PhoneInv

-----------------------------------------------------------------------------
(* The steps of the client.                                                *)

LEMMA InitKeeps == Init => PhoneInv
<1> SUFFICES ASSUME Init PROVE PhoneInv
  OBVIOUS
<1>1. 1 \in Sockets
  BY PhoneAssumption
<1>2. Bound.reconnect \in Nat /\ Bound.mishap \in Nat /\ Bound.send \in Nat
      /\ DOMAIN Bound = {"reconnect", "mishap", "send"}
  BY PhoneAssumption, FS_CardinalityType DEF Bound
<1>3. TypeOK
  <2>1. \A what \in DOMAIN taps : taps[what] \in 0..Bound[what]
    BY <1>2 DEF Init
  <2>2. \A s \in Sockets : inbox[s] \in Seq(Command)
    <3>1. <<>> \in Seq(Command)
      OBVIOUS
    <3> QED
      BY <3>1 DEF Init
  <2>3. link \in [Sockets -> {"none", "up", "gone"}]
    BY DEF Init
  <2>4. /\ ready \in [Sockets -> {"none", "connecting", "open", "closing", "closed"}]
        /\ ws = 0 \/ ready[ws] \in {"connecting", "open"}
    BY <1>1 DEF Init
  <2> QED
    BY <2>1, <2>2, <2>3, <2>4, Zenon DEF Init, TypeOK
<1>4. Types
  <2>1. sess \in [Sockets -> SessionState]
    BY EventTypes DEF Init
  <2>2. DOMAIN taps = DOMAIN Bound
    BY DEF Init
  <2>3. inbox \in [Sockets -> Seq(Command)] /\ outbox \in [Sockets -> Seq(Events)]
    <3>1. <<>> \in Seq(Command) /\ <<>> \in Seq(Events)
      OBVIOUS
    <3> QED
      BY <3>1 DEF Init
  <2>4. ws \in Sockets \cup {0}
    BY <1>1 DEF Init
  <2> QED
    BY <1>3, <2>1, <2>2, <2>3, <2>4, Zenon DEF Types
<1>5. ASSUME NEW s \in Sockets PROVE AuthLeads(s) /\ SilentBefore(s)
  BY DEF Init, AuthLeads, SilentBefore
<1> QED
  BY <1>4, <1>5 DEF PhoneInv

\* A tap is counted as far as its bound.
LEMMA CountsTyped ==
    ASSUME Types, NEW what \in {"reconnect", "mishap", "send"}, Counts(what)
    PROVE  /\ \A w \in DOMAIN taps' : taps'[w] \in 0..Bound[w]
           /\ DOMAIN taps' = DOMAIN Bound
<1>1. Bound.reconnect \in Nat /\ Bound.mishap \in Nat /\ Bound.send \in Nat
      /\ DOMAIN Bound = {"reconnect", "mishap", "send"}
  BY PhoneAssumption, FS_CardinalityType DEF Bound
<1>2. taps' = [taps EXCEPT ![what] = taps[what] + 1] /\ taps[what] < Bound[what]
  BY DEF Counts
<1>3. \A w \in DOMAIN taps : taps[w] \in 0..Bound[w]
  BY DEF Types, TypeOK
<1> QED
  BY <1>1, <1>2, <1>3 DEF Types

\* A command goes to the socket in use: to a session that is authenticated, behind
\* what leads there already, or first if it is auth.
LEMMA SendKeeps ==
    ASSUME PhoneInv, NEW command \in Command, Send(command),
           link' \in [Sockets -> {"none", "up", "gone"}],
           ready' \in [Sockets -> {"none", "connecting", "open", "closing", "closed"}],
           ws' = ws, \A s \in Sockets : sess'[s].authed = sess[s].authed,
           \A s \in Sockets : link'[s] # link[s] \/ ready'[s] # ready[s] =>
               inbox[s] = <<>> /\ link[s] = "none" /\ command.type = "auth"
               /\ link'[s] = "up" /\ ready'[s] = "open"
    PROVE  /\ inbox' \in [Sockets -> Seq(Command)]
           /\ \A s \in Sockets : AuthLeads(s)' /\ SilentBefore(s)'
<1>1. inbox \in [Sockets -> Seq(Command)] /\ ws \in Sockets \cup {0}
  BY DEF PhoneInv, Types
<1>2. CASE ~(Queued /\ link'[ws] = "up")
  <2>1. inbox' = inbox
    BY <1>2 DEF Send
  <2>2. ASSUME NEW s \in Sockets PROVE AuthLeads(s)' /\ SilentBefore(s)'
    <3>1. AuthLeads(s) /\ SilentBefore(s)
      BY DEF PhoneInv
    <3>3. AuthLeads(s)'
      <4>1. CASE ws = s /\ ready'[s] = "open"
        <5>1. ws # 0
          BY <4>1, PhoneAssumption
        <5>2. link'[s] # "up"
          BY <1>2, <4>1, <5>1 DEF Queued
        <5> QED
          BY <2>1, <3>1, <5>2 DEF AuthLeads
      <4>2. CASE ~(ws = s /\ ready'[s] = "open")
        BY <2>1, <3>1, <4>2 DEF AuthLeads
      <4> QED
        BY <4>1, <4>2
    <3>4. SilentBefore(s)'
      BY <2>1, <3>1 DEF SilentBefore
    <3> QED
      BY <3>3, <3>4
  <2> QED
    BY <1>1, <2>1, <2>2, Zenon
<1>3. CASE Queued /\ link'[ws] = "up"
  <2>1. ws \in Sockets /\ ready'[ws] = "open"
    BY <1>1, <1>3 DEF Queued
  <2>2. inbox' = [inbox EXCEPT ![ws] = Append(inbox[ws], command)]
    BY <1>3 DEF Send
  <2>3. inbox[ws] \in Seq(Command)
    BY <1>1, <2>1
  <2>4. Append(inbox[ws], command) \in Seq(Command) /\ Append(inbox[ws], command) # <<>>
        /\ Head(Append(inbox[ws], command)) = IF inbox[ws] = <<>> THEN command ELSE Head(inbox[ws])
    <3> DEFINE q == inbox[ws]
    <3>1. Append(q, command) \in Seq(Command) /\ Len(Append(q, command)) = Len(q) + 1
          /\ Append(q, command)[1] = IF Len(q) = 0 THEN command ELSE q[1]
      BY <2>3
    <3>2. Append(q, command) # <<>> /\ (q = <<>> <=> Len(q) = 0)
      <4> HIDE DEF q
      <4>1. q = <<>> <=> Len(q) = 0
        BY <2>3
      <4>2. Len(Append(q, command)) # 0
        BY <2>3, <3>1
      <4> QED
        BY <4>1, <4>2
    <3>3. Head(Append(q, command)) = Append(q, command)[1] /\ (q # <<>> => Head(q) = q[1])
      BY <2>3, <3>1, <3>2
    <3> QED
      BY <3>1, <3>2, <3>3
  <2>5. /\ inbox' \in [Sockets -> Seq(Command)] /\ inbox'[ws] = Append(inbox[ws], command)
        /\ \A s \in Sockets \ {ws} : inbox'[s] = inbox[s]
    BY <1>1, <2>1, <2>2, <2>4
  <2>6. ASSUME NEW s \in Sockets PROVE AuthLeads(s)' /\ SilentBefore(s)'
    <3>1. AuthLeads(s) /\ SilentBefore(s)
      BY DEF PhoneInv
    <3>2. CASE s # ws
      BY <2>5, <3>1, <3>2 DEF AuthLeads, SilentBefore
    <3>3. CASE s = ws
      <4>1. SilentBefore(s)'
        BY <1>3, <3>3 DEF SilentBefore
      <4>2. CASE inbox[s] = <<>> /\ ~sess[s].authed
        <5>1. command.type = "auth"
          BY <1>3, <2>1, <3>1, <3>3, <4>2 DEF AuthLeads
        <5> QED
          BY <2>4, <2>5, <3>3, <4>1, <4>2, <5>1 DEF AuthLeads
      <4>3. CASE inbox[s] # <<>> \/ sess[s].authed
        BY <2>4, <2>5, <3>1, <3>3, <4>1, <4>3 DEF AuthLeads
      <4> QED
        BY <4>2, <4>3
    <3> QED
      BY <3>2, <3>3
  <2> QED
    BY <2>5, <2>6, Zenon
<1> QED
  BY <1>2, <1>3

\* An event that arrives.
LEMMA ArrivesTyped ==
    ASSUME Types, NEW s \in Sockets, NEW type, Arrives(s, type)
    PROVE  /\ outbox' \in [Sockets -> Seq(Events)]
           /\ Head(outbox[s]) \in Events /\ Head(outbox[s]).type = type
           /\ UNCHANGED <<link, sess, ready, ws, timer, status, taps>>
<1>1. outbox[s] \in Seq(Events) /\ outbox[s] # <<>> /\ outbox \in [Sockets -> Seq(Events)]
  BY DEF Types, Arrives
<1>2. Tail(outbox[s]) \in Seq(Events) /\ Head(outbox[s]) \in Events
  BY <1>1
<1>3. outbox' = [outbox EXCEPT ![s] = Tail(outbox[s])]
  BY DEF Arrives
<1>4. outbox' \in [Sockets -> Seq(Events)]
  BY <1>1, <1>2, <1>3
<1> QED
  BY <1>2, <1>4 DEF Arrives, client

\* A step after which the sockets stand as they did.
LEMMA Keeps ==
    ASSUME PhoneInv, UNCHANGED <<link, inbox, sess, ready, ws>>
    PROVE  \A s \in Sockets : AuthLeads(s)' /\ SilentBefore(s)'
<1> SUFFICES ASSUME NEW s \in Sockets PROVE AuthLeads(s)' /\ SilentBefore(s)'
  OBVIOUS
<1>1. AuthLeads(s) /\ SilentBefore(s)
  BY DEF PhoneInv
<1> QED
  BY <1>1 DEF AuthLeads, SilentBefore

LEMMA OnOpenKeeps == ASSUME PhoneInv, NEW s \in Sockets, OnOpen(s) PROVE PhoneInv'
<1>1. Types /\ TypeOK /\ sess[s] \in SessionState
  BY DEF PhoneInv, Types
<1>2. /\ ready[s] = "connecting" /\ link[s] = "none"
      /\ link' = [link EXCEPT ![s] = "up"] /\ ready' = [ready EXCEPT ![s] = "open"]
      /\ Send(Tell("auth")) /\ status' = "online"
      /\ UNCHANGED <<outbox, ws, timer, running, activeId, taps>>
  BY DEF OnOpen, Greeting, app
<1>3. sess' \in [Sockets -> SessionState] /\ \A t \in Sockets : sess'[t].authed = sess[t].authed
  <2> DEFINE words == <<>>
             r == [sess[s] EXCEPT !.answer = words]
  <2>1. sess' = [sess EXCEPT ![s] = r]
    BY <1>1 DEF OnOpen, Types
  <2>2. words \in Seq(Events)
    OBVIOUS
  <2> HIDE DEF words
  <2>3. r \in SessionState /\ r.authed = sess[s].authed
    BY <1>1, <2>2 DEF SessionState
  <2> HIDE DEF r
  <2> QED
    BY <1>1, <2>1, <2>3, SessionUpdate
<1>4. /\ link' \in [Sockets -> {"none", "up", "gone"}]
      /\ ready' \in [Sockets -> {"none", "connecting", "open", "closing", "closed"}]
      /\ ws = 0 \/ ready'[ws] \in {"connecting", "open"}
  BY <1>1, <1>2 DEF TypeOK, Types
<1>5. Tell("auth") \in Command /\ Tell("auth").type = "auth"
  BY DEF Tell, Command
<1>6. inbox[s] = <<>>
  BY <1>2 DEF PhoneInv, SilentBefore
<1>7. \A t \in Sockets : link'[t] # link[t] \/ ready'[t] # ready[t] =>
          inbox[t] = <<>> /\ link[t] = "none" /\ link'[t] = "up" /\ ready'[t] = "open"
  BY <1>1, <1>2, <1>6 DEF TypeOK
<1>8. inbox' \in [Sockets -> Seq(Command)] /\ \A t \in Sockets : AuthLeads(t)' /\ SilentBefore(t)'
  BY <1>2, <1>3, <1>4, <1>5, <1>7, SendKeeps
<1>9. Types'
  BY <1>1, <1>2, <1>3, <1>4, <1>8 DEF Types, TypeOK, Bound
<1> QED
  BY <1>8, <1>9 DEF PhoneInv

LEMMA EventKeeps ==
    ASSUME PhoneInv, NEW s \in Sockets, OnProgress(s) \/ OnError(s) \/ OnCatalog(s)
    PROVE  PhoneInv'
<1>1. Types /\ TypeOK
  BY DEF PhoneInv, Types
<1>2. PICK type : Arrives(s, type)
  BY DEF OnProgress, OnError, OnCatalog
<1>3. outbox' \in [Sockets -> Seq(Events)] /\ Head(outbox[s]) \in Events
      /\ UNCHANGED <<link, sess, ready, ws, timer, status, taps>>
  BY <1>1, <1>2, ArrivesTyped
<1>4. UNCHANGED inbox
  BY DEF OnProgress, OnError, OnCatalog
<1>5. running' \in BOOLEAN /\ activeId' \in Transfers \cup {0}
  <2>1. CASE OnProgress(s)
    <3>1. Head(outbox[s]).type = "progress"
      BY <2>1 DEF OnProgress, Arrives
    <3>2. Head(outbox[s]).id \in Ids
      BY <1>3, <3>1 DEF Events
    <3> QED
      BY <1>1, <2>1, <3>2 DEF OnProgress, TypeOK, Ids
  <2>2. CASE OnError(s) \/ OnCatalog(s)
    BY <1>1, <2>2 DEF OnError, OnCatalog, TypeOK, app
  <2> QED
    BY <2>1, <2>2
<1>6. Types'
  BY <1>1, <1>3, <1>4, <1>5 DEF Types, TypeOK, Bound
<1>7. \A t \in Sockets : AuthLeads(t)' /\ SilentBefore(t)'
  BY <1>3, <1>4, Keeps
<1> QED
  BY <1>6, <1>7 DEF PhoneInv

LEMMA OnDoneKeeps == ASSUME PhoneInv, NEW s \in Sockets, OnDone(s) PROVE PhoneInv'
<1>1. Types /\ TypeOK
  BY DEF PhoneInv, Types
<1>2. outbox' \in [Sockets -> Seq(Events)]
      /\ UNCHANGED <<link, sess, ready, ws, timer, status, taps>>
  BY <1>1, ArrivesTyped DEF OnDone
<1>3. running' \in BOOLEAN /\ activeId' \in Transfers \cup {0}
  BY DEF OnDone
<1>4. Tell("list") \in Command /\ Send(Tell("list"))
  BY DEF Tell, Command, OnDone
<1>5. inbox' \in [Sockets -> Seq(Command)] /\ \A t \in Sockets : AuthLeads(t)' /\ SilentBefore(t)'
  BY <1>1, <1>2, <1>4, SendKeeps DEF TypeOK
<1>6. Types'
  BY <1>1, <1>2, <1>3, <1>5 DEF Types, TypeOK, Bound
<1> QED
  BY <1>5, <1>6 DEF PhoneInv

LEMMA TapKeeps == ASSUME PhoneInv, TapSend \/ TapCancel PROVE PhoneInv'
<1>1. Types /\ TypeOK
  BY DEF PhoneInv, Types
<1>2. /\ UNCHANGED <<link, outbox, sess, ready, ws, timer, status, activeId>>
      /\ running' \in BOOLEAN
  BY DEF TapSend, TapCancel, client
<1>3. PICK command \in Command : Send(command)
  <2>1. Tell("send") \in Command
    BY DEF Tell, Command
  <2>2. CancelOf(activeId) \in Command
    BY <1>1 DEF CancelOf, Command, TypeOK
  <2> QED
    BY <2>1, <2>2 DEF TapSend, TapCancel
<1>4. PICK what \in {"reconnect", "mishap", "send"} : Counts(what)
  BY DEF TapSend, TapCancel
<1>5. inbox' \in [Sockets -> Seq(Command)] /\ \A s \in Sockets : AuthLeads(s)' /\ SilentBefore(s)'
  BY <1>1, <1>2, <1>3, SendKeeps DEF TypeOK
<1>6. /\ \A w \in DOMAIN taps' : taps'[w] \in 0..Bound[w]
      /\ DOMAIN taps' = DOMAIN Bound
  BY <1>1, <1>4, CountsTyped
<1>7. Types'
  BY <1>1, <1>2, <1>5, <1>6 DEF Types, TypeOK, Bound
<1> QED
  BY <1>5, <1>7 DEF PhoneInv

LEMMA OpenTyped ==
    ASSUME Types, NEW closing, OpenSocket(closing)
    PROVE  /\ ready' \in [Sockets -> {"none", "connecting", "open", "closing", "closed"}]
           /\ ws' \in Sockets /\ ready'[ws'] = "connecting"
           /\ timer' \in BOOLEAN /\ status' \in {"offline", "connecting", "online"}
           /\ running' \in BOOLEAN
<1>1. ready \in [Sockets -> {"none", "connecting", "open", "closing", "closed"}]
  BY DEF Types, TypeOK
<1> DEFINE new == Made + 1
<1>2. new \in Sockets /\ ws' = new
      /\ ready' = [s \in Sockets |-> IF s = new THEN "connecting"
                                     ELSE IF s \in closing THEN "closing" ELSE ready[s]]
      /\ timer' \in BOOLEAN /\ status' = "connecting" /\ running' \in BOOLEAN
  BY DEF OpenSocket, TimerAfterOpen, SetStatus
<1> HIDE DEF new
<1> QED
  BY <1>1, <1>2

\* A session that is dropped is silent.
LEMMA DropTyped ==
    ASSUME Types, NEW s \in Sockets, Drop(s)
    PROVE  /\ link' \in [Sockets -> {"none", "up", "gone"}] /\ link'[s] = "gone"
           /\ inbox' \in [Sockets -> Seq(Command)] /\ inbox'[s] = <<>>
           /\ outbox' \in [Sockets -> Seq(Events)]
           /\ sess' \in [Sockets -> SessionState]
           /\ \A t \in Sockets \ {s} :
                 link'[t] = link[t] /\ inbox'[t] = inbox[t] /\ sess'[t] = sess[t]
<1>1. <<>> \in Seq(Command) /\ <<>> \in Seq(Events)
  OBVIOUS
<1>2. sess' \in [Sockets -> SessionState] /\ \A t \in Sockets \ {s} : sess'[t] = sess[t]
  BY EventTypes, SessionUpdate DEF Drop
<1>3. inbox' \in [Sockets -> Seq(Command)] /\ inbox'[s] = <<>>
      /\ \A t \in Sockets \ {s} : inbox'[t] = inbox[t]
  BY <1>1 DEF Drop, Types
<1>4. outbox' \in [Sockets -> Seq(Events)]
  BY <1>1 DEF Drop, Types
<1>5. link' \in [Sockets -> {"none", "up", "gone"}] /\ link'[s] = "gone"
      /\ \A t \in Sockets \ {s} : link'[t] = link[t]
  BY DEF Drop, Types, TypeOK
<1> QED
  BY <1>2, <1>3, <1>4, <1>5

LEMMA RetryKeeps == ASSUME PhoneInv, Retry PROVE PhoneInv'
<1>1. Types /\ TypeOK
  BY DEF PhoneInv, Types
<1>2. /\ OpenSocket({})
      /\ UNCHANGED <<link, inbox, outbox, sess, activeId, taps>>
  BY DEF Retry, sessionVars, wire
<1>3. /\ ready' \in [Sockets -> {"none", "connecting", "open", "closing", "closed"}]
      /\ ws' \in Sockets /\ ready'[ws'] = "connecting"
      /\ timer' \in BOOLEAN /\ status' \in {"offline", "connecting", "online"}
      /\ running' \in BOOLEAN
  BY <1>1, <1>2, OpenTyped
<1>4. Types'
  BY <1>1, <1>2, <1>3 DEF Types, TypeOK, Bound
<1>5. ASSUME NEW s \in Sockets PROVE AuthLeads(s)' /\ SilentBefore(s)'
  <2>1. AuthLeads(s) /\ SilentBefore(s)
    BY DEF PhoneInv
  <2>2. ~(ws' = s /\ ready'[s] = "open")
    BY <1>3
  <2> QED
    BY <1>2, <2>1, <2>2 DEF AuthLeads, SilentBefore
<1> QED
  BY <1>4, <1>5 DEF PhoneInv

LEMMA ReconnectKeeps == ASSUME PhoneInv, Reconnect PROVE PhoneInv'
<1>1. Types /\ TypeOK /\ ws \in Sockets \cup {0}
  BY DEF PhoneInv, Types
<1>2. /\ OpenSocket({ws} \ {0}) /\ Counts("reconnect") /\ UNCHANGED activeId
      /\ ws = 0 => UNCHANGED <<link, inbox, outbox, sess>>
      /\ ws # 0 => Drop(ws)
  <2>1. /\ ws = 0 => UNCHANGED sessionVars
        /\ ws # 0 => Drop(ws)
    BY DEF Reconnect
  <2> QED
    BY <2>1 DEF Reconnect, sessionVars, wire
<1>3. /\ ready' \in [Sockets -> {"none", "connecting", "open", "closing", "closed"}]
      /\ ws' \in Sockets /\ ready'[ws'] = "connecting"
      /\ timer' \in BOOLEAN /\ status' \in {"offline", "connecting", "online"}
      /\ running' \in BOOLEAN
  BY <1>1, <1>2, OpenTyped
<1>4. /\ \A w \in DOMAIN taps' : taps'[w] \in 0..Bound[w]
      /\ DOMAIN taps' = DOMAIN Bound
  BY <1>1, <1>2, CountsTyped
<1>5. /\ link' \in [Sockets -> {"none", "up", "gone"}]
      /\ inbox' \in [Sockets -> Seq(Command)] /\ outbox' \in [Sockets -> Seq(Events)]
      /\ sess' \in [Sockets -> SessionState]
      /\ \A s \in Sockets : \/ link'[s] = "gone" /\ inbox'[s] = <<>>
                            \/ link'[s] = link[s] /\ inbox'[s] = inbox[s] /\ sess'[s] = sess[s]
  <2>1. CASE ws = 0
    BY <1>1, <1>2, <2>1 DEF Types, TypeOK
  <2>2. CASE ws # 0
    <3>1. ws \in Sockets /\ Drop(ws)
      BY <1>1, <1>2, <2>2
    <3> QED
      BY <1>1, <3>1, DropTyped
  <2> QED
    BY <2>1, <2>2
<1>6. Types'
  BY <1>1, <1>2, <1>3, <1>4, <1>5 DEF Types, TypeOK, Bound
<1>7. ASSUME NEW s \in Sockets PROVE AuthLeads(s)' /\ SilentBefore(s)'
  <2>1. AuthLeads(s) /\ SilentBefore(s)
    BY DEF PhoneInv
  <2>2. ~(ws' = s /\ ready'[s] = "open")
    BY <1>3
  <2> QED
    BY <1>5, <2>1, <2>2 DEF AuthLeads, SilentBefore
<1> QED
  BY <1>6, <1>7 DEF PhoneInv

LEMMA FaultKeeps == ASSUME PhoneInv, NEW s \in Sockets, Fault(s) PROVE PhoneInv'
<1>1. Types /\ TypeOK
  BY DEF PhoneInv, Types
<1>2. Drop(s) /\ Counts("mishap")
      /\ UNCHANGED <<ready, ws, timer, status, running, activeId>>
  BY DEF Fault, client, app
<1>3. /\ \A w \in DOMAIN taps' : taps'[w] \in 0..Bound[w]
      /\ DOMAIN taps' = DOMAIN Bound
  BY <1>1, <1>2, CountsTyped
<1>4. Types'
  BY <1>1, <1>2, <1>3, DropTyped DEF Types, TypeOK, Bound
<1>5. ASSUME NEW t \in Sockets PROVE AuthLeads(t)' /\ SilentBefore(t)'
  <2>1. AuthLeads(t) /\ SilentBefore(t)
    BY DEF PhoneInv
  <2>2. \/ link'[t] = "gone" /\ inbox'[t] = <<>>
        \/ link'[t] = link[t] /\ inbox'[t] = inbox[t] /\ sess'[t] = sess[t]
    BY <1>1, <1>2, DropTyped
  <2> QED
    BY <1>2, <2>1, <2>2 DEF AuthLeads, SilentBefore
<1> QED
  BY <1>4, <1>5 DEF PhoneInv

LEMMA OnCloseKeeps == ASSUME PhoneInv, NEW s \in Sockets, OnClose(s) PROVE PhoneInv'
<1>1. Types /\ TypeOK
  BY DEF PhoneInv, Types
<1>2. /\ UNCHANGED <<link, inbox, outbox, sess, activeId, taps>>
      /\ ready' = [ready EXCEPT ![s] = "closed"] /\ ws' = 0
      /\ timer' \in BOOLEAN /\ status' = "offline" /\ running' \in BOOLEAN
  BY <1>1 DEF OnClose, Kept, Retries, SetStatus, sessionVars, wire
<1>3. Types'
  BY <1>1, <1>2 DEF Types, TypeOK, Bound
<1>4. ASSUME NEW t \in Sockets PROVE AuthLeads(t)' /\ SilentBefore(t)'
  <2>1. AuthLeads(t) /\ SilentBefore(t)
    BY DEF PhoneInv
  <2>2. ws' # t
    BY <1>2, PhoneAssumption
  <2> QED
    BY <1>2, <2>1, <2>2 DEF AuthLeads, SilentBefore
<1> QED
  BY <1>3, <1>4 DEF PhoneInv

-----------------------------------------------------------------------------
(* The sockets that are left behind.                                       *)

\* The sockets in being that the client does not hold, with those it has closed.
Loose == {s \in Sockets : ready[s] \in {"connecting", "open", "closing"}} \ {ws}

\* There is one for each "Save and reconnect" at most: a close event that comes late
\* makes the client let go of one as another is over.  Retries add none.
LooseInv ==
    /\ timer => ws = 0
    /\ Cardinality(Loose) <= taps.reconnect

LEMMA LooseFinite == IsFiniteSet(Loose) /\ Cardinality(Loose) \in Nat
<1>1. IsFiniteSet(Sockets)
  BY PhoneAssumption, FS_Interval
<1>2. Loose \subseteq Sockets
  BY DEF Loose
<1> QED
  BY <1>1, <1>2, FS_Subset, FS_CardinalityType

LEMMA TapsTyped == Types => taps.reconnect \in Nat
<1>1. Bound.reconnect \in Nat /\ "reconnect" \in DOMAIN Bound
  BY PhoneAssumption DEF Bound
<1> QED
  BY <1>1 DEF Types, TypeOK

\* Fewer are loose.
LEMMA FewerKeep ==
    ASSUME Types, LooseInv, Loose' \subseteq Loose, taps'.reconnect = taps.reconnect
    PROVE  Cardinality(Loose)' <= taps'.reconnect
<1>1. Cardinality(Loose') <= Cardinality(Loose) /\ Cardinality(Loose') \in Nat
  BY LooseFinite, FS_Subset, FS_CardinalityType
<1> QED
  BY <1>1, LooseFinite, TapsTyped DEF LooseInv

LEMMA OnCloseLoose ==
    ASSUME PhoneInv, LooseInv, NEW s \in Sockets, OnClose(s) PROVE LooseInv'
<1>1. /\ ready' = [ready EXCEPT ![s] = "closed"] /\ ws' = 0 /\ taps' = taps
      /\ ready[s] \in {"connecting", "open", "closing"}
      /\ ready \in [Sockets -> {"none", "connecting", "open", "closing", "closed"}]
  BY DEF OnClose, Kept, PhoneInv, Types, TypeOK
<1>2. CASE s = ws
  <2>1. Loose' \subseteq Loose
    BY <1>1, <1>2 DEF Loose
  <2> QED
    BY <1>1, <2>1, FewerKeep DEF LooseInv, PhoneInv
<1>3. CASE s # ws
  <2>1. s \in Loose /\ Loose' \subseteq (Loose \ {s}) \cup {ws}
    BY <1>1, <1>3 DEF Loose
  <2> DEFINE rest == Loose \ {s}
  <2>2. IsFiniteSet(rest) /\ Cardinality(rest) = Cardinality(Loose) - 1
    BY <2>1, LooseFinite, FS_RemoveElement
  <2>3. IsFiniteSet(rest \cup {ws}) /\ Cardinality(rest \cup {ws}) <= Cardinality(rest) + 1
    BY <2>2, LooseFinite, FS_AddElement
  <2>4. Cardinality(Loose') <= Cardinality(rest \cup {ws}) /\ Cardinality(Loose') \in Nat
        /\ Cardinality(rest \cup {ws}) \in Nat
    BY <2>1, <2>3, FS_Subset, FS_CardinalityType
  <2> HIDE DEF rest
  <2>5. Cardinality(Loose') <= taps.reconnect
    BY <2>2, <2>3, <2>4, LooseFinite, TapsTyped DEF LooseInv, PhoneInv
  <2> QED
    BY <1>1, <2>5 DEF LooseInv
<1> QED
  BY <1>2, <1>3

LEMMA RetryLoose == ASSUME PhoneInv, LooseInv, Retry PROVE LooseInv'
<1>1. ws = 0 /\ taps' = taps /\ OpenSocket({})
  BY DEF Retry, LooseInv
<1>2. ~timer'
  BY <1>1 DEF OpenSocket, TimerAfterOpen
<1>3. Loose' \subseteq Loose
  <2> DEFINE new == Made + 1
  <2>1. ws' = new /\ ready' = [s \in Sockets |-> IF s = new THEN "connecting" ELSE ready[s]]
    BY <1>1 DEF OpenSocket
  <2> HIDE DEF new
  <2> QED
    BY <1>1, <2>1, PhoneAssumption DEF Loose
<1> QED
  BY <1>1, <1>2, <1>3, FewerKeep DEF LooseInv, PhoneInv

LEMMA ReconnectLoose == ASSUME PhoneInv, LooseInv, Reconnect PROVE LooseInv'
<1>1. OpenSocket({ws} \ {0}) /\ Counts("reconnect")
  BY DEF Reconnect
<1>2. ~timer'
  BY <1>1 DEF OpenSocket, TimerAfterOpen
<1>3. Loose' \subseteq Loose \cup {ws}
  <2> DEFINE new == Made + 1
  <2>1. ws' = new /\ ready' = [s \in Sockets |-> IF s = new THEN "connecting"
                     ELSE IF s \in {ws} \ {0} THEN "closing" ELSE ready[s]]
    BY <1>1 DEF OpenSocket
  <2> HIDE DEF new
  <2> QED
    BY <2>1 DEF Loose
<1>4. taps'.reconnect = taps.reconnect + 1
  BY <1>1, PhoneAssumption DEF Counts, PhoneInv, Types, Bound
<1>5. IsFiniteSet(Loose \cup {ws}) /\ Cardinality(Loose \cup {ws}) <= Cardinality(Loose) + 1
  BY LooseFinite, FS_AddElement
<1>6. Cardinality(Loose') <= Cardinality(Loose \cup {ws}) /\ Cardinality(Loose') \in Nat
      /\ Cardinality(Loose \cup {ws}) \in Nat
  BY <1>3, <1>5, FS_Subset, FS_CardinalityType
<1>7. Cardinality(Loose') <= taps'.reconnect
  BY <1>4, <1>5, <1>6, LooseFinite, TapsTyped DEF LooseInv, PhoneInv
<1> QED
  BY <1>2, <1>7 DEF LooseInv

\* What neither opens nor closes a socket.
LEMMA OthersLoose ==
    ASSUME PhoneInv, LooseInv, ws' = ws, timer' = timer, taps'.reconnect = taps.reconnect,
           \A s \in Sockets :
               ready'[s] = ready[s] \/ (ready[s] = "connecting" /\ ready'[s] = "open")
    PROVE  LooseInv'
<1>1. Loose' \subseteq Loose
  BY DEF Loose
<1> QED
  BY <1>1, FewerKeep DEF LooseInv, PhoneInv

-----------------------------------------------------------------------------
(* The theorems.                                                           *)

LEMMA NextKeeps == PhoneInv /\ [Next]_vars => PhoneInv'
<1> SUFFICES ASSUME PhoneInv, [Next]_vars PROVE PhoneInv'
  OBVIOUS
<1>1. ASSUME NEW s \in Sockets, Client(s) PROVE PhoneInv'
  BY <1>1, OnOpenKeeps, EventKeeps, OnDoneKeeps, OnCloseKeeps DEF Client
<1>2. ASSUME NEW s \in Sockets, Bridge(s) PROVE PhoneInv'
  <2>1. SessionMoves(s)
    BY <1>2, LoopMoves, TransferMoves DEF Bridge, TransferActs
  <2> QED
    BY <1>2, <2>1, BridgeKeeps DEF Bridge
<1>3. CASE TransferEnds
  <2>1. PICK s \in Sockets, k \in Transfers : Succeed(s, k) \/ Fail(s, k)
    BY <1>3 DEF TransferEnds
  <2>2. SessionMoves(s)
    BY <2>1, TransferMoves DEF TransferActs
  <2> QED
    BY <1>3, <2>2, BridgeKeeps DEF TransferEnds
<1>4. CASE UNCHANGED vars
  <2>1. UNCHANGED <<link, inbox, outbox, sess, ready, ws, timer, status, running, activeId, taps>>
    BY <1>4 DEF vars, sessionVars, wire, client, app
  <2>2. Types'
    BY <2>1 DEF PhoneInv, Types, TypeOK, Bound
  <2> QED
    BY <2>1, <2>2, Keeps DEF PhoneInv
<1> QED
  BY <1>1, <1>2, <1>3, <1>4, RetryKeeps, TapKeeps, ReconnectKeeps, FaultKeeps
     DEF Next, System, User

LEMMA InvAlways == Spec => []PhoneInv
BY InitKeeps, NextKeeps, PTL DEF Spec

\* Whatever the app holds, sends, loses and receives is of its type.
THEOREM TypeCorrect == Spec => []TypeOK
<1>1. PhoneInv => TypeOK
  BY DEF PhoneInv, Types
<1> QED
  BY <1>1, InvAlways, PTL

\* No list, no send and no cancel of the app is the first thing a session hears:
\* auth leads on every socket, for any number of losses, retries and taps.
THEOREM AuthFirstAlways == Spec => []AuthFirst
<1>1. PhoneInv => AuthFirst
  BY DEF PhoneInv, AuthLeads, AuthFirst
<1> QED
  BY <1>1, InvAlways, PTL

LEMMA LooseKeeps == PhoneInv /\ LooseInv /\ [Next]_vars => LooseInv'
<1> SUFFICES ASSUME PhoneInv, LooseInv, [Next]_vars PROVE LooseInv'
  OBVIOUS
<1>0. ready \in [Sockets -> {"none", "connecting", "open", "closing", "closed"}]
  BY DEF PhoneInv, Types, TypeOK
<1>1. ASSUME UNCHANGED client, taps'.reconnect = taps.reconnect PROVE LooseInv'
  <2>1. ready' = ready /\ ws' = ws /\ timer' = timer
    BY <1>1 DEF client
  <2>2. \A s \in Sockets : ready'[s] = ready[s]
    BY <2>1
  <2> QED
    BY <1>1, <2>1, <2>2, OthersLoose
<1>2. ASSUME NEW s \in Sockets, OnOpen(s) PROVE LooseInv'
  <2>1. ready' = [ready EXCEPT ![s] = "open"] /\ ready[s] = "connecting"
        /\ ws' = ws /\ timer' = timer /\ taps' = taps
    BY <1>2 DEF OnOpen
  <2>2. \A t \in Sockets : ready'[t] = ready[t] \/ (ready[t] = "connecting" /\ ready'[t] = "open")
    BY <1>0, <2>1
  <2> QED
    BY <2>1, <2>2, OthersLoose
<1>3. ASSUME NEW s \in Sockets, OnProgress(s) \/ OnDone(s) \/ OnError(s) \/ OnCatalog(s)
      PROVE  LooseInv'
  BY <1>1, <1>3 DEF OnProgress, OnDone, OnError, OnCatalog, Arrives
<1>4. ASSUME NEW what \in {"mishap", "send"}, Counts(what), UNCHANGED client PROVE LooseInv'
  <2>1. "reconnect" \in DOMAIN taps
    BY DEF PhoneInv, Types, Bound
  <2>2. taps'.reconnect = taps.reconnect
    BY <1>4, <2>1 DEF Counts
  <2> QED
    BY <1>1, <1>4, <2>2
<1>5. CASE TapSend \/ TapCancel
  BY <1>4, <1>5 DEF TapSend, TapCancel
<1>6. ASSUME NEW s \in Sockets, Fault(s) PROVE LooseInv'
  BY <1>4, <1>6 DEF Fault
<1>7. ASSUME NEW s \in Sockets, Bridge(s) PROVE LooseInv'
  BY <1>1, <1>7 DEF Bridge
<1>8. CASE TransferEnds \/ UNCHANGED vars
  BY <1>1, <1>8 DEF TransferEnds, vars
<1> QED
  BY <1>2, <1>3, <1>5, <1>6, <1>7, <1>8, OnCloseLoose, RetryLoose, ReconnectLoose
     DEF Next, System, User, Client

LEMMA LooseInit == Init => LooseInv
<1> SUFFICES ASSUME Init PROVE LooseInv
  OBVIOUS
<1>1. Loose = {} /\ ~timer
  BY DEF Init, Loose
<1>2. taps.reconnect = 0
  BY DEF Init, Bound
<1> QED
  BY <1>1, <1>2, FS_EmptySet DEF LooseInv

\* The client leaves no more sockets behind, open, than there were taps on "Save and
\* reconnect": losses and retries alone, however many, leave none.
THEOREM OrphansAreFromReconnectsAlways == Spec => []OrphansAreFromReconnects
<1>1. PhoneInv /\ LooseInv => OrphansAreFromReconnects
  <2> SUFFICES ASSUME PhoneInv, LooseInv PROVE OrphansAreFromReconnects
    OBVIOUS
  <2>1. Orphans \subseteq Loose
    BY DEF Orphans, Loose
  <2>2. Cardinality(Orphans) <= Cardinality(Loose) /\ Cardinality(Orphans) \in Nat
    BY <2>1, LooseFinite, FS_Subset, FS_CardinalityType
  <2> QED
    BY <2>2, LooseFinite, TapsTyped DEF OrphansAreFromReconnects, LooseInv, PhoneInv
<1> QED
  BY <1>1, LooseInit, LooseKeeps, InvAlways, PTL DEF Spec

=============================================================================
