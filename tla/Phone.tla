------------------------------- MODULE Phone --------------------------------
(***************************************************************************)
(* The app (index.tsx) with its reconnecting client (bridge.ts), composed    *)
(* with the sessions its sockets lead to.  The app is single-threaded: a     *)
(* callback of a socket, a timer or a button runs to its end.               *)
(*                                                                         *)
(* The bridge was started with a secret, which the user has typed, as well   *)
(* as a peer; files are selected.  closedByUs is TRUE only between close and *)
(* connect, in one callback, so no other callback sees it.                  *)
(*                                                                         *)
(* A session is followed as long as its socket is open at the phone: what it *)
(* does for a phone that has left is the matter of BridgeSession.  Pings,    *)
(* which the socket itself answers, never reach the app.                    *)
(***************************************************************************)
EXTENDS Session, FiniteSets

CONSTANTS
    MaxReconnects,  \* bound: taps on "Save and reconnect"
    MaxMishaps,     \* bound: taps on "Cancel", connections that break or are not made
    Room            \* bound: events under way while a transfer reports

ASSUME PhoneAssumption ==
    /\ MaxReconnects \in Nat /\ MaxMishaps \in Nat /\ Room \in Nat \ {0}
    /\ Sockets = 1..(1 + 2 * MaxReconnects + MaxMishaps)    \* as many as are made
    /\ IsFiniteSet(Transfers) /\ Transfers = 1..Cardinality(Transfers)

VARIABLES
    ready,      \* ready[s]: readyState of the socket, "none" before it is made
    ws,         \* client.ws, 0 for null
    timer,      \* a retry is scheduled
    status,     \* "offline", "connecting", "online"
    running,
    activeId,
    taps        \* how often each bounded thing has happened

client == <<ready, ws, timer, status>>
app == <<running, activeId>>
vars == <<sessionVars, client, app, taps>>

\* The bounds: taps on Send are bounded by the ids there are.
Bound ==
    [reconnect |-> MaxReconnects, mishap |-> MaxMishaps, send |-> Cardinality(Transfers)]

Counts(what) ==
    /\ taps[what] < Bound[what]
    /\ taps' = [taps EXCEPT ![what] = @ + 1]

TypeOK ==
    /\ link \in [Sockets -> {"none", "up", "gone"}]
    /\ \A s \in Sockets : inbox[s] \in Seq(Command)
    /\ ready \in [Sockets -> {"none", "connecting", "open", "closing", "closed"}]
    /\ ws = 0 \/ ready[ws] \in {"connecting", "open"}
    /\ timer \in BOOLEAN
    /\ status \in {"offline", "connecting", "online"}
    /\ running \in BOOLEAN
    /\ activeId \in Transfers \cup {0}
    /\ \A what \in DOMAIN taps : taps[what] \in 0..Bound[what]

-----------------------------------------------------------------------------
(* Parts of the handlers.                                                  *)

\* setStatus, and onStatus of the app: a link that is not online shows no transfer.
SetStatus(s) ==
    /\ status' = s
    /\ running' = (running /\ s = "online")

Made == Cardinality({s \in Sockets : ready[s] # "none"})

\* Mutant: the timer goes off again and again.
TimerAfterOpen_Repeats == timer

\* clearRetry, and a timeout goes off once.
TimerAfterOpen == FALSE

\* openSocket, with the socket that is closed before it, if any.
OpenSocket(closing) ==
    /\ Made + 1 \in Sockets
    /\ ready' = [s \in Sockets |-> IF s = Made + 1 THEN "connecting"
                                   ELSE IF s \in closing THEN "closing" ELSE ready[s]]
    /\ ws' = Made + 1
    /\ timer' = TimerAfterOpen
    /\ SetStatus("connecting")

\* send returns TRUE: the client holds a socket, and that is open.
Queued == ws # 0 /\ ready'[ws] = "open"

\* send: what is written to a connection that is broken is lost.
Send(command) ==
    inbox' = IF Queued /\ link'[ws] = "up"
             THEN [inbox EXCEPT ![ws] = Append(@, command)] ELSE inbox

Tell(type) == [type |-> type]
CancelOf(id) == [type |-> "cancel", id |-> id]

\* The constructor: a bridge that has been set up is connected to at once.
Init ==
    /\ link = [s \in Sockets |-> "none"]
    /\ inbox = [s \in Sockets |-> <<>>]
    /\ outbox = [s \in Sockets |-> <<>>]
    /\ sess = [s \in Sockets |-> Fresh(FALSE)]
    /\ ready = [s \in Sockets |-> IF s = 1 THEN "connecting" ELSE "none"]
    /\ ws = 1 /\ timer = FALSE /\ status = "connecting"
    /\ running = FALSE /\ activeId = 0
    /\ taps = [what \in DOMAIN Bound |-> 0]

-----------------------------------------------------------------------------
(* The callbacks of a socket.                                              *)

\* Mutant: auth is sent on the first connect.
Greeting_Once(s) == IF s = 1 THEN "auth" ELSE "list"

\* What is said when a socket opens.
Greeting(s) == "auth"

\* The bridge has accepted the connection, with a new session.  Its hello, which
\* comes first and changes nothing that is modelled, is left out.
OnOpen(s) ==
    /\ ready[s] = "connecting" /\ link[s] = "none"
    /\ link' = [link EXCEPT ![s] = "up"]
    /\ sess' = [sess EXCEPT ![s].answer = <<>>]
    /\ ready' = [ready EXCEPT ![s] = "open"]
    /\ status' = "online"
    /\ Send(Tell(Greeting(s)))
    /\ UNCHANGED <<outbox, ws, timer, app, taps>>

\* onmessage: an event arrives at an open socket, be it the one in use or not.
Arrives(s, type) ==
    /\ ready[s] = "open"
    /\ outbox[s] # <<>> /\ Head(outbox[s]).type = type
    /\ outbox' = [outbox EXCEPT ![s] = Tail(@)]
    /\ UNCHANGED <<link, sess, client, taps>>

OnProgress(s) ==
    /\ Arrives(s, "progress")
    /\ running' = TRUE
    /\ activeId' = LET id == Head(outbox[s]).id IN IF id # 0 THEN id ELSE activeId
    /\ UNCHANGED inbox

OnDone(s) ==
    /\ Arrives(s, "done")
    /\ running' = FALSE
    /\ activeId' = 0
    /\ Send(Tell("list"))

OnError(s) ==
    /\ Arrives(s, "error")
    /\ running' = FALSE
    /\ UNCHANGED <<activeId, inbox>>

\* The list of the files.
OnCatalog(s) ==
    /\ Arrives(s, "catalog")
    /\ UNCHANGED <<app, inbox>>

\* The connection is broken or was not made, or was closed from here: that close
\* event comes when it comes.
Over(s) == link[s] = "gone"

\* Mutant: a connection that was lost is not made again.
Retries_Never == FALSE

\* scheduleRetry, unless closedByUs.
Retries == TRUE

\* Mutant: the socket is kept.
Kept_Always == ws

\* What the client holds then: nothing, whichever socket it was that closed.
Kept == 0

\* onerror and onclose: of any socket, also one that is no longer in use.
OnClose(s) ==
    /\ ready[s] \in {"connecting", "open", "closing"} /\ Over(s)
    /\ ready' = [ready EXCEPT ![s] = "closed"]
    /\ ws' = Kept
    /\ SetStatus("offline")
    /\ timer' = (timer \/ Retries)
    /\ UNCHANGED <<sessionVars, activeId, taps>>

Retry ==
    /\ timer
    /\ OpenSocket({})
    /\ UNCHANGED <<sessionVars, activeId, taps>>

-----------------------------------------------------------------------------
(* The buttons.  One of Send and Cancel is shown, as running says.         *)

TapSend ==
    /\ ~running
    /\ ws # 0 /\ ready[ws] = "open"     \* else the app says "Bridge is offline."
    /\ Counts("send")
    /\ running' = TRUE
    /\ UNCHANGED <<link, outbox, sess, client, activeId>>
    /\ Send(Tell("send"))

TapCancel ==
    /\ running
    /\ Counts("mishap")
    /\ running' = FALSE
    /\ UNCHANGED <<link, outbox, sess, client, activeId>>
    /\ Send(CancelOf(activeId))

\* The connection of s is no longer followed.
Drop(s) ==
    /\ link' = [link EXCEPT ![s] = "gone"]
    /\ inbox' = [inbox EXCEPT ![s] = <<>>]
    /\ outbox' = [outbox EXCEPT ![s] = <<>>]
    /\ sess' = [sess EXCEPT ![s] = Fresh(FALSE)]

\* reconnect: close, and connect at once.  A socket that is closing has no more
\* message events.
Reconnect ==
    /\ Counts("reconnect")
    /\ OpenSocket({ws} \ {0})
    /\ IF ws = 0 THEN UNCHANGED sessionVars ELSE Drop(ws)
    /\ UNCHANGED activeId

-----------------------------------------------------------------------------
Client(s) ==
    \/ OnOpen(s) \/ OnProgress(s) \/ OnDone(s) \/ OnError(s) \/ OnCatalog(s)
    \/ OnClose(s)

Bridge(s) ==
    /\ ready[s] = "open" /\ link[s] = "up"
    /\ \/ Answer(s) \/ Authenticate(s) \/ List(s) \/ Start(s) \/ Refuse(s) \/ Stop(s)
       \/ \E k \in Transfers : Speak(s, k) \/ GiveBack(s, k)
       \/ \E k \in Transfers : Report(s, k) /\ Len(outbox[s]) < Room
    /\ UNCHANGED <<client, app, taps>>

TransferEnds ==
    /\ \E s \in Sockets, k \in Transfers : Succeed(s, k) \/ Fail(s, k)
    /\ UNCHANGED <<client, app, taps>>

\* A connection breaks or is not made.
Fault(s) ==
    /\ ready[s] \in {"connecting", "open"} /\ link[s] # "gone"
    /\ Counts("mishap")
    /\ Drop(s)
    /\ UNCHANGED <<client, app>>

System == Retry \/ TransferEnds \/ \E s \in Sockets : Client(s) \/ Bridge(s)

User == TapSend \/ TapCancel \/ Reconnect

Next == System \/ User \/ \E s \in Sockets : Fault(s)

\* Callbacks, timers and the bridge run, and no transfer goes on for ever.
\* Users and networks are free.
Fairness == WF_vars(System) /\ SF_vars(TransferEnds)

Spec == Init /\ [][Next]_vars /\ Fairness

-----------------------------------------------------------------------------
(* Properties.                                                             *)

\* dispatch answers auth alone before a session is authenticated.  The app never
\* gives another command first, whichever socket its client holds when a list, a
\* send or a cancel is due.
AuthFirst ==
    \A s \in Sockets :
        inbox[s] # <<>> /\ ~sess[s].authed => Head(inbox[s]).type \in {"auth", "close"}

\* The sockets the client has let go of without closing them.
Orphans == {s \in Sockets : ready[s] \in {"connecting", "open"}} \ {ws}

\* The client holds one socket at a time through any losses and retries.  Each
\* "Save and reconnect" may leave one more behind, as the late close event of the
\* old socket makes it drop the new one (close and openSocket in bridge.ts).
OrphansAreFromReconnects == Cardinality(Orphans) <= taps.reconnect

Connected == ws # 0 /\ ready[ws] = "open" /\ sess[ws].authed /\ status = "online"

\* scheduleRetry promises that a phone "should rejoin": once faults and taps
\* are over the app is online, with a session that takes its commands, also when
\* close events of old sockets came late, if each broken connection has one.
Rejoins == <>[]Connected

\* A transfer that the app shows as running is over in the end, and so is the
\* view: no event that comes late, or of another socket, leaves it on for ever, if
\* each broken connection has its close event (apply and onStatus in index.tsx).
ViewEnds == running ~> ~running

\* index.tsx says of activeId: "Cancel is addressed to a specific transfer, so
\* remember which one the bridge is reporting on".  A cancel that the bridge reads
\* while a transfer is at work is addressed to it.
CancelReaches ==
    \A s \in Sockets :
        inbox[s] # <<>> /\ Head(inbox[s]).type = "cancel" /\ sess[s].active # 0
            => Head(inbox[s]).id \in {0, sess[s].active}

=============================================================================
