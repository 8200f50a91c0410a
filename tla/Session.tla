------------------------------ MODULE Session -------------------------------
(***************************************************************************)
(* What a bridge promises the phones connected to it: one session for each   *)
(* socket, which answers commands, runs one transfer at a time, reports on   *)
(* it and tells its end.  BridgeSession is shown to implement it for one     *)
(* socket; module Phone composes it with the app.                           *)
(*                                                                         *)
(* Nothing is said of locks, of room on the connection, or of what a         *)
(* transfer does between two reports.                                       *)
(***************************************************************************)
EXTENDS Naturals, Sequences

CONSTANTS
    Sockets,
    Transfers     \* the ids of a session: 1..n

VARIABLES
    link,       \* link[s]: "none", "up", "gone" (broken), "closed" (by the bridge)
    inbox,      \* inbox[s]: commands on their way to the bridge
    outbox,     \* outbox[s]: events on their way to the phone
    sess        \* sess[s]: the session

wire == <<link, inbox, outbox>>
sessionVars == <<wire, sess>>

\* Events without an id: hello, catalog, error, pings and the close frame.
Event(type) == [type |-> type]
About(type, k) == [type |-> type, id |-> k]

\* What run starts with.  A bridge started without a secret asks for none.
Fresh(open) ==
    [loop |-> "read",         \* "close": ReadText has failed
     answer |-> <<Event("hello")>>,     \* what the read loop has yet to write
     authed |-> open,
     last |-> 0,              \* the transfer that started last
     active |-> 0,            \* the transfer at work
     stopped |-> FALSE,       \* it was told to stop: of what it does then, see Report
     outcome |-> "open",      \* what its Send has returned: "sent", "failed"
     voice |-> [k \in Transfers |-> <<>>]]        \* what k has yet to write

SessionInit ==
    /\ link \in [Sockets -> {"none", "up"}]
    /\ inbox = [s \in Sockets |-> <<>>]
    /\ outbox = [s \in Sockets |-> <<>>]
    /\ \E open \in [Sockets -> BOOLEAN] : sess = [s \in Sockets |-> Fresh(open[s])]

-----------------------------------------------------------------------------
(* The connection.                                                         *)

Accept(s, open) ==
    /\ link[s] = "none"
    /\ link' = [link EXCEPT ![s] = "up"]
    /\ sess' = [sess EXCEPT ![s] = Fresh(open)]
    /\ UNCHANGED <<inbox, outbox>>

Say(s, command) ==
    /\ link[s] = "up"
    /\ inbox' = [inbox EXCEPT ![s] = Append(@, command)]
    /\ UNCHANGED <<link, outbox, sess>>

Receive(s) ==
    /\ link[s] \in {"up", "closed"}
    /\ outbox[s] # <<>>
    /\ outbox' = [outbox EXCEPT ![s] = Tail(@)]
    /\ UNCHANGED <<link, inbox, sess>>

\* The last commands and all events under way are lost.
Break(s) ==
    /\ link[s] = "up"
    /\ link' = [link EXCEPT ![s] = "gone"]
    /\ outbox' = [outbox EXCEPT ![s] = <<>>]
    /\ \E n \in 0..Len(inbox[s]) : inbox' = [inbox EXCEPT ![s] = SubSeq(@, 1, n)]
    /\ UNCHANGED sess

\* An event for a phone that is gone is dropped.
Write(s, event) ==
    outbox' = IF link[s] = "up" THEN [outbox EXCEPT ![s] = Append(@, event)] ELSE outbox

-----------------------------------------------------------------------------
(* The read loop.                                                          *)

Answer(s) ==
    /\ link[s] # "none" /\ sess[s].answer # <<>>
    /\ Write(s, Head(sess[s].answer))
    /\ sess' = [sess EXCEPT ![s].answer = Tail(@)]
    /\ UNCHANGED <<link, inbox>>

Hears(s, type) ==
    /\ link[s] # "none" /\ sess[s].loop = "read" /\ sess[s].answer = <<>>
    /\ inbox[s] # <<>> /\ Head(inbox[s]).type = type
    /\ inbox' = [inbox EXCEPT ![s] = Tail(@)]
    /\ UNCHANGED <<link, outbox>>

\* The right secret is answered with the list of the files.
Authenticate(s) ==
    /\ Hears(s, "auth")
    /\ sess' = [sess EXCEPT ![s].authed = TRUE, ![s].answer = <<Event("catalog")>>]

List(s) ==
    /\ Hears(s, "list") /\ sess[s].authed
    /\ sess' = [sess EXCEPT ![s].answer = <<Event("catalog")>>]

Start(s) ==
    /\ Hears(s, "send") /\ sess[s].authed /\ sess[s].active = 0
    /\ sess[s].last + 1 \in Transfers
    /\ sess' = [sess EXCEPT ![s].last = @ + 1, ![s].active = sess[s].last + 1]

Refuse(s) ==
    /\ \/ Hears(s, "refused")
       \/ Hears(s, "send") /\ (~sess[s].authed \/ sess[s].active # 0)
       \/ (Hears(s, "list") \/ Hears(s, "cancel")) /\ ~sess[s].authed
    /\ sess' = [sess EXCEPT ![s].answer = <<Event("error")>>]

\* A cancel of id stops the transfer at work, if that is the one meant.
Aimed(s, id) == sess[s].active # 0 /\ id \in {0, sess[s].active}

Stop(s) ==
    /\ Hears(s, "cancel") /\ sess[s].authed
    /\ sess' = [sess EXCEPT ![s].stopped = @ \/ Aimed(s, Head(inbox[s]).id)]

\* A close frame, or the end of a broken connection.
Leave(s) ==
    /\ \/ Hears(s, "close")
       \/ /\ link[s] \notin {"none", "up"} /\ inbox[s] = <<>>
          /\ sess[s].loop = "read" /\ sess[s].answer = <<>>
          /\ UNCHANGED wire
    /\ sess' = [sess EXCEPT ![s].loop = "close", ![s].stopped = @ \/ Aimed(s, 0)]

Close(s) ==
    /\ sess[s].loop = "close"
    /\ Write(s, Event("close"))
    /\ link' = [link EXCEPT ![s] = IF @ = "up" THEN "closed" ELSE @]
    /\ sess' = [sess EXCEPT ![s].loop = "closed"]
    /\ UNCHANGED inbox

\* After the hello, as long as commands are read.
Ping(s) ==
    /\ link[s] = "up"
    /\ sess[s].loop = "read" /\ sess[s].answer # <<Event("hello")>>
    /\ Write(s, Event("ping"))
    /\ UNCHANGED <<link, inbox, sess>>

LoopActs(s) ==
    Answer(s) \/ Authenticate(s) \/ List(s) \/ Start(s) \/ Refuse(s) \/ Stop(s)
    \/ Leave(s) \/ Close(s)

-----------------------------------------------------------------------------
(* A transfer.                                                             *)

Speak(s, k) ==
    /\ sess[s].voice[k] # <<>>
    /\ Write(s, Head(sess[s].voice[k]))
    /\ sess' = [sess EXCEPT ![s].voice[k] = Tail(@)]
    /\ UNCHANGED <<link, inbox>>

AtWork(s, k) == sess[s].active = k /\ sess[s].outcome = "open" /\ sess[s].voice[k] = <<>>

\* One that was told to stop notices before its next frame, may report until then,
\* and may also have sent its last one.
Report(s, k) ==
    /\ AtWork(s, k)
    /\ sess' = [sess EXCEPT ![s].voice[k] = <<About("progress", k)>>]
    /\ UNCHANGED wire

Succeed(s, k) ==
    /\ AtWork(s, k)
    /\ sess' = [sess EXCEPT ![s].outcome = "sent",
                            ![s].voice[k] = <<About("progress", k), About("done", k)>>]
    /\ UNCHANGED wire

\* At any time, for any reason.
Fail(s, k) ==
    /\ AtWork(s, k)
    /\ \E voice \in {<<>>, <<About("progress", k)>>} :
          sess' = [sess EXCEPT ![s].outcome = "failed", ![s].voice[k] = voice]
    /\ UNCHANGED wire

\* Mutant: the error first, and then the counters.
LastWords_ErrorFirst(k) == {<<Event("error"), About("progress", k)>>}

\* The last counters, which name no transfer when it failed before its plan, and
\* the error.
LastWords(k) == {<<About("progress", i), Event("error")>> : i \in {0, k}}

\* The session takes another transfer before the error of this one is told.
GiveBack(s, k) ==
    /\ sess[s].active = k /\ sess[s].outcome # "open" /\ sess[s].voice[k] = <<>>
    /\ \E voice \in IF sess[s].outcome = "failed" THEN LastWords(k) ELSE {<<>>} :
          sess' = [sess EXCEPT ![s].active = 0, ![s].stopped = FALSE,
                               ![s].outcome = "open", ![s].voice[k] = voice]
    /\ UNCHANGED wire

TransferActs(s, k) ==
    Speak(s, k) \/ Report(s, k) \/ Succeed(s, k) \/ Fail(s, k) \/ GiveBack(s, k)

-----------------------------------------------------------------------------
Command ==
    [type : {"auth", "list", "send", "refused", "close"}]
    \cup [type : {"cancel"}, id : Transfers \cup {0}]

SessionNext ==
    \E s \in Sockets :
        \/ \E open \in BOOLEAN : Accept(s, open)
        \/ \E command \in Command : Say(s, command)
        \/ Receive(s) \/ Break(s) \/ LoopActs(s) \/ Ping(s)
        \/ \E k \in Transfers : TransferActs(s, k)

SessionSpec == SessionInit /\ [][SessionNext]_sessionVars

=============================================================================
