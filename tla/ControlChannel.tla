--------------------------- MODULE ControlChannel ---------------------------
(***************************************************************************)
(* The WebSocket between a phone and one bridge session                     *)
(* (internal/websocket.go), as both ends see it: commands one way, events   *)
(* the other, in order and each as one frame, over a connection that holds  *)
(* only so much of what the phone has not read.                             *)
(***************************************************************************)
EXTENDS Naturals, Sequences

CONSTANTS
    MaxSends,      \* bound: how many of the commands are sends
    Room,          \* how many frames the connection holds for the phone
    MaxInbox,      \* bound: how many commands the connection holds
    MaxCommands,   \* bound: how many commands the phone gives
    MaxSilences    \* bound: how often the phone drops off the network

ASSUME BoundsAssumption ==
    /\ MaxSends \in Nat /\ Room \in Nat \ {0} /\ MaxInbox \in Nat
    /\ MaxCommands \in Nat /\ MaxSilences \in Nat

VARIABLES
    inbox,      \* frames the phone has written
    outbox,     \* frames the phone has not read yet
    link,       \* "up", "silent" (no packet gets through), "gone" (the
                \* kernel knows it), "closed" (by the bridge)
    commands,   \* commands given so far
    sends,      \* how many of them were sends
    silences    \* how often the link fell silent

channel == <<inbox, outbox, link, commands, sends, silences>>

Transfers == 1..MaxSends

\* App -> bridge.  "refused" stands for all that is answered by an error alone:
\* what is no JSON or no command, a wrong secret, a send without paths, without
\* secret or out of the root.  "close" is the close frame.
Command ==
    [type : {"auth", "list", "send", "refused", "close"}]
    \cup [type : {"cancel"}, id : 0..MaxSends]

\* Bridge -> app.  An error event carries no id: the one here, 0 when the error
\* answers a command, lets properties say which transfer it ends.
Event ==
    [type : {"hello", "catalog", "ping", "close"}]
    \cup [type : {"progress", "done"}, id : Transfers]
    \cup [type : {"error"}, id : 0..MaxSends]

Hello == [type |-> "hello"]
Catalog == [type |-> "catalog"]
Ping == [type |-> "ping"]
CloseFrame == [type |-> "close"]
Progress(k) == [type |-> "progress", id |-> k]
DoneEvent(k) == [type |-> "done", id |-> k]
Error(k) == [type |-> "error", id |-> k]

ChannelTypeOK ==
    /\ inbox \in Seq(Command)
    /\ outbox \in Seq(Event) /\ Len(outbox) <= Room
    /\ link \in {"up", "silent", "gone", "closed"}
    /\ commands \in 0..MaxCommands
    /\ sends \in 0..MaxSends
    /\ silences \in 0..MaxSilences

ChannelInit ==
    /\ inbox = <<>> /\ outbox = <<>>
    /\ link = "up"
    /\ commands = 0 /\ sends = 0 /\ silences = 0

Down == link \in {"gone", "closed"}

-----------------------------------------------------------------------------
(* The bridge's end.                                                       *)

\* Mutant: frames are queued without a limit.
Fits_Always == TRUE

\* The connection takes one more frame.
Fits == Len(outbox) < Room

\* Mutant: a frame that could not be written is tried again.
Write_Retries(event) == ~Down /\ Fits /\ outbox' = Append(outbox, event)

\* writeFrame: it waits for room, and for the writer that already waits; once
\* the connection is down it returns an error, which emit drops.
Write(event) ==
    \/ Down /\ UNCHANGED outbox
    \/ ~Down /\ Fits /\ outbox' = Append(outbox, event)

-----------------------------------------------------------------------------
(* The phone's end and the network.                                        *)

PhoneSays(command) ==
    /\ link = "up"
    /\ commands < MaxCommands /\ Len(inbox) < MaxInbox
    /\ inbox' = Append(inbox, command)
    /\ commands' = commands + 1
    /\ sends' = IF command.type = "send" THEN sends + 1 ELSE sends
    /\ sends' <= MaxSends
    /\ UNCHANGED <<outbox, link, silences>>

PhoneReads ==
    /\ link \in {"up", "closed"}
    /\ outbox # <<>>
    /\ outbox' = Tail(outbox)
    /\ UNCHANGED <<inbox, link, commands, sends, silences>>

FallsSilent ==
    /\ link = "up"
    /\ silences < MaxSilences
    /\ link' = "silent"
    /\ silences' = silences + 1
    /\ UNCHANGED <<inbox, outbox, commands, sends>>

ComesBack ==
    /\ link = "silent"
    /\ link' = "up"
    /\ UNCHANGED <<inbox, outbox, commands, sends, silences>>

\* The connection is torn down; commands that have arrived can still be read.
TornDown ==
    /\ link' = "gone"
    /\ outbox' = <<>>
    /\ UNCHANGED <<inbox, commands, sends, silences>>

\* The phone's end is closed without a close frame.
PhoneDrops == link = "up" /\ TornDown

\* TCP gives up on data that is never acknowledged, and only then.
KernelGivesUp == link = "silent" /\ outbox # <<>> /\ TornDown

=============================================================================
