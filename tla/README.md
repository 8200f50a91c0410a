# A verification project for filetransfercli

TLA+ models of the programs in this repository, the TLC configurations that
check them on small instances, and TLAPS proofs of the results that matter most.
Line numbers refer to the files under `src/`.

    tlc -workers 2 -config MCTransferRerun.cfg MCObservedTransfer    # one run
    tlapm TransferProofs.tla                                         # one proof module

## 1. The system

`filetransfer` pushes files from one machine to another over TLS.

    phone browser --WebSocket JSON--> bridge ==TLS frames==> receive
       (app)                          (sender: Send)         (handleConn)

| Component | Code | State | Operations |
|---|---|---|---|
| resume decision | `internal/transfer.go` | none; reads the destination | `hashFileChunks`, `matchResume`, `hashPrefixInto` |
| sender | `internal/sender.go` `Send`, `resolveResume`, `sendFile` | the stat of each file, the offset of each file, the file being sent, its digest, the context | one call: Hello, optional query round, files, Done |
| stream pipeline | `internal/sender.go` `streamFile` | three buffers, the channels `free`, `filled`, `readErr`, `done` | a reader goroutine and the caller |
| receiver | `internal/receiver.go` | the files under `OutDir`; for each connection the offsets, the open file, its digest | `Receive` starts a goroutine `handleConn` per connection |
| frames | `internal/transport.go`, `internal/protocol.go` | none | typed frames over TLS |
| bridge session | `internal/bridge.go` `session` | `authed`, `busy`, `cancel`, `nextID`, `activeID` | `run` (read loop, pings), `dispatch`, `startSend` (a goroutine per transfer), `abort` |
| progress observer | `internal/bridge.go` `wsObserver` | an item for each file, the sum sent | `Plan`, `FileBegin`, `FileProgress`, `FileEnd`, `Finish`, called by `Send` on its goroutine; `flush` writes an event |
| WebSocket | `internal/websocket.go` | a write lock, `closeOnce` | `ReadText`, `WriteText`, `WritePing`, `Close` |
| app | `filetransfer/src/index.tsx` | `running`, `activeId`, `error`, the list | `apply` (events), `startSend`, `cancel`, `reconnect` |
| reconnecting client | `filetransfer/src/bridge.ts` | the socket, the status, the retry timer | `connect`, `openSocket` and its callbacks, `scheduleRetry`, `send`, `close` |
| path handling | `listRoot`, `startSend`, `ReadText`, `collectFiles`, `withinDir`, `receiveFile` | the items of a batch, the receiver's tree | from what is asked for to the file that is opened |
| TLS identity, command line, presentation | `tls.go`, `main.go`, `progress.go`, `format.ts` | none worth a model | pure |

How they interact. The app sends commands and receives events over one
WebSocket; each WebSocket is one session. A session runs `Send` on a goroutine,
which calls the observer back, which writes to the same WebSocket as the read
loop and the pings. `Send` talks to one `handleConn` over one connection. All
handlers of a receiver share its directory.

What is hard here, and what makes each part correct:

- **Two loops in step.** Data frames have no name, and `receiveFile` looks at no
  field of `FileStart`. Both ends derive from the same answers which files are
  skipped. They must never disagree, also about whether there is a query round
  at all, since no read has a timeout.
- **Three looks at a source.** The announced size is from a stat, the chunk
  digests from a read after it, the streamed bytes from a third read. Files
  change in between.
- **Leftovers.** A destination may hold anything: a torn chunk of an earlier run,
  an older version, more bytes than the source. What is kept must be right, and a
  retry should not lose what had arrived.
- **No lock on a destination.** A cancelled run's handler may be at work when the
  next run's handler opens the same file.
- **Buffers shared without a lock** by two goroutines in `streamFile`, with early
  returns on one side and errors reported on the other.
- **One connection, many writers.** Read loop, pings, transfer and Close share
  the write lock of the WebSocket, held across a write that can block.
- **A phone that is gone**, with or without saying so, must leave nothing
  running; one that stays must be told how a transfer ended.
- **Old events and new state.** The error of a transfer comes after the session
  took the next one, the close event of a socket after the next was made. The app
  must end up showing what is true, and online.
- **A dozen ways out of `Send`**, each of which must leave the phone with bars
  that agree with it.
- **Names made three times.** The bridge resolves paths, the sender gives names,
  the receiver makes paths of the names. A file must not land elsewhere, over
  another of its batch, or outside of the receiver's directory.

`PROJECT.json` lists each hazard at its line with the properties aimed at it.

## 2. The modules

| Module | Models | Used by |
|---|---|---|
| `Resume` | files, chunk digests, `matchResume`, Truncate, Write | `Transfer` |
| `MCResume` | the receiver's answer for every small case, and `matchResume`'s loop as written | |
| `Transfer` | any number of calls of `Send` and their handlers over shared files | |
| `Delivery` | abstract: what `Send` promises its caller | refined by `Transfer` |
| `Stream` | abstract: what `streamFile` promises `sendFile` | refined by `StreamPipeline` |
| `StreamPipeline` | `streamFile` with its goroutines, channels and buffers | |
| `ControlChannel` | the WebSocket: two FIFOs, limited room, a link that is up, silent, gone or closed | `BridgeSession` |
| `BridgeSession` | one session of the bridge, with its locks and goroutines | |
| `Session` | abstract: what a session promises its phone | refined by `BridgeSession`, used by `Phone` |
| `Phone` | the app and its client, composed with one `Session` for each socket | |
| `ObservedTransfer` | `Transfer` with the progress observer, called back by `Send` | |
| `Paths` | `filepath.Join`, `Base`, `Rel`; `withinDir` | `Naming` |
| `Naming` | from a message or the command line to the files opened at the receiver | |
| `MCTransfer`, `MCObservedTransfer`, `MCStreamPipeline`, `MCBridgeSession`, `MCPhone`, `MCNaming` | TLC instances | |
| `ResumeProofs`, `AnswerProofs` | theorems about `Resume`, and about `MCResume` for any size | `AnswerProofs` uses `ResumeProofs` |
| `TransferProofs` | theorems about `Transfer`, for `MCTransfer`'s runs of any size | `ObservedProofs` |
| `ObservedProofs`, `StreamProofs`, `BridgeProofs`, `PhoneProofs`, `NamingProofs` | theorems about the module of that name | `ObservedProofs` uses `TransferProofs` |

`Transfer` takes `streamFile` in two steps, `StreamChunk` and `StreamEnd`, which
is what `Stream` promises and `StreamPipeline` is shown to keep. `BridgeSession`
takes `Send` as a number of steps, each a frame or a report of the observer.
The context is looked at before a frame only (`SendsFrame`), so a transfer that was
told to stop may still report (`Reports`: `Plan`, `FileBegin`, `FileEnd`).
`Phone` takes a session as `Session` has it, which `BridgeSession` is shown to
implement (`KeepsSession`).

### Resume

A file is a sequence of bytes, `None` when it does not exist. A SHA-256 digest is
modelled by the bytes it covers: equal digests mean equal bytes, which the code
relies on. `matchResume` is written in closed form (`FirstBreak`: where the loop
over the chunks stops), and `ClosedFormIsTheLoop` compares that with the loop as
written in `LoopMatch`. `Truncate` extends with zeros, `WriteAt` fills a gap with
zeros, as the operating system does.

### Transfer

State, for each connection `c`: `snd[c]` and `rcv[c]` are the local variables of
`Send` and `handleConn` with a `pc`, `toR[c]` and `toS[c]` the frames under way,
`link[c]` whether the connection is up. `src` and `dest` are the files, shared by
all connections. `told`, `taken`, `latest`, `opener` are history variables.

A step is what one end does between two frames, so every interleaving of frames
and files across connections is there. `receiveFile` is split after Truncate
(`RecvFileStart`, `HashPrefix`), as another handler can come between.

| Action | Code |
|---|---|
| `Send` | `Send` to Hello (60-94), `Receive` accepting (37-47) |
| `StartFresh`, `SendQueries`, `RecvAnswers` | `resolveResume` (181-222) |
| `SendFileStart`, `StreamChunk`, `StreamEnd` | `sendFile`, `streamFile` (230-359) |
| `CancelSeen` | `ctx.Err()` before a file and before a frame (136, 342) |
| `SendDone`, `RecvDoneAck` | `Send` (154-172) |
| `RecvHello`, `RecvQueries`, `RecvDone` | `handleConn` (50-133) |
| `RecvFileStart`, `HashPrefix`, `PrefixGone` | `receiveFile` (135-165) |
| `RecvData`, `RecvFileDone`, `ChecksumMismatch` | `drainFile`, `receiveFile` (167-206) |
| `SourceFails`, `SenderIOError`, `HandlerEOF` | the error returns |
| `LinkFails` | the connection breaks and each direction loses a suffix; also a sender process that dies |
| `HandlerDies` | the receiver stops, perhaps with part of a chunk written |
| `Cancel`, `EditSource` | the context, a user |

TCP does not lose, duplicate or reorder within a connection, so a wire is a FIFO
of which a fault cuts the tail. Retries are new connections.

### Delivery

What the command line, the bridge, and a user who tries again may rely on, with
one connection at work at a time and until a source is edited. A call runs, ends
well or fails; one that has failed may linger at the receiver, whose handler still
reads what was under way. While a call is at work a destination that is not its
source yet may become a longer part of it, and never loses a whole chunk that it
had; a call fails only when disturbed; it succeeds only when every destination
begins with its source; between calls nothing is touched. `Transfer` maps onto it
by `LastCall`, the state of the last connection made.

### StreamPipeline

Channels are bounded sequences; `closed` and `done` the two closed channels. A
chunk is its number, a buffer its name, and `holds` says which chunk a buffer
has, so a buffer filled too early would be seen. A read may fail after some
bytes, at the end, or never.

### BridgeSession

`loop` and `task[k]` are the goroutines, each with the events it has yet to
write (`out`): `Write` waits for room, so a goroutine stands still at any event.
`link` tells a connection that is up from one that is silent (packets get lost,
nobody knows), gone (the kernel knows) and closed by the bridge. TCP gives up
only on data that is not acknowledged, so an idle silent connection stays; that
is what pings are for.

### Session and Phone

`Session` keeps what a phone can see of a session: commands are answered in turn
(`answer` is what the read loop has yet to write), one transfer is `active`, each
transfer `k` has a `voice`, the events it has yet to write. Locks and room are
gone, a ping may come at any time, and a transfer may fail at any time.
`BridgeSession` maps onto it by `Promise`: a silent link counts as up, and an
error loses its id, as it does in the JSON.

`Phone` has one session for each socket that the client makes. Its state is
`BridgeClient`'s `ws`, `retryTimer` (set or not) and `status`, the `readyState`
of each socket, and the app's `running` and `activeId`. JavaScript runs one
callback at a time, so a callback with all it calls is one action.

| Action | Code |
|---|---|
| `OnOpen`, `OnClose` | `ws.onopen`, `ws.onerror` and `ws.onclose` of any socket, also one the client has let go of |
| `OnProgress`, `OnDone`, `OnError`, `OnCatalog` | `ws.onmessage`, `apply` |
| `Retry` | the timeout of `scheduleRetry`, `openSocket` |
| `TapSend`, `TapCancel`, `Reconnect` | `startSend`, `cancel`, `reconnect` (`close`, `connect`) |
| `Bridge`, `TransferEnds` | the session |
| `Fault` | a connection that breaks or is not made |

A browser sends no `message` events to a socket that is closing, and its close
event comes later, in a callback of its own: `ready[s] = "closing"` until then.

### ObservedTransfer

Each step of `Send` is joined with the callback it makes: `obs[c]` is what
`wsObserver` holds, `shown[c]` what the last event said, `transferred[c]` the
bytes that `Send` itself counts. `FileProgress` may flush or not, which stands
for the interval between two flushes. A file that fails at its FileDone has counted
its last frame before (`FailsAfterLast`); the other failures count nothing
(`Failure`). `ObservedNext` adds the callbacks to the actions of `Transfer`, so by
construction its invariants hold here too; that says nothing of the code. A flush
can block `Send`, which is in `BridgeSession` and not here.

### Paths and Naming

A path is the sequence of its elements; a relative one, as the receiver's
directory may be, begins with `.`. The computations of `filepath` are lexical ones
on such sequences: `..` above the root stays at the root, a relative path keeps the
`..` that lead out of it, `Base` does not clean, and the base of the root is `/`
(`Top`), which Join drops but a name keeps. The system is not lexical:
`os.Stat` of `gone/..` fails, since it goes through directories that must be there
(`Reached`); the bridge has joined and cleaned its paths before. A file's content
is the path it was read from, so a file that lands at a wrong place is seen. The
bridge's root is one of `Roots` and stays. What the receiver has already is settled
for the whole batch at the handshake (`complete`), before any file of it lands.

| Action | Code |
|---|---|
| `AskBridge`, `ReadFrame` | a `send` message in any frames, `ReadText` with its limit |
| `AskCommandLine` | `main.go` calling `Send` with its arguments |
| `Resolve` | `startSend`: all paths joined and checked before any is used |
| `Collect` | `collectFiles`, one argument, and its check for equal names |
| `Announce` | the names of Hello, `withinDir` at the receiver, and what is complete there (`handleConn`) |
| `Land`, `AllLanded` | `receiveFile`: `MkdirAll`, `OpenFile`; files that are complete are not opened |

## 3. The runs

| Run | Question | Bounds, and why they are enough |
|---|---|---|
| `resume` | is the answer of `matchResume` sound, and the best one? | every pair of files up to 5 bytes over 2 values, chunks of 2, any stat up to 5: up to three chunks, the last whole or short, at either side, sources that grew or shrank |
| `resume_skip` | is "complete" the truth? **No** (section 5) | the same, without edits |
| `transfer_rerun` | a run and its retry over every leftover, with faults, cancels and an edit: is it what `Send` promises (`KeepsDelivery`), and does the phone end up seeing what `Send` counted? | two calls one after the other, one file of a whole and a short chunk, leftovers that are absent, empty, torn, whole, wrong, too long; the interesting retry is the second; two faults, so that both can be hit |
| `transfer_batch` | does one run of two files end, with equal files, and with bars on the phone that agree? | three sources against six leftovers for each file: every mix of skipped, resumed and fresh; one fault; two files, so that one is before and one after the file that fails |
| `transfer_overlap` | what holds when runs overlap on one file? | three calls, two at work at a time: a handler that lingers and one that starts; one fault; the source may be removed meanwhile (`Edits = {None}`) |
| `transfer_lingering` | is an acknowledged file on disk? **Not** after send, cancel, send (section 5) | two calls, no fault |
| `stream_pipeline` | is a chunk ever lost, does `streamFile` keep its promise, return, and end its reader? | the program's 3 buffers, 6 chunks: each buffer is used twice |
| `bridge_session` | one transfer at a time, no orphan, the outcome told, a lost phone noticed, every transfer ends, and all of what `Session` promises (`KeepsSession`) | two transfers, three commands in any order, a connection with room for one frame, so that every write may wait, one time off the network |
| `bridge_stall` | can a phone slow a transfer down? **Yes** (section 5) | one transfer of three frames |
| `phone` | does the app authenticate first on each socket, keep to one socket, rejoin, and never show a transfer for ever? | two transfers, so that the words of the first come after the second began; one "Save and reconnect" and one cancel or lost connection, in any order, which make up to four sockets (1 + 2 for a reconnect, whose late close event leads to one more, + 1); a session reports when nothing is under way (`Room = 1`) |
| `phone_cancel` | does a cancel reach the transfer at work? **Not** after one that failed (section 5) | two transfers, one cancel |
| `naming` | does each file land where it was asked to, or the send fail for a reason that holds, with nothing else touched? | two sends of up to two paths; a tree with one name at several places, as a file and as a directory, a name that begins with two dots, a directory beside the root that begins like it; a bridge that serves one directory, and one that serves all from `/`; listed paths, and unlisted ones that are the root, a directory, outside, out and back, or missing; arguments with `.` and `..`, one through a directory that is not there, one whose `..` leads back into the receiver's directory; a receiver with nothing, a file, or a directory in the way; a message of at most four elements (`MaxPayload = 4`, a path counts for its elements), so that one path may be too large, two only together |

What the properties say is in the comment over each. Some words on strength:

- `DeliveredIntact` and `SuccessMeansDelivered` speak about the handler that
  opened a file last. That is as much as holds without locks; that it is not
  enough is `transfer_lingering`.
- `SuccessMeansSame` allows a skipped file to be longer than its source. That is
  what the code does, and `resume_skip` shows it.
- `OrphansAreFromReconnects` allows one socket left behind for each "Save and
  reconnect". That is what the code does (section 5); the property says that
  losses and retries leave none.
- `RefusedForAReason` is as strong as the sets `Reasons` that it names: each is
  stated from what was asked for and what is on the two disks, with no use of the
  names that the code computes.
- `LandsWhereAsked`, and the last part of `TouchesOnlyItsOwn`, except sends in which
  a place may have two names (`TwoNames`): an argument that ends in `..`, or a bridge
  that serves `/` and is asked for `/` itself and another path. There the code does
  let one file of a batch go over another (section 5). That it stays inside the receiver's directory
  and writes only what was asked for has no exception.

`stream_pipeline`, and all runs of `Transfer`, check for deadlock; `AtRest` is
the only step of a system that is done. The others do not: `resume` stops after
its one answer, a bridge session may wait for a command for ever, the user of
`phone` may have no taps left, and `naming` ends with its last send.

### Fairness

- `Transfer`, `StreamPipeline`: weak fairness for each goroutine, which is what
  the Go scheduler gives. Nothing is assumed of users, cancels and faults. In
  `StreamPipeline` a write to the receiver goes through or fails: the code has no
  write deadline, and without the assumption `streamFile` need not return.
- `BridgeSession`: strong fairness for the read loop and the transfers, because
  they wait for room on a connection that pings also fill. `sync.Mutex` hands the
  lock over to a waiter after a millisecond, so pings cannot starve them. Weak
  fairness for the ticker and for TCP's retransmission limit. The receiver of the
  files is healthy. `ReadingSpec` adds a phone that reads what it gets while the
  connection is up; `PhoneCannotStall` is refuted without it.
- `ObservedTransfer`: as `Transfer`; a callback is part of a step of `Send`.
- `Phone`: weak fairness for the callbacks, the timer and the sessions, as an
  event loop and the Go scheduler give it, and strong fairness for the end of a
  transfer: a session that goes on reporting is not always able to end at once,
  but a file has an end, and so has a cancelled or broken run (`Settles`,
  `TransfersEnd`). The platform in the end fires a close event for each connection
  that broke: the callbacks of a socket are among those with weak fairness, and a
  connection that is lost at the bridge while the phone takes it for open for ever
  (half-open; the app sends no pings) is not modelled. `Rejoins` and `ViewEnds` rest
  on that. Nothing is assumed of the user and of the network; faults are bounded, so
  `Rejoins` speaks of a network that stays up in the end.

## 4. What is proved

For every value of the constants, under the named assumptions of each module.

- **`ResumePointIsShared`, `ResumePointIsMaximal`, `SkipIsBacked`**
  (`ResumeProofs`): what `matchResume` keeps is shared by both files, no chunk that
  both share from the start is sent again, and a file that is skipped has the
  announced bytes. The module also has the lemmas on Truncate, WriteAt, chunks and
  `FirstBreak` that the rest needs. `FirstBreak` is a CHOOSE; that there is a
  first break comes from the least element of a nonempty set of numbers.
- **`ResumePointSoundAlways`, `ResumePointMaximalAlways`, `SkipKeepsPrefixAlways`**
  (`AnswerProofs`): the properties of `resume` for files of any length, any stat and
  any chunk size, edits included. **`ClosedFormAlways`**: the loop of `matchResume`
  as it is written returns that answer. `LoopMatch` is a recursive function, whose
  existence an ordinary proof has to show: the closed form satisfies the equation of
  the loop, and by the least place where two solutions differ it is the only one.
- **`TypeCorrect`** (`TransferProofs`): `TypeOK` of `Transfer`, inductive by
  itself; one lemma per action.
- **`DeliveredIntactAlways`** (`TransferProofs`), with at most one connection at
  work at a time (`MaxLive = 1`). `DeliveredIntact` is not inductive: nothing in
  it says why the bytes on disk are those in the hasher. The strengthening says
  that a handler in `drain` opened its file last, that the file is exactly what
  the handler has hashed, and that it writes at the end (`HoldsItsFile`); that
  the files it accepted come before the one it receives, so that it cuts none of
  them again (`AcceptsInOrder`); and that nobody else is at work (`OneLive`).
  Truncate at the resume offset establishes the first part: without the cut a
  longer leftover would keep its tail.
- **`PromiseKept`, `NothingIsLost`** (`StreamProofs`): `StreamPipeline` implements
  `Stream`. The invariant says that each buffer has one owner (`OneOwner`: free,
  filled, the reader or the writer), that the chunks in flight continue those on
  the wire (`InOrder`), and how the two ends relate (`Ending`: `filled` is closed
  only when the reader is gone; a nil in `readErr` means all chunks were read).
- **`OneTransferAlways`, `NoOrphanEver`, `OutcomeIsTold`** (`BridgeProofs`). The
  invariant adds to `OneTransfer` and `NoOrphan` that ids are given out in order
  (`InTurn`: the next transfer is one that never ran) and where each goroutine is
  in what it has to say (`Speech`); `ToldTheOutcome` follows from `Speech`.
  Nothing is assumed of room, phone or network.
- **`ExpectedFramesAlways`** (`TransferProofs`), for any overlap of connections.
  The invariant `Lines` says of each connection that the frames under way lead,
  one by one, from the place of the handler in its loop over the files to the
  place of the sender in its own (`Chain`, `EndOf`): a FileStart from between two
  files into one, FileDone out of it, past those that both ends skip. A link that
  loses its tail leaves a prefix of a chain.
- **`SuccessMeansDeliveredAlways`, `AckedIsOnDiskAlways`** (`TransferProofs`), with
  `MaxLive = 1`. `Lines` also says which digests are known to whom (`Confirmed`):
  a digest found equal is one that was told, and DoneAck is under way only when
  the handler has found all of them equal. The second theorem adds that what the
  last call had confirmed no other call has opened since (`LastAtWork`).
- **`OverlapDeliversIntact`, `OverlapSuccessMeansDelivered`** (`TransferProofs`), for
  any overlap of connections, as long as no source is rewritten
  (`Edits \subseteq {None}`: one may be removed). The two properties of
  `transfer_overlap`, for any number of calls, files and handlers on the same file.
  What `DeliveredIntactAlways` rests on is not so here: another handler may cut the
  file, or write into it, while one is draining. The invariant (`OverlapOf`) is about
  the sources `x` as they were at the start. On each connection the sender, the
  offsets and the frames under way speak of `x` (`Honest`, `Agreeable`, `Flow`, as in
  the paragraph below), and a file is accepted with the digest of `x` only
  (`Accepts`). Of the disk (`Disk`) it says that no destination that was opened is
  longer than its source; that what a handler has behind it is on disk, if it opened
  the file last and its digest is still that of the source (`Kept`); and that what it
  has accepted equals the source. A cut hands the file over to another opener, so
  nothing is left to show for the old one; every write, also of a handler that should
  have given up and also a torn one, puts bytes of the source where they belong, so
  it damages nobody else's (`Fills`, `WritingFills`). A handler that read a prefix
  which others had spoilt has a digest that never becomes right again (`SameBegins`).
  When a source is rewritten and handlers overlap, both properties are false: TLC
  finds so on the instance of `transfer_overlap` with rewritten sources in `Edits`.
- **`SuccessMeansSameAlways`, `OnlyFaultsFailAlways`, `KeepsGroundAlways`**
  (`TransferProofs`), with `MaxLive = 1`, as long as nobody edits a source (the
  properties say so themselves, by `edits = 0`; a receiver may hold anything). None
  of them is inductive, nor are they together: why no checksum differs depends on
  what is on the wire, and that on what the handler said of the disk before.
  `Contents` adds to `Lines` for each connection: the sender's sizes, offsets and
  hash are those of its sources (`Honest`); the handler's offsets are what the
  destinations still call for, the files behind it are settled, and the one it has
  open is a prefix of its source (`Backed`); HelloAck, the queries and the answers
  under way say what is so (`Truthful`); the Data frames under way continue the
  source from where the handler is to where the sender is (`Flow`); and a connection
  without a fault or a cancel is up or through (`Smooth`). `KeepsGround` follows
  because each step leaves a destination alone or makes it a longer piece of its
  source from a chunk boundary that was shared (`Builds`). With two connections at
  work the first and the last fail, on the instance of `transfer_lingering` already.
- **`DeliveryIsKept`** (`TransferProofs`), with `MaxLive = 1`: `Transfer` implements
  `Delivery`. It puts together the invariants above with two facts about calls: who
  is at work is the last call (`LastAtWork`), and nothing has come in the way of a
  call before it begins (`CallInv`). A step of `Send` is a stutter until it returns;
  that its error has a cause is `Smooth`, and that a DoneAck finds every destination
  settled is `Backed`. A step of the handler delivers or stutters; the chunks that a
  reader of the two files would see shared are those that `FirstBreak` counts
  (`SharedAgrees`, `AgreedIsThere`). A fault is a disturbance, with a torn write
  perhaps.
- **`NothingLeftRunningAlways`, `DoneAgrees`** (`ObservedProofs`). The invariant has a row for each run: where `Send` is, each
  item's state and bytes follow from its place before, at or after `idx`
  (`Stands`), and what a failed run leaves (`Left`). `DoneAgrees` is `DoneIsShown`
  without the total.
- **`BarsOnlyRiseAlways`, `DoneIsShownAlways`** (`ObservedProofs`), for any overlap
  of connections. What the bars are measured by is a sum over the files
  (`ToStream`), the loop of `Send` written as a recursive function; that it has a
  value, that it never falls, and that it stays where files are skipped is shown by
  a least number at which it would not (`ToStreamIs`, `ToStreamRises`). A bar stays
  within it only if no offset lies beyond the end of its file, and that is the
  receiver's word; so `Measured` follows the question and the answer on the wire:
  what is asked is asked of the source as it is, and no answer goes beyond it
  (`AnswersWithin`). `Bar` then says that the sum is what the run has streamed of
  the files before `idx` and of the one at `idx` (`Behind`), which is at most the
  total, and is the total at the end.
- **`TypeCorrect`** of `StreamPipeline`, `BridgeSession` and `Phone`, each from the
  invariant of its module.
- **`SessionIsKept`** (`BridgeProofs`): `BridgeSession` implements `Session`. Each
  action maps to one of `Session` or to a stutter: `dispatch` to answering a
  command, a write that had to wait to the same write without waiting, the locks to
  nothing. The mapping filters what a phone cannot tell apart from the events, so
  the lemmas say how the filter goes with Append, Head and Tail. What the phone
  model assumes of a session is therefore what the bridge does.
- **`AuthFirstAlways`, `OrphansAreFromReconnectsAlways`** (`PhoneProofs`). Before
  auth is read it is the first in the inbox, or nothing is there and the app
  cannot write there (`AuthLeads`); so a command that the app sends to the socket
  it holds is behind auth. For the second: the sockets in being that the client
  does not hold, closing ones included, are no more than the reconnects
  (`LooseInv`); a retry is scheduled only when it holds none.
- **`LandsWhereAskedAlways`, `RefusedForAReasonAlways`, `TouchesOnlyItsOwnAlways`**
  (`NamingProofs`), for every tree, every root, `/` included, every receiver's
  directory, and every list of paths. The invariant follows a send through its stages: what `ReadText`
  has assembled and what is unsent are together what was asked for (`Told`); what
  `collectFiles` has found are the files below the arguments it has walked, each
  with a name that leads to its `Goal`, no two of one name, and what is pending are
  the others (`Walking`, `Walked`); what has landed is on disk (`Landing`). It rests
  on lemmas about paths: Join of a clean path is clean (`JoinType`) and goes element
  by element (`JoinAppends`), so that a name leads from any directory to where the
  argument's parent, moved there, has the file (`NameLands`); on clean paths
  `withinDir` is the prefix relation (`CleanWithin`), though it compares the text of
  a relative path with `..`; and distinct clean names have distinct places
  (`PlacesDiffer`). A name is clean but for a slash that it may begin with; with that,
  or with a `..`, one place has two names, which is what `TwoNames` excepts. `Steps`, `Sizes` and the order
  of a directory's files (`SetToSeq`) have their values by a least number at which
  they would not (`StepsIs`, `SizesIs`, `SetToSeqIs`).

Only model-checked is all liveness (`Settles`, `Returns`, `ReaderEnds`, `Noticed`,
`TransfersEnd`, `Rejoins`, `ViewEnds`): fairness and ENABLED are out of the prover's
reach. Every invariant and every action property of the passing runs is proved.

The assumptions on the constants are those of the modules, which TLC evaluates in
every run: that `None` is no file and no query, that chunks are not empty, that the
counts are numbers, that the connections are finitely many and `None` is none of
them, that the tree is finite, that its paths, each root a bridge may have and
the working directory are absolute and clean (`filepath.Abs` gives such a root, and
a system has no other working directory), that `/` is no element of a path, and that
an argument is not empty. What a
message names and the receiver's directory may be any path.

## 5. Findings

1. **A longer destination is skipped.** `matchResume` compares the bytes it
   matched with the announced size, never the size of the destination
   (`transfer.go:119`). When the source is a whole number of chunks and the
   destination starts with it, the answer is "complete" and the stale tail stays.
   Its comment says "fully present and correct" (`transfer.go:68-69`). Smallest
   run: `resume_skip`.
2. **Send, cancel, send again loses bytes.** The handler of the cancelled run may
   read its FileStart after the second run's handler has written, and truncates
   under it. The second run is acknowledged, and the file has zeros where the cut
   was (`receiver.go:42`, `152`; `protocol.go:80`). Run: `transfer_lingering`.
3. **A phone can stall a transfer.** Events are written by the goroutine that
   sends the file, with no deadline (`bridge.go:306`, `websocket.go:250`); README
   line 60 says a phone "cannot slow the transfer down". Run: `bridge_stall`.
4. **A cancel can be lost.** An error leaves `activeId` at the transfer that
   failed. A cancel of the next one, before its first progress event, carries the
   old id; the bridge ignores it (`bridge.go:297`) and the app shows that nothing
   runs (`index.tsx:90`). Run: `phone_cancel`.

Behaviour that no comment contradicts, but a reader may want to know:

- After "Save and reconnect" the late close event of the old socket makes the
  client forget the new one and open another (`bridge.ts:62`). Both stay open, both
  deliver events, and a transfer that was started on the forgotten one cannot be
  cancelled from the app.
- Two files of one base name, tapped in different directories, make the bridge
  refuse the whole send (`collectFiles`).
- Names "a" and "a/b" in one batch differ, so the sender accepts them, and the
  receiver fails at the second with a file in the way, after the first has landed.
- `send ..` gives names that begin with `..`. The receiver refuses them, unless the
  `..` leads back: at a receiver whose directory is called `in`, the names `b` and
  `../in/b` are the same place. `collectFiles` compares names, not the places they
  lead to, so `send b ../.hidden/in/..`, with nothing but `in/b` below `../.hidden`,
  lands two files at one place, the second over the first, and reports success.
- A bridge that serves `/` and is asked for `/` itself and for `x/a` has the names
  `/a` and `a` for the files `/a` and `/x/a` (`sender.go:396`). They differ
  (`sender.go:366`) and lead to one place at the receiver, so one file goes over the
  other, with success.

## 6. What is left out

- Of the transfer: the Dial and `collectFiles` failing (nothing has changed
  then), read errors in the middle of a source or a destination, a destination
  that is a directory, a power loss (nothing is synced), `ErrorMsg` (never sent).
  Files of a batch are stat'ed, hashed and matched in one step per batch.
- Frames that no sender of this program writes, and their decode errors.
- Of the bridge: the upgrade, the bits of a frame, pongs and binary frames; wrong
  secrets; elapsed times and rates; the sizes in the list of files. The sessions
  of one bridge share nothing, so `BridgeSession` has one.
- Of the app: the setup panel that opens on a first run, the selection, what is
  shown besides `running`, and the length of the backoff, which changes when a
  retry comes and not what it does.
- Of paths: absolute arguments of the command line (an argument is relative to the
  working directory, so `send /` is not among them), symbolic links, directories that are empty or cannot be read,
  case-folding file systems, and Windows separators.
- TLS (cryptography: a connection is modelled from the handshake on), flag
  parsing, the terminal's progress bar, formatting and layout.

## 7. Plan

What is left is a file system with symbolic links under `Paths`, which `withinDir`
does not look at.
