------------------------------- MODULE Naming -------------------------------
(***************************************************************************)
(* Which file lands where: from what is asked for, by a message of the phone *)
(* or on the command line, to the names the sender announces and the files   *)
(* the receiver opens.  Everything on the way can refuse: the frames of the  *)
(* message are too large, a path leaves the bridge's root, a path is not     *)
(* there, two files would have the same name, a name leaves the receiver's   *)
(* directory, or something is in the way on its disk.                       *)
(*                                                                         *)
(* A file's content is the path it was read from; how it gets across is      *)
(* module Transfer.                                                        *)
(***************************************************************************)
EXTENDS Paths, FiniteSets

CONSTANTS
    Elements,      \* what a path is made of
    Source,        \* the files of the sender's machine
    Roots,         \* what the bridge's root there may be
    Cwd,           \* the directory the command line is in
    OutDir,        \* the receiver's directory, on its own machine
    Leftovers,     \* what that directory may hold: sets of files
    Untapped,      \* paths a message may name besides the listed ones
    Arguments,     \* arguments of the command line
    MaxPaths,      \* bounds what is asked for at once
    Dotted,        \* the names that begin with a dot
    MaxPayload,    \* the limit of a message; a path counts for its elements
    MaxSends       \* bounds the number of sends

Path == Seq(Elements)

\* A path from a root, without "." and "..".
Clean(path) == path \in Path /\ \A i \in DOMAIN path : path[i] \notin {Here, Up}

ASSUME ElementsAssumption == {Here, Up} \subseteq Elements /\ Top \notin Elements
ASSUME SourceAssumption == IsFiniteSet(Source) /\ \A f \in Source : Clean(f)
ASSUME DirectoriesAssumption == (\A r \in Roots : Clean(r)) /\ Clean(Cwd) /\ OutDir \in Path
ASSUME PathsAssumption ==
    Untapped \subseteq Path /\ Arguments \subseteq Path \ {<<>>}
ASSUME BoundsAssumption == {MaxPaths, MaxPayload, MaxSends} \subseteq Nat

VARIABLES
    root,          \* the bridge's root, the same as long as it runs
    via,           \* "bridge" or "cli"
    asked,         \* the paths asked for
    stage,
    unsent,        \* what the phone has yet to put into a frame
    text,          \* what ReadText has assembled so far
    pending,       \* the arguments of collectFiles not yet walked
    items,         \* what collectFiles has found: [name, src]
    complete,      \* which of them the receiver has found complete
    landed,        \* how many of them are at the receiver
    disk,          \* the receiver's files
    result,        \* "none", "ok", or why the send was refused
    sends

vars == <<root, via, asked, stage, unsent, text, pending, items, complete, landed, disk, result, sends>>

None == [assembling |-> FALSE, paths |-> <<>>]

\* listRoot skips dotted directories below the root.
listRoot ==
    {From(root, f) : f \in {g \in Below(root, Source) :
        \A i \in Len(root) + 1 .. Len(g) - 1 : g[i] \notin Dotted}}

OldContent == <<"old">>

Init ==
    /\ root \in Roots
    /\ via = "cli" /\ asked = <<>> /\ stage = "idle" /\ sends = 0
    /\ unsent = <<>> /\ text = None
    /\ pending = <<>> /\ items = <<>> /\ complete = {} /\ landed = 0 /\ result = "none"
    /\ \E old \in Leftovers : disk = [f \in old |-> OldContent]

-----------------------------------------------------------------------------
Ends(how) == stage' = "idle" /\ result' = how

Begin(by, paths, next) ==
    /\ stage = "idle" /\ sends < MaxSends
    /\ via' = by /\ asked' = paths /\ stage' = next
    /\ text' = None /\ items' = <<>> /\ complete' = {} /\ landed' = 0 /\ result' = "none"
    /\ sends' = sends + 1
    /\ UNCHANGED <<root, disk>>

\* The app sends one message, in frames that its WebSocket cuts as it likes.
AskBridge ==
    \E paths \in SeqOf(listRoot \cup Untapped, MaxPaths) :
        Begin("bridge", paths, "reading") /\ unsent' = paths /\ pending' = <<>>

\* The system finds a path only through directories that are there.
Reached(p) == \A i \in 1..Len(p) - 1 : IsDirectory(Join(Cwd, SubSeq(p, 1, i)), Source)

\* The command line takes its arguments as they are.
Argument(p) == [at |-> Join(Cwd, p), base |-> Base(p), reached |-> Reached(p)]

AskCommandLine ==
    \E paths \in SeqOf(Arguments, MaxPaths) \ {<<>>} :
        /\ Begin("cli", paths, "collecting")
        /\ unsent' = <<>>
        /\ pending' = [i \in DOMAIN paths |-> Argument(paths[i])]

-----------------------------------------------------------------------------
(* ReadText.  Pings and pongs between the frames leave no trace.            *)

Frame(part, final) == [part |-> part, final |-> final]
Sizes(paths) ==
    LET upTo[i \in 0..Len(paths)] == IF i = 0 THEN 0 ELSE upTo[i - 1] + Len(paths[i])
    IN  upTo

Size(paths) == Sizes(paths)[Len(paths)]

\* The first frame is checked alone, the others together with what came before.
TooLarge(frame) ==
    \/ Size(frame.part) > MaxPayload
    \/ text.assembling /\ Size(text.paths) + Size(frame.part) > MaxPayload

\* Mutant: a continuation replaces what was there.
Assembled_LastOnly(frame) == frame.part

Assembled(frame) == text.paths \o frame.part

\* The next frame takes n paths.
ReadFrame ==
    /\ stage = "reading"
    /\ \E n \in 0..Len(unsent), final \in BOOLEAN :
        LET frame == Frame(SubSeq(unsent, 1, n), final)
        IN  /\ final => n = Len(unsent)
            /\ unsent' = SubSeq(unsent, n + 1, Len(unsent))
            /\ IF TooLarge(frame)
               THEN Ends("too large") /\ UNCHANGED text
               ELSE /\ text' = [assembling |-> TRUE, paths |-> Assembled(frame)]
                    /\ stage' = IF final THEN "resolving" ELSE stage
                    /\ UNCHANGED result
    /\ UNCHANGED <<root, via, asked, pending, items, complete, landed, disk, sends>>

\* startSend resolves all paths before any is looked at.
Resolve ==
    LET full == [i \in DOMAIN text.paths |-> Join(root, text.paths[i])]
    IN  /\ stage = "resolving"
        /\ IF full = <<>> THEN Ends("nothing asked") /\ UNCHANGED pending
           ELSE IF \E i \in DOMAIN full : ~withinDir(root, full[i])
           THEN Ends("outside") /\ UNCHANGED pending
           ELSE /\ stage' = "collecting"
                /\ pending' = [i \in DOMAIN full |->
                      [at |-> full[i], base |-> Base(full[i]), reached |-> TRUE]]
                /\ UNCHANGED result
        /\ UNCHANGED <<root, via, asked, unsent, text, items, complete, landed, disk, sends>>

-----------------------------------------------------------------------------
(* collectFiles: one argument at a time.                                    *)

\* A file has its base for a name, and a file below a directory the directory's
\* base and its path from there, cleaned: a base "." goes, a base ".." stays.
Name(arg, file) ==
    (IF arg.base = Here THEN <<>> ELSE <<arg.base>>) \o From(arg.at, file)

\* The names below one directory differ, so the order of the walk does not matter.
\* Every directory of Source holds a file: what is empty is not there.
Walk(arg) ==
    SetToSeq({[name |-> Name(arg, f), src |-> f] :
        f \in {g \in Below(arg.at, Source) : arg.reached}})

\* Mutant: what was seen is kept by source.
Seen_BySource(item) == \E i \in DOMAIN items : items[i].src = item.src

Seen(item) == \E i \in DOMAIN items : items[i].name = item.name

Collect ==
    /\ stage = "collecting"
    /\ IF pending = <<>>
       THEN stage' = "announcing" /\ UNCHANGED <<pending, items, result>>
       ELSE LET arg == Head(pending)
                found == Walk(arg)
            IN  IF found = <<>>
                THEN Ends("missing") /\ UNCHANGED <<pending, items>>
                ELSE IF \E i \in DOMAIN found : Seen(found[i])
                THEN Ends("same name") /\ UNCHANGED <<pending, items>>
                ELSE /\ pending' = Tail(pending)
                     /\ items' = items \o found
                     /\ UNCHANGED <<stage, result>>
    /\ UNCHANGED <<root, via, asked, unsent, text, complete, landed, disk, sends>>

-----------------------------------------------------------------------------
(* The receiver.                                                           *)

Dest(name) == Join(OutDir, name)

Complete(item) ==
    LET dest == Dest(item.name)
    IN  dest \in DOMAIN disk /\ disk[dest] = item.src

\* One name that leaves the directory refuses the whole batch; what is complete
\* is settled for all of it before anything is opened.
Announce ==
    /\ stage = "announcing"
    /\ IF \E i \in DOMAIN items : ~withinDir(OutDir, Dest(items[i].name))
       THEN Ends("unsafe") /\ UNCHANGED complete
       ELSE /\ stage' = "landing"
            /\ complete' = {i \in DOMAIN items : Complete(items[i])}
            /\ UNCHANGED result
    /\ UNCHANGED <<root, via, asked, unsent, text, pending, items, landed, disk, sends>>

\* MkdirAll fails at a file, OpenFile at a directory.
InTheWay(dest) ==
    \/ \E f \in DOMAIN disk : IsStrictPrefix(f, dest)
    \/ IsDirectory(dest, DOMAIN disk)

\* A file that was complete is skipped.
Land ==
    /\ stage = "landing" /\ landed < Len(items)
    /\ LET item == items[landed + 1]
           dest == Dest(item.name)
       IN  IF landed + 1 \in complete
           THEN landed' = landed + 1 /\ UNCHANGED <<stage, result, disk>>
           ELSE IF InTheWay(dest)
           THEN Ends("in the way") /\ UNCHANGED <<landed, disk>>
           ELSE /\ disk' = [f \in {dest} \cup DOMAIN disk |-> IF f = dest THEN item.src ELSE disk[f]]
                /\ landed' = landed + 1
                /\ UNCHANGED <<stage, result>>
    /\ UNCHANGED <<root, via, asked, unsent, text, pending, items, complete, sends>>

AllLanded ==
    /\ stage = "landing" /\ landed = Len(items)
    /\ Ends("ok")
    /\ UNCHANGED <<root, via, asked, unsent, text, pending, items, complete, landed, disk, sends>>

Next ==
    \/ AskBridge \/ AskCommandLine
    \/ ReadFrame \/ Resolve
    \/ Collect
    \/ Announce \/ Land \/ AllLanded

Spec == Init /\ [][Next]_vars

-----------------------------------------------------------------------------
(* What was asked for, without the names the code computes on the way: an    *)
(* asked path with all that is below it goes to the receiver's directory as  *)
(* it stands in its own parent; of "." only the contents do; and what is      *)
(* below ".." goes to where ".." leads from the receiver's directory.        *)

Location(p) == Join(IF via = "bridge" THEN root ELSE Cwd, p)
EndsIn(p, name) == via = "cli" /\ p # <<>> /\ Last(p) = name
Found(p) == {f \in Below(Location(p), Source) : via = "bridge" \/ Reached(p)}

\* Where a file below an asked path should go.
Goal(p, file) ==
    IF EndsIn(p, Up) THEN Join(OutDir, <<Up>>) \o From(Location(p), file)
    ELSE IF EndsIn(p, Here) THEN OutDir \o From(Location(p), file)
    ELSE OutDir \o From(Front(Location(p)), file)

\* The files asked for, by the place of the path among those asked for.
Wanted == UNION {{<<i, f>> : f \in Found(asked[i])} : i \in DOMAIN asked}

\* collectFiles compares names, not places, and one place may have two names:
\* ".." may lead back into the receiver's directory, and the files below the root
\* "/" have names that begin with a slash when it is asked for itself.
TwoNames ==
    \/ \E i \in DOMAIN asked : EndsIn(asked[i], Up)
    \/ /\ via = "bridge"
       /\ \E i, j \in DOMAIN asked : Location(asked[i]) = <<>> /\ Location(asked[j]) # <<>>

\* A send that succeeds has put every file asked for at its own place with its
\* own content: nothing of the message was lost, whatever frames it came in, and
\* no file of the batch went over another (collectFiles, ReadText, receiveFile),
\* unless a place has two names.
LandsWhereAsked ==
    result = "ok" /\ ~TwoNames =>
        \A w \in Wanted :
            LET goal == Goal(asked[w[1]], w[2])
            IN  goal \in DOMAIN disk /\ disk[goal] = w[2]

\* A step changes a file of the receiver only inside its directory, only where a
\* file that was asked for, and may be read, belongs; a file of the same send is
\* never written over, with the same exception (withinDir on both sides,
\* collectFiles).
TouchesOnlyItsOwn ==
    [][\A d \in DOMAIN disk' :
        (d \notin DOMAIN disk \/ disk[d] # disk'[d]) =>
            /\ IsPrefix(OutDir, d)
            /\ \E w \in Wanted :
                /\ w[2] = disk'[d] /\ d = Goal(asked[w[1]], w[2])
                /\ via = "bridge" => IsPrefix(root, w[2])
            /\ ~TwoNames => \A i \in 1..landed : Dest(items[i].name) # d]_vars

\* Every refusal has its reason in what was asked for and what is on the two
\* disks: no message is too large for how it was cut, no path inside the root is
\* taken for one outside, no batch with distinct names is refused for its names,
\* and a file is in the way only of one that cannot be beside it (startSend,
\* collectFiles, handleConn, receiveFile).
Goals == {<<w, Goal(asked[w[1]], w[2])>> : w \in Wanted}

Reasons ==
    {why \in {"too large", "nothing asked", "outside", "missing", "same name", "unsafe", "in the way"} :
        CASE why = "too large" -> via = "bridge" /\ Size(asked) > MaxPayload
          [] why = "nothing asked" -> asked = <<>>
          [] why = "outside" ->
                via = "bridge" /\ \E i \in DOMAIN asked : ~IsPrefix(root, Location(asked[i]))
          [] why = "missing" ->
                \E i \in DOMAIN asked : Found(asked[i]) = {}
          [] why = "same name" ->
                \E g, h \in Goals : g[1] # h[1] /\ g[2] = h[2]
          [] why = "unsafe" ->
                \E g \in Goals :
                    ~IsPrefix(OutDir, g[2]) \/ \E i \in Len(OutDir) + 1 .. Len(g[2]) : g[2][i] = Up
          [] why = "in the way" ->
                \E g \in Goals :
                    \/ \E d \in DOMAIN disk : IsStrictPrefix(d, g[2])
                    \/ IsDirectory(g[2], DOMAIN disk)}

RefusedForAReason == result \in {"none", "ok"} \cup Reasons

=============================================================================
