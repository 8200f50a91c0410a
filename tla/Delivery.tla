------------------------------ MODULE Delivery ------------------------------
(***************************************************************************)
(* What the caller of Send (main.go, or the bridge) may rely on, whatever    *)
(* happens to its connection, while one call and its handler are at work at  *)
(* a time and nobody edits a source: success means that every file is there, *)
(* failure has a cause from outside, what has arrived is never lost, and     *)
(* after success nothing is touched until the next call.                    *)
(***************************************************************************)
EXTENDS Integers, Sequences

CONSTANTS Files, ChunkSize, None

VARIABLES
    src,        \* the sources
    dest,       \* the files of the receiver
    call,       \* the last call: "none", "running", "lingering", "ok" or "failed"
    disturbed,  \* whether its connection broke, its handler died, or it was cancelled
    edited      \* whether a source has been edited

vars == <<src, dest, call, disturbed, edited>>

\* "lingering": Send has failed, and its handler is still reading what was under way.
AtWork == call \in {"running", "lingering"}

Init == call = "none" /\ ~disturbed /\ ~edited

\* The files d and x are the same up to n.
Shares(d, x, n) ==
    d # None /\ n <= Len(d) /\ n <= Len(x) /\ SubSeq(d, 1, n) = SubSeq(x, 1, n)

\* A destination that is not yet its source becomes a part of it, and keeps the
\* whole chunks that it had.
Arrives(f) ==
    /\ dest[f] # src[f]
    /\ \E n \in 0..Len(src[f]) :
        /\ dest'[f] = SubSeq(src[f], 1, n)
        /\ \A m \in 0..Len(src[f]) :
            m % ChunkSize = 0 /\ Shares(dest[f], src[f], m) => m <= n

Delivers == DOMAIN dest' = Files /\ \A f \in Files : dest'[f] = dest[f] \/ Arrives(f)

Start ==
    /\ ~AtWork
    /\ \A f \in Files : src[f] # None
    /\ call' = "running" /\ ~disturbed'
    /\ UNCHANGED <<src, dest, edited>>

Deliver ==
    /\ AtWork /\ Delivers
    /\ UNCHANGED <<src, call, disturbed, edited>>

\* A fault may tear a write, and may end the handler.
Disturb ==
    /\ AtWork /\ disturbed' /\ Delivers
    /\ call' = call \/ (call = "lingering" /\ call' = "failed")
    /\ UNCHANGED <<src, edited>>

\* Send returns nil: a destination has its source, or it was skipped and begins with it.
Succeed ==
    /\ call = "running" /\ call' = "ok"
    /\ \A f \in Files : Shares(dest[f], src[f], Len(src[f]))
    /\ UNCHANGED <<src, dest, disturbed, edited>>

\* Send returns an error.
Fail ==
    /\ call = "running" /\ disturbed /\ call' \in {"lingering", "failed"}
    /\ UNCHANGED <<src, dest, disturbed, edited>>

\* The handler of a call that has failed ends.
Settle ==
    /\ call = "lingering" /\ call' = "failed"
    /\ UNCHANGED <<src, dest, disturbed, edited>>

\* Nothing is promised once a source is edited.
Edited == edited'

Next == Edited \/ Start \/ Deliver \/ Disturb \/ Succeed \/ Fail \/ Settle

Spec == Init /\ [][Next]_vars

=============================================================================
