------------------------------- MODULE Stream -------------------------------
(***************************************************************************)
(* What streamFile (internal/sender.go) promises sendFile: the chunks of    *)
(* the file reach the connection in order, and when it returns nil all of   *)
(* them did and the digest covers exactly them.                             *)
(***************************************************************************)
EXTENDS Naturals, Sequences

CONSTANT NChunks   \* how many chunks are left in the file

VARIABLES wire,    \* the chunks written to the connection, by their number
          digest,  \* the chunks the digest covers once streamFile returned nil
          result   \* "running", "ok" or "failed"

vars == <<wire, digest, result>>

Init == wire = <<>> /\ digest = <<>> /\ result = "running"

\* The next chunk goes out.
Frame ==
    /\ result = "running"
    /\ Len(wire) < NChunks
    /\ wire' = Append(wire, Len(wire) + 1)
    /\ UNCHANGED <<digest, result>>

\* streamFile returns nil, and sendFile takes the digest for FileDone.
Return ==
    /\ result = "running"
    /\ Len(wire) = NChunks
    /\ result' = "ok"
    /\ digest' = wire
    /\ UNCHANGED wire

\* streamFile returns an error.
Fail ==
    /\ result = "running"
    /\ result' = "failed"
    /\ UNCHANGED <<wire, digest>>

Next == Frame \/ Return \/ Fail

Spec == Init /\ [][Next]_vars

=============================================================================
