----------------------------- MODULE MCTransfer -----------------------------
(***************************************************************************)
(* TLC instances of Transfer: small files over two byte values and chunks   *)
(* of two bytes.                                                            *)
(***************************************************************************)
EXTENDS Transfer

\* A whole chunk and a short one; then versions that differ in the second
\* chunk, in the first, or only in their length.
Original == <<1, 0, 1>>
AllEdits == {<<1, 0, 0, 1>>, <<0, 0, 1>>, <<1>>, None}
NoEdits == {}

OneSource == {Original}
Sources == {Original, <<1, 0>>, <<>>}

\* What an earlier run, or something else, may have left at the receiver:
\* nothing, an empty file, a torn chunk, a whole chunk, a wrong one, more than
\* the source holds.
NoLeftover == {None}
Leftovers == {None, <<>>, <<1>>, <<1, 0>>, <<0, 0, 1>>, <<1, 0, 1, 1, 0>>}

Sym == Permutations(Conns)

=============================================================================
