------------------------------ MODULE MCNaming ------------------------------
(***************************************************************************)
(* A TLC instance of Naming: a small tree with the same names at different   *)
(* places, as files and as directories.                                     *)
(***************************************************************************)
EXTENDS Naming

Names == {".", "..", "home", "r", "rr", "a", "b", "d", "in", "..x", ".hidden", "gone"}
Tree == {<<"a">>, <<"home", "r", "a">>, <<"home", "r", "..x">>, <<"home", "r", "d", "a", "b">>,
         <<"home", "r", "d", "b">>, <<"home", "r", ".hidden", "in", "b">>, <<"home", "rr", "b">>}
\* From the last one the bridge serves all there is.
BridgeRoots == {<<"home", "r">>, <<>>}
Here_d == <<"home", "r", "d">>
Out == <<".", "in">>

\* Nothing; a file, or a directory, where another kind may have to go.
MayBeThere == {{}, {<<".", "in", "a">>}, {<<".", "in", "b", "old">>, <<".", "elsewhere">>}}

\* The root itself, a directory, one that is outside though it begins alike, a
\* way out and back, and one that is not there.
NotListed == {<<>>, <<"d">>, <<"..", "rr", "b">>, <<"d", "..", "a">>, <<"gone">>}

\* The last one leads to names with ".." that stay in the receiver's directory.
Args == {<<".">>, <<"..">>, <<"a">>, <<"..", "a">>, <<"b">>, <<"a", "..">>, <<"gone", "..">>,
         <<"..", "..", "rr", "b">>, <<"..", ".hidden", "in", "..">>}

=============================================================================
