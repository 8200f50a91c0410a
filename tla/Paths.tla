------------------------------- MODULE Paths --------------------------------
(***************************************************************************)
(* Paths, as the sender, the bridge and the receiver compute with them.  A   *)
(* path is the sequence of its elements; a relative one begins with ".", an   *)
(* absolute one does not.  There are no symbolic links.                     *)
(***************************************************************************)
EXTENDS Naturals, SequencesExt

Here == "."
Up == ".."
Top == "/"

\* One element of a path: the parent of the root is the root, a relative
\* directory keeps the ".." that lead out of it, and Join drops a slash too many.
Enter(dir, name) ==
    IF name \in {Here, Top} \/ (name = Up /\ dir = <<>>) THEN dir
    ELSE IF name = Up /\ Last(dir) \notin {Here, Up} THEN Front(dir)
    ELSE Append(dir, name)

\* Where a path leads from a directory, element by element.
Steps(dir, path) ==
    LET upTo[i \in 0..Len(path)] == IF i = 0 THEN dir ELSE Enter(upTo[i - 1], path[i])
    IN  upTo

\* filepath.Join of a directory and a path: purely lexical.
Join(dir, path) == Steps(dir, path)[Len(path)]

\* filepath.Base does not clean: the base of "x/.." is "..", and that of the root
\* is "/", which is never an element of a path.
Base(path) == IF path = <<>> THEN Top ELSE Last(path)

\* How many elements two paths share.
Shared(base, path) ==
    CHOOSE n \in 0..Len(base) :
        /\ IsPrefix(SubSeq(base, 1, n), path)
        /\ n < Len(base) => ~IsPrefix(SubSeq(base, 1, n + 1), path)

\* filepath.Rel: up to what they share, and down.
Rel(base, path) ==
    LET shared == Shared(base, path)
    IN  [i \in 1..Len(base) - shared |-> Up] \o SubSeq(path, shared + 1, Len(path))

\* Mutant: the text of rel does not begin with two dots ("..x" stands for every
\* name that does).
withinDir_TwoDots(root, path) ==
    LET rel == Rel(root, path) IN rel = <<>> \/ rel[1] \notin {Up, "..x"}

withinDir(root, path) ==
    LET rel == Rel(root, path) IN rel = <<>> \/ rel[1] # Up

\* What lies at or below a path, in a set of files given by their paths.
Below(path, files) == {f \in files : IsPrefix(path, f)}
IsDirectory(path, files) == \E f \in files : IsStrictPrefix(path, f)

\* The path of a file below dir, from dir.
From(dir, file) == SubSeq(file, Len(dir) + 1, Len(file))

=============================================================================
