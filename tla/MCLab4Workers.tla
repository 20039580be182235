--------------------------- MODULE MCLab4Workers ---------------------------
(***************************************************************************)
(* Lab4Workers with two threads.                                           *)
(***************************************************************************)
EXTENDS Lab4Workers, TLC

\* Threads, directories, names and descriptors are interchangeable.
WorkerSymmetry == Permutations(Workers) \cup Permutations(Dirs)
                     \cup Permutations(Names) \cup Permutations(Fds)

\* Blocks that went wrong are not looked at together with numbers or handles
\* that did.
RacedApart == raced = {"block"} \/ "block" \notin raced
=============================================================================
