---------------------------- MODULE Lab4Namespace ----------------------------
(***************************************************************************)
(* What the file system promises of its names: a tree of numbered nodes    *)
(* that each operation changes at one place, and that a restart does not   *)
(* change at all.  Lab4FS implements this.                                 *)
(***************************************************************************)
EXTENDS Integers, Lab4Graph

CONSTANTS Nodes,   \* the numbers a node may have
          Names,
          Root

VARIABLES kind,    \* what each number is: "NONE", "DIR" or "FILE"
          links,   \* which directory holds which node under which name
          floor    \* every number given out is below floor

nsVars == <<kind, links, floor>>

Link(d, n, i) == [dir |-> d, name |-> n, node |-> i]

Edges == {<<l.dir, l.node>> : l \in links}

Taken(d, n) == \E l \in links : l.dir = d /\ l.name = n

Init == /\ kind = [i \in Nodes |-> IF i = Root THEN "DIR" ELSE "NONE"]
        /\ links = {}
        /\ floor = Root + 1

\* mkdir, create: a node with a number never used before.
Make(d, n, i, t) == /\ kind[d] = "DIR"
                    /\ ~Taken(d, n)
                    /\ i >= floor
                    /\ kind' = [kind EXCEPT ![i] = t]
                    /\ links' = links \cup {Link(d, n, i)}
                    /\ floor' = i + 1

\* Numbers that a failed mkdir took are lost with a later operation.
Rises == floor' \in Nodes /\ floor' >= floor

\* unlink, rmdir: a node that holds nothing, and its one link.
Remove(l) == /\ \A o \in links : o.dir # l.node
             /\ kind' = [kind EXCEPT ![l.node] = "NONE"]
             /\ links' = links \ {l}
             /\ Rises

\* rename in one directory: to a name not taken there.
Rename(l, n) == /\ ~Taken(l.dir, n)
                /\ links' = (links \ {l}) \cup {Link(l.dir, n, l.node)}
                /\ UNCHANGED <<kind, floor>>

\* rename to another directory, not below the node that moves: the name
\* stays, and may be taken there.
Move(l, d) == /\ kind[d] = "DIR"
              /\ d \notin Closure({l.node}, Edges)
              /\ links' = (links \ {l}) \cup {Link(d, l.name, l.node)}
              /\ UNCHANGED <<kind, floor>>

\* write: no name changes.
Skip == Rises /\ UNCHANGED <<kind, links>>

Next == \/ \E d, i \in Nodes, n \in Names, t \in {"DIR", "FILE"} : Make(d, n, i, t)
        \/ \E l \in links : \/ Remove(l)
                            \/ \E n \in Names : Rename(l, n)
                            \/ \E d \in Nodes : Move(l, d)
        \/ Skip

Spec == Init /\ [][Next]_nsVars
=============================================================================
