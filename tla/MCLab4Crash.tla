---------------------------- MODULE MCLab4Crash ----------------------------
(***************************************************************************)
(* Lab4Crash on small devices.                                             *)
(***************************************************************************)
EXTENDS Lab4Crash, TLC

CONSTANT MaxDeleted   \* entries flagged DELETED that a run looks at

\* Names are interchangeable.
NameSymmetry == Permutations(Names)

\* Slots are taken over again once DELETED, so a few of them show it all.
FewDeleted ==
    Cardinality({p \in Blocks \X BlockSlots : area[p[1]][p[2]].flag = "DELETED"})
        <= MaxDeleted
=============================================================================
