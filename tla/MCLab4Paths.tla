---------------------------- MODULE MCLab4Paths ----------------------------
(***************************************************************************)
(* Lab4Paths over a small tree.                                            *)
(***************************************************************************)
EXTENDS Lab4Paths

CONSTANTS a, b

\* Two directories with an entry each.
MCTree == {[dir |-> "root", name |-> a, node |-> "a"],
           [dir |-> "root", name |-> b, node |-> "b"],
           [dir |-> "a", name |-> b, node |-> "a/b"],
           [dir |-> "b", name |-> a, node |-> "b/a"]}
=============================================================================
