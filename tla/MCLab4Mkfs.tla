----------------------------- MODULE MCLab4Mkfs -----------------------------
(***************************************************************************)
(* Lab4Mkfs with few faults.                                               *)
(***************************************************************************)
EXTENDS Lab4Mkfs, FiniteSets

CONSTANT MaxFaults   \* kinds of faults since a format that went well

FewFaults == Cardinality(spoilt) <= MaxFaults
=============================================================================
