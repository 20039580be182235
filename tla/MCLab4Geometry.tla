--------------------------- MODULE MCLab4Geometry ---------------------------
(***************************************************************************)
(* Lab4Geometry on the sizes around each place where a field wraps.        *)
(***************************************************************************)
EXTENDS Lab4Geometry

\* From nothing to past a word of bytes, half a word of units and a word of
\* them.
MCDevices == 1..700 \cup 1990..2200 \cup 4050..4300 \cup 8150..8400
=============================================================================
