------------------------------ MODULE Lab4Bmap ------------------------------
(***************************************************************************)
(* The allocation scans of bmap.c over a bitmap seen as the set of its set *)
(* bits.  Lab4BmapRaw relates this view to the byte arrays of bmap_raw.c.  *)
(*                                                                         *)
(* scan_allocate_ibmap and scan_allocate_dbmap are the same loop: probe    *)
(* the hint first, then advance by (pos + 1) % n, n probes in all, and     *)
(* stop at the first clear bit.  A clear bit at a position of n or above   *)
(* (the hint itself may be n) is treated as "nothing found".               *)
(***************************************************************************)
EXTENDS Integers, FiniteSetsExt

\* The k-th position the loop probes.
Probe(hint, n, k) == IF k = 0 THEN hint ELSE (hint + k) % n

\* The numbers of the probes that find a clear bit.
ClearProbes(bits, hint, n) == {k \in 0..(n - 1) : Probe(hint, n, k) \notin bits}

\* The position the loop stops at; n stands for "no usable bit".
Scan(bits, hint, n) ==
    IF ClearProbes(bits, hint, n) = {}
    THEN n
    ELSE Probe(hint, n, Min(ClearProbes(bits, hint, n)))
=============================================================================
