----------------------------- MODULE Lab4BmapRaw -----------------------------
(***************************************************************************)
(* The bitmaps as the bytes they are: lab4_set_bit, lab4_clear_bit and     *)
(* lab4_test_bit of bmap_raw.c, and the scan loops of bmap.c over them.    *)
(*                                                                         *)
(* One inode bitmap is allocated from and released to in every order.  The *)
(* hint is the one alloc_new_inode keeps: one past the last number given   *)
(* out, never moved back by a release.                                     *)
(*                                                                         *)
(* An operator whose name ends in _ and a word is a variant of the one     *)
(* after it with a bug the code does not have, put in its place to see a   *)
(* property fail.                                                          *)
(***************************************************************************)
EXTENDS Integers, FiniteSets, Lab4Bmap

CONSTANTS NumBits,      \* bits the scans look at (inode_per_seg, max_block)
          NumReserved   \* bits set by the format (LAB4_NUM_RESV_INO)

ASSUME BitsAssumption == /\ NumBits \in Nat \ {0}
                         /\ NumReserved \in 0..NumBits

VARIABLES addr,         \* the bytes of the bitmap
          hint,         \* sb_last_allocated_ino
          given         \* the number the last scan gave out, NumBits if none

rawVars == <<addr, hint, given>>

Bits      == 0..(NumBits - 1)
ByteIndex == 0..(NumBits \div 8)
Byte      == 0..255

-----------------------------------------------------------------------------
Mask_Wide(nr) == 2^(nr % 16)

\* nr >> 3 selects the byte, 1 << (nr & 7) the bit.
Mask(nr) == 2^(nr % 8)

lab4_test_bit(nr, a) == (a[nr \div 8] \div Mask(nr)) % 2 = 1

lab4_set_bit(nr, a) ==
    IF lab4_test_bit(nr, a) THEN a ELSE [a EXCEPT ![nr \div 8] = @ + Mask(nr)]

lab4_clear_bit_NoComplement(nr, a) ==
    [a EXCEPT ![nr \div 8] = IF lab4_test_bit(nr, a) THEN Mask(nr) ELSE 0]

lab4_clear_bit(nr, a) ==
    IF lab4_test_bit(nr, a) THEN [a EXCEPT ![nr \div 8] = @ - Mask(nr)] ELSE a

ScanLoop_OneShort(a, pos) ==
    LET from[count \in 0..NumBits] ==
            [p \in 0..NumBits |->
                IF count = NumBits - 1 THEN NumBits
                ELSE IF ~lab4_test_bit(p, a) THEN p
                ELSE from[count + 1][(p + 1) % NumBits]]
    IN  from[0][pos]

\* The scan loop as bmap.c writes it, started at position pos: what it returns
\* after count probes from each position p.
ScanLoop(a, pos) ==
    LET from[count \in 0..NumBits] ==
            [p \in 0..NumBits |->
                IF count = NumBits THEN NumBits
                ELSE IF ~lab4_test_bit(p, a) THEN p
                ELSE from[count + 1][(p + 1) % NumBits]]
    IN  from[0][pos]

\* The set view of the bytes.
SetBits(a) == {nr \in Bits : lab4_test_bit(nr, a)}

-----------------------------------------------------------------------------
FormattedMap ==
    LET set[k \in 0..NumReserved] ==
            IF k = 0 THEN [i \in ByteIndex |-> 0] ELSE lab4_set_bit(k - 1, set[k - 1])
    IN  set[NumReserved]

Init == /\ addr = FormattedMap
        /\ hint = NumReserved
        /\ given = NumBits

Allocate_HintAtPos ==
    LET pos == ScanLoop(addr, hint)
    IN  /\ pos < NumBits
        /\ addr' = lab4_set_bit(pos, addr)
        /\ hint' = pos
        /\ given' = pos

\* alloc_new_inode over scan_allocate_ibmap.
Allocate ==
    LET pos == ScanLoop(addr, hint)
    IN  \/ /\ pos < NumBits
           /\ addr' = lab4_set_bit(pos, addr)
           /\ hint' = pos + 1
           /\ given' = pos
        \/ /\ pos >= NumBits
           /\ given' = NumBits
           /\ UNCHANGED <<addr, hint>>

\* scan_delete_ibmap of a number that is in use.
Release(nr) == /\ nr >= NumReserved
               /\ nr \in SetBits(addr)
               /\ addr' = lab4_clear_bit(nr, addr)
               /\ UNCHANGED <<hint, given>>

Next == Allocate \/ \E nr \in Bits : Release(nr)

Spec == Init /\ [][Next]_rawVars

-----------------------------------------------------------------------------
(***************************************************************************)
(* The bytes stay bytes.                                                   *)
(***************************************************************************)
RawTypeOK == /\ addr \in [ByteIndex -> Byte]
             /\ hint \in 0..NumBits
             /\ given \in 0..NumBits

(***************************************************************************)
(* The loop of scan_allocate_ibmap and scan_allocate_dbmap, run on the     *)
(* bytes from any hint a caller may pass, stops where the closed form Scan *)
(* of the set view says.  Every module that allocates uses Scan.           *)
(***************************************************************************)
ScanAgrees == \A pos \in 0..NumBits :
                 ScanLoop(addr, pos) = Scan(SetBits(addr), pos, NumBits)

(***************************************************************************)
(* A step changes one bit and leaves its neighbours in the same byte and   *)
(* in the other bytes alone: a number given out was free and is now taken, *)
(* a number released is the only one to become free.                       *)
(***************************************************************************)
OneBitAStep ==
    [][\/ /\ given' < NumBits
          /\ given' \notin SetBits(addr)
          /\ SetBits(addr') = SetBits(addr) \cup {given'}
       \/ \E nr \in SetBits(addr) : SetBits(addr') = SetBits(addr) \ {nr}
       \/ given' = NumBits /\ addr' = addr]_rawVars

(***************************************************************************)
(* Releasing never makes a number available again: alloc_new_inode only    *)
(* gives out numbers from the hint up, above every number given out        *)
(* before, so the "% inode_per_seg" of its scan never leads anywhere.      *)
(***************************************************************************)
NumbersGrow == [][given' # given => given' >= hint]_rawVars
=============================================================================
