---------------------------- MODULE Lab4FSProofs ----------------------------
(***************************************************************************)
(* Invariants of Lab4FS for every number of inodes, blocks, slots, handles *)
(* and names.  The invariant is built in layers, each proved from those    *)
(* below it:                                                               *)
(*                                                                         *)
(*   Types      the types, and a block for every directory                 *)
(*   Numbers    which inode numbers can be where, memory against device    *)
(*   BlockUse   who owns which block                                       *)
(*   Low        how far into the data area blocks are given out            *)
(*   Tree       what the entries of the directories name, in               *)
(*              Lab4TreeProofs                                             *)
(***************************************************************************)
EXTENDS Lab4FS, Lab4Lemmas, FiniteSetTheorems, TLAPS

USE SizeAssumption DEF NumReserved, Root, StartOpenFile, NoBlock

-----------------------------------------------------------------------------
(* Lookups and writes of slots.                                            *)

(***************************************************************************)
(* lab4_lookup returns a slot of the directory, in use and of that name.   *)
(***************************************************************************)
LEMMA LookupFinds ==
    ASSUME NEW d, NEW n, Found(d, n)
    PROVE  /\ LookupSlot(d, n) \in Slots
           /\ Slot(d, LookupSlot(d, n)).flag = "USED"
           /\ Slot(d, LookupSlot(d, n)).name = n
<1>1. Hits(d, n) \in SUBSET Nat /\ Hits(d, n) # {}
  BY DEF Found, Hits, UsedSlots, Slots
<1>2. LookupSlot(d, n) \in Hits(d, n)
  BY <1>1, MinOfNat DEF LookupSlot
<1> QED
  BY <1>2 DEF Hits, UsedSlots

(***************************************************************************)
(* The slot mkdir, create and rename write to is at most one past the end, *)
(* and not in use.                                                         *)
(***************************************************************************)
LEMMA FreeSlotFinds ==
    ASSUME NEW d
    PROVE  /\ FreeSlot(d) \in 0..DirSlots
           /\ FreeSlot(d) < DirSlots => /\ FreeSlot(d) \in Slots
                                        /\ Slot(d, FreeSlot(d)).flag # "USED"
           /\ FreeSlot(d) = DirSlots => \A s \in Slots : Slot(d, s).flag = "USED"
<1> DEFINE F == Slots \ UsedSlots(d)
<1>1. CASE F = {}
  BY <1>1 DEF FreeSlot, UsedSlots
<1>2. CASE F # {}
  <2>1. F \in SUBSET Nat
    BY DEF Slots
  <2>2. Min(F) \in F
    BY <1>2, <2>1, MinOfNat
  <2> QED
    BY <1>2, <2>2 DEF FreeSlot, UsedSlots, Slots
<1> QED
  BY <1>1, <1>2

LEMMA SlotsInBlock == Slots \subseteq BlockSlots
<1> QED
  BY DEF Slots, BlockSlots

AreaType == [Blocks -> [BlockSlots -> Cell]]

(***************************************************************************)
(* Writing an entry keeps the data area made of slots.                     *)
(***************************************************************************)
LEMMA WriteSlotType ==
    ASSUME NEW a \in AreaType, NEW b \in Int, NEW s \in Int, NEW c \in Cell
    PROVE  WriteSlot(a, b, s, c) \in AreaType
<1>1. \A k, t : [a EXCEPT ![k][t] = c] \in AreaType
  BY DEF AreaType
<1> QED
  BY <1>1 DEF WriteSlot

(***************************************************************************)
(* The cells the handlers write.                                           *)
(***************************************************************************)
LEMMA CellTypes ==
    /\ \A n \in Names, i \in Inos : Entry(n, i) \in Cell
    /\ \A c \in Cell : [c EXCEPT !.flag = "DELETED"] \in Cell
    /\ \A c \in Cell, n \in Names : [c EXCEPT !.name = n] \in Cell
    /\ ZeroBlock \in [BlockSlots -> Cell]
    /\ [ZeroBlock EXCEPT ![0] = DataSlot] \in [BlockSlots -> Cell]
    /\ \A i, p \in Inos : NewDirBlock(i, p) \in [BlockSlots -> Cell]
    /\ DataSlot \in Cell
<1>1. EmptySlot \in Cell /\ DataSlot \in Cell
  BY DEF EmptySlot, DataSlot, Cell, Inos
<1>2. ZeroBlock \in [BlockSlots -> Cell]
  BY <1>1 DEF ZeroBlock
<1>3. \A i \in Inos : Entry(".", i) \in Cell /\ Entry("..", i) \in Cell
  BY DEF Entry, Cell
<1>4. \A i, p \in Inos : NewDirBlock(i, p) \in [BlockSlots -> Cell]
  BY <1>2, <1>3 DEF NewDirBlock
<1>5. \A n \in Names, i \in Inos : Entry(n, i) \in Cell
  BY DEF Entry, Cell
<1>6. \A c \in Cell : [c EXCEPT !.flag = "DELETED"] \in Cell
  BY DEF Cell
<1>7. \A c \in Cell, n \in Names : [c EXCEPT !.name = n] \in Cell
  BY DEF Cell
<1> QED
  BY <1>1, <1>2, <1>4, <1>5, <1>6, <1>7

-----------------------------------------------------------------------------
(* Types: the type invariant, and a block for every directory.             *)

DirBlocks == \A d \in Inos : itable[d].type = "DIR" => itable[d].blk \in Blocks

Types == TypeOK /\ DirBlocks

DiskType == [sb : SbType, ibmap : SUBSET Inos, dbmap : SUBSET Blocks,
             itable : [Inos -> InodeType]]

LEMMA NextIsFree ==
    ASSUME Types
    PROVE  /\ NextIno \in 0..NumInodes
           /\ NextIno < NumInodes => NextIno \in Inos /\ NextIno \notin ibmap
           /\ NextBlk \in 0..NumBlocks
           /\ NextBlk < NumBlocks => NextBlk \in Blocks /\ NextBlk \notin dbmap
<1>1. sb.ino \in 0..NumInodes /\ blk_hint \in 0..NumBlocks
  BY DEF Types, TypeOK, SbType
<1>2. NextIno \in 0..NumInodes /\ (NextIno < NumInodes => NextIno \notin ibmap)
  BY <1>1, ScanSound DEF NextIno
<1>3. NextBlk \in 0..NumBlocks /\ (NextBlk < NumBlocks => NextBlk \notin dbmap)
  BY <1>1, ScanSound DEF NextBlk
<1> QED
  BY <1>2, <1>3 DEF Inos, Blocks

(***************************************************************************)
(* Taking and returning numbers and blocks keeps the super block typed.    *)
(***************************************************************************)
LEMMA SbTypes ==
    ASSUME NEW s \in SbType
    PROVE  /\ inc_free_inodes(s) \in SbType /\ dec_free_inodes(s) \in SbType
           /\ inc_free_blocks(s) \in SbType /\ dec_free_blocks(s) \in SbType
           /\ \A i \in Inos : take_ino(s, i) \in SbType
           /\ \A b \in Blocks : [s EXCEPT !.blk = b] \in SbType
<1>1. /\ inc_free_inodes(s) \in SbType
      /\ inc_free_blocks(s) \in SbType /\ dec_free_blocks(s) \in SbType
  BY DEF SbType, inc_free_inodes, inc_free_blocks, dec_free_blocks
<1>2. \A t \in SbType : dec_free_inodes(t) \in SbType
  BY DEF SbType, dec_free_inodes
<1>3. ASSUME NEW i \in Inos PROVE take_ino(s, i) \in SbType
  <2>1. i + 1 \in 0..NumInodes
    BY DEF Inos
  <2>2. [s EXCEPT !.ino = i + 1] \in SbType
    BY <2>1 DEF SbType
  <2> QED
    BY <2>2, <1>2 DEF take_ino
<1>4. \A b \in Blocks : [s EXCEPT !.blk = b] \in SbType
  BY DEF SbType, Blocks
<1> QED
  BY <1>1, <1>2, <1>3, <1>4

LEMMA InodeTypes ==
    /\ ZeroInode \in InodeType /\ FileInode \in InodeType
    /\ \A b \in Blocks : DirInode(b) \in InodeType
    /\ \A x \in InodeType : /\ [x EXCEPT !.size = 1] \in InodeType
                            /\ \A b \in Blocks :
                                  [x EXCEPT !.size = 1, !.blk = b] \in InodeType
<1>1. ZeroInode \in InodeType /\ FileInode \in InodeType
  BY DEF ZeroInode, FileInode, InodeType
<1>2. \A b \in Blocks : DirInode(b) \in InodeType
  BY DEF DirInode, InodeType
<1>3. ASSUME NEW x \in InodeType
      PROVE  /\ [x EXCEPT !.size = 1] \in InodeType
             /\ \A b \in Blocks : [x EXCEPT !.size = 1, !.blk = b] \in InodeType
  BY DEF InodeType
<1> QED
  BY <1>1, <1>2, <1>3

(***************************************************************************)
(* Counting links changes nothing else in the inode table.                 *)
(***************************************************************************)
LEMMA LinkTypes ==
    ASSUME NEW it \in [Inos -> InodeType], NEW p \in Inos
    PROVE  /\ inc_link(it, p) \in [Inos -> InodeType]
           /\ dec_link(it, p) \in [Inos -> InodeType]
           /\ \A i \in Inos : /\ inc_link(it, p)[i].type = it[i].type
                              /\ inc_link(it, p)[i].size = it[i].size
                              /\ inc_link(it, p)[i].blk = it[i].blk
                              /\ dec_link(it, p)[i].type = it[i].type
                              /\ dec_link(it, p)[i].size = it[i].size
                              /\ dec_link(it, p)[i].blk = it[i].blk
<1>1. it[p].links \in Int
  BY DEF InodeType
<1>2. \A k \in Int : [it EXCEPT ![p].links = k] \in [Inos -> InodeType]
  BY DEF InodeType
<1>3. \A k \in Int, i \in Inos : /\ [it EXCEPT ![p].links = k][i].type = it[i].type
                                 /\ [it EXCEPT ![p].links = k][i].size = it[i].size
                                 /\ [it EXCEPT ![p].links = k][i].blk = it[i].blk
  BY DEF InodeType
<1> QED
  BY <1>1, <1>2, <1>3 DEF inc_link, dec_link

\* What an entry of a directory refers to.
LEMMA SlotType ==
    ASSUME Types, NEW d \in Dirs, NEW s \in Slots
    PROVE  itable[d].blk \in Blocks /\ Slot(d, s) \in Cell
  BY SlotsInBlock DEF Types, TypeOK, DirBlocks, Dirs, Slot

LEMMA ChildType ==
    ASSUME Types, NEW d \in Dirs, NEW n, Found(d, n)
    PROVE  Child(d, n) \in Inos
  BY LookupFinds, SlotType DEF Child, Cell

LEMMA TypesInit == Init => Types
<1> SUFFICES ASSUME Init PROVE Types
  OBVIOUS
<1>1. Root \in Inos /\ 0 \in Blocks /\ 0..(NumReserved - 1) \subseteq Inos
  BY DEF Inos, Blocks
<1>2. FormatItable \in [Inos -> InodeType]
  BY <1>1, InodeTypes DEF FormatItable
<1>3. FormatSb \in SbType
  BY DEF FormatSb, SbType
<1>4. FormatArea \in AreaType
  BY <1>1, CellTypes DEF FormatArea, AreaType
<1>5. FormatDisk \in DiskType
  BY <1>1, <1>2, <1>3 DEF FormatDisk, DiskType
<1>6. /\ sb = FormatSb /\ blk_hint = 1 /\ ibmap = 0..(NumReserved - 1) /\ dbmap = {0}
      /\ itable = FormatItable /\ freed = FALSE /\ file_table = [f \in Fids |-> 0]
      /\ disk = FormatDisk /\ area = FormatArea
  BY DEF Init, Loaded, FormatDisk, FormatSb
<1>7. TypeOK
  <2>1. sb \in SbType /\ blk_hint \in 0..NumBlocks
    BY <1>3, <1>6
  <2>2. ibmap \subseteq Inos /\ dbmap \subseteq Blocks
    BY <1>1, <1>6
  <2>3. file_table \in [Fids -> Inos]
    BY <1>6 DEF Inos
  <2> QED
    BY <2>1, <2>2, <2>3, <1>2, <1>4, <1>5, <1>6 DEF TypeOK, AreaType, DiskType
<1>8. DirBlocks
  BY <1>1, <1>6 DEF DirBlocks, FormatItable, DirInode, ZeroInode
<1> QED
  BY <1>7, <1>8 DEF Types

LEMMA AreaTypes ==
    ASSUME Types, NEW d \in Dirs
    PROVE  /\ area \in AreaType
           /\ \A b \in Blocks, c \in [BlockSlots -> Cell] : [area EXCEPT ![b] = c] \in AreaType
           /\ \A a \in AreaType, s \in 0..DirSlots, c \in Cell :
                 WriteSlot(a, itable[d].blk, s, c) \in AreaType
           /\ \A a \in AreaType, s \in Slots : DeleteSlot(a, d, s) \in AreaType
<1>1. area \in AreaType
  BY DEF Types, TypeOK, AreaType
<1>2. itable[d].blk \in Int
  BY SlotType DEF Types, DirBlocks, Dirs, Blocks
<1>3. \A a \in AreaType, s \in 0..DirSlots, c \in Cell :
         WriteSlot(a, itable[d].blk, s, c) \in AreaType
  BY <1>2, WriteSlotType
<1>4. ASSUME NEW a \in AreaType, NEW s \in Slots
      PROVE  DeleteSlot(a, d, s) \in AreaType
  <2>1. [Slot(d, s) EXCEPT !.flag = "DELETED"] \in Cell
    BY SlotType, CellTypes
  <2> QED
    BY <2>1, <1>3 DEF DeleteSlot, Slots
<1>5. \A b \in Blocks, c \in [BlockSlots -> Cell] : [area EXCEPT ![b] = c] \in AreaType
  BY <1>1 DEF AreaType
<1> QED
  BY <1>1, <1>3, <1>4, <1>5

LEMMA MkdirTypes ==
    ASSUME Types, NEW p \in Dirs, NEW n \in Names, MkdirDone(p, n)
    PROVE  Types'
<1> DEFINE i == NextIno
           b == NextBlk
           a == WriteSlot(area, itable[p].blk, FreeSlot(p), Entry(n, i))
           it == [itable EXCEPT ![i] = DirInode(b)]
<1>1. i \in Inos /\ b \in Blocks /\ p \in Inos
  BY NextIsFree DEF MkdirDone, Dirs
<1>2. sb' \in SbType
  BY <1>1, SbTypes DEF Types, TypeOK, MkdirDone
<1>3. it \in [Inos -> InodeType] /\ itable' = inc_link(it, p)
  BY <1>1, InodeTypes DEF Types, TypeOK, MkdirDone
<1>4. itable' \in [Inos -> InodeType]
  BY <1>1, <1>3, LinkTypes
<1>5. area' \in AreaType
  <2>1. a \in AreaType
    BY <1>1, AreaTypes, CellTypes, FreeSlotFinds
  <2>2. area' = [a EXCEPT ![b] = NewDirBlock(i, p)]
    BY DEF MkdirDone
  <2> QED
    BY <2>1, <2>2, <1>1, CellTypes DEF AreaType
<1>6. ibmap' \subseteq Inos /\ dbmap' \subseteq Blocks
  BY <1>1 DEF Types, TypeOK, MkdirDone
<1>7. disk' \in DiskType
  BY <1>2, <1>4, <1>6 DEF MkdirDone, FlushAll, DiskType
<1>8. TypeOK'
  BY <1>2, <1>4, <1>5, <1>6, <1>7 DEF Types, TypeOK, MkdirDone, AreaType, DiskType
<1>9. DirBlocks'
  <2>1. \A d \in Inos : it[d].type = "DIR" => it[d].blk \in Blocks
    BY <1>1 DEF Types, TypeOK, DirBlocks, DirInode
  <2> QED
    BY <2>1, <1>1, <1>3, LinkTypes DEF DirBlocks
<1> QED
  BY <1>8, <1>9 DEF Types

LEMMA MkdirNoBlockTypes == ASSUME Types, MkdirNoBlock PROVE Types'
<1>1. NextIno \in Inos
  BY NextIsFree DEF MkdirNoBlock
<1>2. sb' \in SbType
  BY <1>1, SbTypes DEF Types, TypeOK, MkdirNoBlock
<1>3. TypeOK'
  BY <1>1, <1>2 DEF Types, TypeOK, MkdirNoBlock
<1> QED
  BY <1>3 DEF Types, DirBlocks, MkdirNoBlock

LEMMA RmdirTypes ==
    ASSUME Types, NEW p \in Dirs, NEW n \in Names, Rmdir(p, n)
    PROVE  Types'
<1> DEFINE x == Child(p, n)
           it == [itable EXCEPT ![x] = ZeroInode]
<1>1. x \in Inos /\ x \in Dirs /\ p \in Inos /\ LookupSlot(p, n) \in Slots
  BY LookupFinds DEF Rmdir, Dirs
<1>2. sb' \in SbType
  BY SbTypes DEF Types, TypeOK, Rmdir
<1>3. it \in [Inos -> InodeType] /\ itable' = dec_link(it, p)
  BY <1>1, InodeTypes DEF Types, TypeOK, Rmdir
<1>4. itable' \in [Inos -> InodeType]
  BY <1>1, <1>3, LinkTypes
<1>5. area' \in AreaType
  BY <1>1, AreaTypes, CellTypes, SlotType DEF Rmdir
<1>6. ibmap' \subseteq Inos /\ dbmap' \subseteq Blocks
  BY DEF Types, TypeOK, Rmdir
<1>7. disk' \in DiskType
  BY <1>2, <1>4, <1>6 DEF Rmdir, FlushAll, DiskType
<1>8. TypeOK'
  BY <1>2, <1>4, <1>5, <1>6, <1>7 DEF Types, TypeOK, Rmdir, AreaType, DiskType
<1>9. DirBlocks'
  <2>1. \A d \in Inos : it[d].type = "DIR" => it[d].blk \in Blocks
    BY <1>1 DEF Types, TypeOK, DirBlocks, ZeroInode
  <2> QED
    BY <2>1, <1>1, <1>3, LinkTypes DEF DirBlocks
<1> QED
  BY <1>8, <1>9 DEF Types

LEMMA OpenFidType ==
    ASSUME Types, NEW i \in Inos
    PROVE  OpenFid(i) \in [Fids -> Inos]
  BY DEF Types, TypeOK, OpenFid

LEMMA CreateTypes ==
    ASSUME Types, NEW p \in Dirs, NEW n \in Names, CreateDone(p, n)
    PROVE  Types'
<1> DEFINE i == NextIno
<1>1. i \in Inos
  BY NextIsFree DEF CreateDone
<1>2. sb' \in SbType
  BY <1>1, SbTypes DEF Types, TypeOK, CreateDone
<1>3. itable' \in [Inos -> InodeType]
  BY <1>1, InodeTypes DEF Types, TypeOK, CreateDone
<1>4. area' \in AreaType
  BY <1>1, AreaTypes, CellTypes, FreeSlotFinds DEF CreateDone
<1>5. ibmap' \subseteq Inos /\ file_table' \in [Fids -> Inos]
  BY <1>1, OpenFidType DEF Types, TypeOK, CreateDone
<1>6. disk' \in DiskType
  BY <1>2, <1>3, <1>5 DEF Types, TypeOK, CreateDone, DiskType
<1>7. TypeOK'
  BY <1>2, <1>3, <1>4, <1>5, <1>6 DEF Types, TypeOK, CreateDone, AreaType, DiskType
<1>8. DirBlocks'
  BY <1>1 DEF Types, TypeOK, DirBlocks, CreateDone, FileInode
<1> QED
  BY <1>7, <1>8 DEF Types

LEMMA OpenTypes ==
    ASSUME Types, NEW p \in Dirs, NEW n \in Names, Open(p, n)
    PROVE  Types'
<1>1. file_table' \in [Fids -> Inos]
  BY ChildType, OpenFidType DEF Open
<1> QED
  BY <1>1 DEF Types, TypeOK, DirBlocks, Open, mem

LEMMA ReleaseTypes == ASSUME Types, NEW f \in Fids, Release(f) PROVE Types'
<1>1. file_table' \in [Fids -> Inos]
  BY DEF Types, TypeOK, Release, Inos
<1> QED
  BY <1>1 DEF Types, TypeOK, DirBlocks, Release, mem

LEMMA WriteTypes == ASSUME Types, NEW f \in Fids, Write(f) PROVE Types'
<1> DEFINE i    == file_table[f]
           node == itable[i]
           home == IF node.type = "NONE" THEN 0 ELSE i
<1>1. i \in Inos /\ home \in Inos /\ node \in InodeType
  BY DEF Types, TypeOK, Inos
<1>2. CASE /\ NextBlk < NumBlocks
           /\ dbmap' = dbmap \cup {NextBlk}
           /\ sb' = dec_free_blocks(sb)
           /\ itable' = [itable EXCEPT ![home] =
                               [node EXCEPT !.size = 1, !.blk = NextBlk]]
           /\ area' = WriteSlot(area, NextBlk, 0, DataSlot)
  <2>1. NextBlk \in Blocks /\ NextBlk \in Int
    BY <1>2, NextIsFree DEF Blocks
  <2>2. /\ sb' \in SbType /\ dbmap' \subseteq Blocks
        /\ itable' \in [Inos -> InodeType]
    BY <1>1, <1>2, <2>1, SbTypes, InodeTypes DEF Types, TypeOK
  <2>3. area' \in AreaType
    <3>1. area \in AreaType /\ DataSlot \in Cell /\ 0 \in Int
      BY CellTypes DEF Types, TypeOK, AreaType
    <3>2. WriteSlot(area, NextBlk, 0, DataSlot) \in AreaType
      BY <2>1, <3>1, WriteSlotType
    <3> QED
      BY <1>2, <3>2
  <2>4. DirBlocks'
    BY <1>1, <1>2, <2>1 DEF Types, TypeOK, DirBlocks, InodeType
  <2>5. disk' \in DiskType
    BY <2>2 DEF Write, Types, TypeOK, DiskType
  <2> QED
    BY <2>2, <2>3, <2>4, <2>5 DEF Write, Types, TypeOK, AreaType, DiskType
<1>3. CASE /\ itable' = [itable EXCEPT ![home] = [node EXCEPT !.size = 1]]
           /\ area' = [area EXCEPT ![node.blk] = [ZeroBlock EXCEPT ![0] = DataSlot]]
           /\ UNCHANGED <<sb, dbmap>>
  <2>1. itable' \in [Inos -> InodeType]
    BY <1>1, <1>3, InodeTypes DEF Types, TypeOK
  <2>2. area' \in AreaType
    BY <1>3, CellTypes DEF Types, TypeOK, AreaType
  <2>3. DirBlocks'
    BY <1>1, <1>3 DEF Types, TypeOK, DirBlocks, InodeType
  <2>4. disk' \in DiskType
    BY <1>3, <2>1 DEF Write, Types, TypeOK, DiskType
  <2> QED
    BY <1>3, <2>1, <2>2, <2>3, <2>4 DEF Write, Types, TypeOK, AreaType, DiskType
<1> QED
  BY <1>2, <1>3 DEF Write

LEMMA UnlinkTypes ==
    ASSUME Types, NEW p \in Dirs, NEW n \in Names, Unlink(p, n)
    PROVE  Types'
<1> DEFINE x == Child(p, n)
           z == [area EXCEPT ![itable[x].blk] = ZeroBlock]
<1>1. x \in Inos /\ p \in Inos /\ LookupSlot(p, n) \in Slots
  BY LookupFinds, ChildType DEF Unlink, Dirs
<1>2. sb' \in SbType
  BY SbTypes DEF Types, TypeOK, Unlink
<1>3. itable' \in [Inos -> InodeType]
  BY <1>1, InodeTypes DEF Types, TypeOK, Unlink
<1>4. area' \in AreaType
  <2>1. z \in AreaType
    BY CellTypes DEF Types, TypeOK, AreaType
  <2> QED
    BY <1>1, <2>1, AreaTypes DEF Unlink
<1>5. ibmap' \subseteq Inos /\ dbmap' \subseteq Blocks
  BY DEF Types, TypeOK, Unlink
<1>6. disk' \in DiskType
  BY <1>2, <1>3, <1>5 DEF Unlink, FlushAll, DiskType
<1>7. TypeOK'
  BY <1>2, <1>3, <1>4, <1>5, <1>6 DEF Types, TypeOK, Unlink, AreaType, DiskType
<1>8. DirBlocks'
  BY <1>1 DEF Types, TypeOK, DirBlocks, Unlink, ZeroInode
<1> QED
  BY <1>7, <1>8 DEF Types

LEMMA RenameInPlaceTypes ==
    ASSUME Types, NEW p \in Dirs, NEW n \in Names, NEW m \in Names, RenameInPlace(p, n, m)
    PROVE  Types'
<1>1. LookupSlot(p, n) \in Slots /\ LookupSlot(p, n) \in 0..DirSlots
  BY LookupFinds DEF RenameInPlace, Slots
<1>2. area' \in AreaType
  BY <1>1, AreaTypes, SlotType, CellTypes DEF RenameInPlace
<1> QED
  BY <1>2 DEF Types, TypeOK, DirBlocks, AreaType, RenameInPlace, mem

LEMMA MoveEntryTypes ==
    ASSUME Types, NEW p \in Dirs, NEW n \in Names, NEW t \in Dirs, Found(p, n),
           MoveEntry(p, n, t)
    PROVE  Types'
<1>1. LookupSlot(p, n) \in Slots
  BY LookupFinds
<1>2. area' \in AreaType
  BY <1>1, AreaTypes, SlotType, FreeSlotFinds DEF MoveEntry
<1> QED
  BY <1>2 DEF Types, TypeOK, DirBlocks, AreaType, MoveEntry, mem

LEMMA StillTypes ==
    ASSUME Types, NoInode \/ UNCHANGED vars \/ \E f \in Fids : WriteNoBlock(f)
    PROVE  Types'
<1>1. CASE NoInode
  BY <1>1 DEF NoInode, Types, TypeOK, DirBlocks
<1>2. CASE UNCHANGED vars
  BY <1>2 DEF vars, mem, Types, TypeOK, DirBlocks
<1>3. ASSUME NEW f \in Fids, WriteNoBlock(f) PROVE Types'
  BY <1>3 DEF WriteNoBlock, Types, TypeOK, DirBlocks
<1> QED
  BY <1>1, <1>2, <1>3

-----------------------------------------------------------------------------
(* The cases of a step.  The proofs below treat them one by one.           *)

MkdirStep   == \E p \in Dirs, n \in Names : MkdirDone(p, n) /\ ~Found(p, n)
RmdirStep   == \E p \in Dirs, n \in Names : Rmdir(p, n)
CreateStep  == \E p \in Dirs, n \in Names : CreateDone(p, n) /\ ~Found(p, n)
OpenStep    == \E p \in Dirs, n \in Names : Open(p, n)
UnlinkStep  == \E p \in Dirs, n \in Names : Unlink(p, n)
InPlaceStep == \E p \in Dirs, n, m \in Names : RenameInPlace(p, n, m)
MoveStep    == \E p, t \in Dirs, n \in Names : p # t /\ Found(p, n) /\ MoveEntry(p, n, t)
HandleStep  == \E f \in Fids : Release(f) \/ Write(f)
StillStep   == \/ NoInode \/ UNCHANGED vars
               \/ \E f \in Fids : WriteNoBlock(f)

(***************************************************************************)
(* Every step of Lab4FS is one of them.                                    *)
(***************************************************************************)
LEMMA StepCases ==
    ASSUME [Next]_vars
    PROVE  \/ MkdirStep \/ MkdirNoBlock \/ RmdirStep \/ CreateStep \/ OpenStep
           \/ UnlinkStep \/ InPlaceStep \/ MoveStep \/ HandleStep \/ StillStep
           \/ Restart
<1>1. NamedDirs \subseteq Dirs
  BY DEF NamedDirs
<1>2. ASSUME NEW p \in NamedDirs, NEW n \in Names, NEW t \in NamedDirs, NEW m \in Names,
             RenameAcross(p, n, t, m) \/ RenameInto(p, n, t, m)
      PROVE  MoveStep
  <2>1. Found(p, n) /\ p \in Dirs /\ t \in Dirs
    BY <1>1, <1>2 DEF RenameAcross, RenameInto
  <2>2. Child(t, m) \in Walk({Child(t, m)})
    BY DEF Walk, Closure
  <2>3. \/ p # t /\ MoveEntry(p, n, t)
        \/ p # Child(t, m) /\ Child(t, m) \in Dirs /\ MoveEntry(p, n, Child(t, m))
    BY <1>2, <2>2 DEF RenameAcross, RenameInto
  <2> QED
    BY <2>1, <2>3 DEF MoveStep
<1>3. ASSUME NEW p \in NamedDirs, NEW n \in Names,
             Mkdir(p, n) \/ Rmdir(p, n) \/ Create(p, n) \/ Open(p, n) \/ Unlink(p, n)
      PROVE  MkdirStep \/ MkdirNoBlock \/ RmdirStep \/ CreateStep \/ OpenStep
             \/ UnlinkStep \/ StillStep
  BY <1>1, <1>3 DEF Mkdir, Create, MkdirStep, RmdirStep, CreateStep, OpenStep,
                    UnlinkStep, StillStep
<1>4. ASSUME NEW p \in NamedDirs, NEW n \in Names, NEW m \in Names, RenameInPlace(p, n, m)
      PROVE  InPlaceStep
  BY <1>1, <1>4 DEF InPlaceStep
<1>5. ASSUME NEW f \in Fids, Release(f) \/ Write(f) \/ WriteNoBlock(f)
      PROVE  HandleStep \/ StillStep
  BY <1>5 DEF HandleStep, StillStep
<1> QED
  BY <1>2, <1>3, <1>4, <1>5 DEF Next, StillStep

(***************************************************************************)
(* The inode table and the block bitmap on the device are those in memory. *)
(***************************************************************************)
Stored == /\ disk.itable = itable
          /\ disk.dbmap = dbmap
          /\ disk.sb.free_blocks = sb.free_blocks

LEMMA StoredInit == Init => Stored
  BY DEF Init, Loaded, FormatDisk, Stored

LEMMA StoredStep ==
    ASSUME Types, Stored, [Next]_vars
    PROVE  Stored'
<1>1. ASSUME NEW s \in SbType, NEW i \in Inos
      PROVE  /\ take_ino(s, i).free_blocks = s.free_blocks
             /\ dec_free_inodes(s).free_blocks = s.free_blocks
  BY DEF SbType, take_ino, dec_free_inodes
<1>2. sb \in SbType
  BY DEF Types, TypeOK
<1>3. CASE MkdirStep \/ RmdirStep \/ UnlinkStep
  <2>1. FlushAll
    BY <1>3 DEF MkdirStep, RmdirStep, UnlinkStep, MkdirDone, Rmdir, Unlink
  <2> QED
    BY <2>1 DEF FlushAll, Stored
<1>4. CASE MkdirNoBlock
  BY <1>1, <1>2, <1>4, NextIsFree DEF MkdirNoBlock, Stored
<1>5. CASE CreateStep
  BY <1>5 DEF CreateStep, CreateDone, Stored, Types, TypeOK
<1>6. CASE OpenStep \/ InPlaceStep \/ MoveStep \/ StillStep
  BY <1>6 DEF OpenStep, InPlaceStep, MoveStep, StillStep, Open, RenameInPlace, MoveEntry,
              NoInode, WriteNoBlock, vars, mem, Stored
<1>7. CASE HandleStep
  BY <1>7 DEF HandleStep, Release, Write, Stored, mem, Types, TypeOK
<1>8. CASE Restart
  BY <1>8 DEF Restart, Stored
<1> QED
  BY <1>3, <1>4, <1>5, <1>6, <1>7, <1>8, StepCases

LEMMA RestartTypes == ASSUME Types, Stored, Restart PROVE Types'
<1>1. disk.sb.ino \in 0..NumInodes /\ disk.sb.blk \in 0..NumBlocks /\ disk.sb \in SbType
  BY DEF Types, TypeOK, SbType
<1>2. [f \in Fids |-> 0] \in [Fids -> Inos]
  BY DEF Inos
<1>3. TypeOK'
  BY <1>1, <1>2 DEF Restart, Types, TypeOK
<1> QED
  BY <1>3 DEF Restart, Stored, Types, DirBlocks

LEMMA TypesStep ==
    ASSUME Types, Stored, [Next]_vars
    PROVE  Types'
<1>1. CASE MkdirStep
  BY <1>1, MkdirTypes DEF MkdirStep
<1>2. CASE MkdirNoBlock
  BY <1>2, MkdirNoBlockTypes
<1>3. CASE RmdirStep
  BY <1>3, RmdirTypes DEF RmdirStep
<1>4. CASE CreateStep
  BY <1>4, CreateTypes DEF CreateStep
<1>5. CASE OpenStep
  BY <1>5, OpenTypes DEF OpenStep
<1>6. CASE UnlinkStep
  BY <1>6, UnlinkTypes DEF UnlinkStep
<1>7. CASE InPlaceStep
  BY <1>7, RenameInPlaceTypes DEF InPlaceStep
<1>8. CASE MoveStep
  BY <1>8, MoveEntryTypes DEF MoveStep
<1>9. CASE HandleStep
  BY <1>9, ReleaseTypes, WriteTypes DEF HandleStep
<1>10. CASE StillStep
  BY <1>10, StillTypes DEF StillStep
<1>11. CASE Restart
  BY <1>11, RestartTypes
<1> QED
  BY <1>1, <1>2, <1>3, <1>4, <1>5, <1>6, <1>7, <1>8, <1>9, <1>10, <1>11, StepCases

(***************************************************************************)
(* The buffers, the device and the handles hold values of their types, in  *)
(* particular no handler indexes a bitmap or a table outside its range.    *)
(***************************************************************************)
THEOREM TypeCorrect == Spec => []TypeOK
<1>1. Init => Types /\ Stored
  BY TypesInit, StoredInit
<1>2. (Types /\ Stored) /\ [Next]_vars => (Types /\ Stored)'
  BY TypesStep, StoredStep
<1>3. Types => TypeOK
  BY DEF Types
<1> QED
  BY <1>1, <1>2, <1>3, PTL DEF Spec

-----------------------------------------------------------------------------
(* Numbers: every number in use, in an entry or in a handle is below the   *)
(* hint that the device holds, so the hint is the next number given out.   *)

HintsKept == /\ NumReserved <= disk.sb.ino
             /\ disk.sb.ino <= sb.ino

BitsKept == /\ \A i \in ibmap : i < sb.ino
            /\ \A i \in disk.ibmap : i < disk.sb.ino
            /\ disk.ibmap \subseteq ibmap

LiveKept == \A i \in Inos : itable[i].type # "NONE" => i \in disk.ibmap /\ i >= Root

HandlesBelow == \A f \in Fids : file_table[f] < disk.sb.ino

CellsBelow(a, k) == \A b \in Blocks, s \in BlockSlots : a[b][s].ino < k

Numbers == HintsKept /\ BitsKept /\ LiveKept /\ HandlesBelow /\ CellsBelow(area, disk.sb.ino)

LEMMA NumbersInit == Init => Numbers
<1> SUFFICES ASSUME Init PROVE Numbers
  OBVIOUS
<1>1. /\ sb = FormatSb /\ ibmap = 0..(NumReserved - 1)
      /\ itable = FormatItable /\ file_table = [f \in Fids |-> 0]
      /\ disk = FormatDisk /\ area = FormatArea
  BY DEF Init, Loaded, FormatDisk, FormatSb
<1>2. disk.sb.ino = 3 /\ sb.ino = 3 /\ disk.ibmap = 0..2
  BY <1>1 DEF FormatDisk, FormatSb
<1>3. HintsKept /\ BitsKept /\ HandlesBelow
  BY <1>1, <1>2 DEF HintsKept, BitsKept, HandlesBelow
<1>4. LiveKept
  BY <1>1, <1>2 DEF LiveKept, FormatItable, ZeroInode
<1>5. CellsBelow(area, disk.sb.ino)
  <2>1. \A s \in BlockSlots : ZeroBlock[s].ino = 0
    BY DEF ZeroBlock, EmptySlot
  <2>2. \A s \in BlockSlots : NewDirBlock(Root, Root)[s].ino < 3
    BY <2>1 DEF NewDirBlock, Entry, ZeroBlock
  <2>3. DataSlot.ino < 3
    BY DEF DataSlot
  <2>4. \A b \in Blocks, s \in BlockSlots : FormatArea[b][s].ino < 3
    BY <2>2, <2>3 DEF FormatArea
  <2> QED
    BY <1>1, <1>2, <2>4 DEF CellsBelow
<1> QED
  BY <1>3, <1>4, <1>5 DEF Numbers

(***************************************************************************)
(* alloc_new_inode gives out the number the hint names.                    *)
(***************************************************************************)
LEMMA NextInoIsHint == ASSUME Types, Numbers PROVE NextIno = sb.ino
<1>1. sb.ino \in 0..NumInodes /\ sb.ino \notin ibmap
  BY DEF Types, TypeOK, SbType, Numbers, BitsKept
<1> QED
  BY <1>1, ScanHint DEF NextIno

(***************************************************************************)
(* Writing entries whose numbers are low keeps all numbers low.            *)
(***************************************************************************)
LEMMA WriteSlotBelow ==
    ASSUME NEW k \in Int, NEW a \in AreaType, CellsBelow(a, k),
           NEW b \in Int, NEW s \in Int, NEW c \in Cell, c.ino < k
    PROVE  CellsBelow(WriteSlot(a, b, s, c), k)
<1>1. \A j, t : CellsBelow([a EXCEPT ![j][t] = c], k)
  BY DEF AreaType, CellsBelow
<1> QED
  BY <1>1 DEF WriteSlot

LEMMA BlockBelow ==
    ASSUME NEW k \in Int, NEW a \in AreaType, CellsBelow(a, k), NEW b,
           NEW c, \A s \in BlockSlots : c[s].ino < k
    PROVE  CellsBelow([a EXCEPT ![b] = c], k)
  BY DEF AreaType, CellsBelow

LEMMA DeleteSlotBelow ==
    ASSUME Types, NEW k \in Int, NEW a \in AreaType, CellsBelow(a, k),
           CellsBelow(area, k), NEW d \in Dirs, NEW s \in Slots
    PROVE  CellsBelow(DeleteSlot(a, d, s), k)
<1>1. itable[d].blk \in Blocks /\ itable[d].blk \in Int /\ s \in Int
  BY SlotType DEF Blocks, Slots
<1>2. Slot(d, s).ino < k /\ Slot(d, s) \in Cell
  BY <1>1, SlotType, SlotsInBlock DEF CellsBelow, Slot
<1>3. /\ [Slot(d, s) EXCEPT !.flag = "DELETED"] \in Cell
      /\ [Slot(d, s) EXCEPT !.flag = "DELETED"].ino < k
  BY <1>2, CellTypes DEF Cell
<1> QED
  BY <1>1, <1>3, WriteSlotBelow DEF DeleteSlot

(***************************************************************************)
(* The numbers in the blocks that handlers write whole.                    *)
(***************************************************************************)
LEMMA BlockNumbers ==
    /\ \A s \in BlockSlots : ZeroBlock[s].ino = 0
    /\ \A s \in BlockSlots : [ZeroBlock EXCEPT ![0] = DataSlot][s].ino = 0
    /\ \A i, p, s : s \in BlockSlots => NewDirBlock(i, p)[s].ino \in {0, i, p}
<1>1. \A s \in BlockSlots : ZeroBlock[s].ino = 0
  BY DEF ZeroBlock, EmptySlot
<1> QED
  BY <1>1 DEF ZeroBlock, NewDirBlock, Entry, DataSlot

LEMMA RaisedBound ==
    ASSUME Types, Numbers, NEW k \in Int, disk.sb.ino <= k
    PROVE  CellsBelow(area, k) /\ 0 < k
<1>1. disk.sb.ino \in Int /\ NumReserved <= disk.sb.ino
  BY DEF Types, TypeOK, SbType, Numbers, HintsKept
<1>2. \A b \in Blocks, s \in BlockSlots : area[b][s] \in Cell
  BY DEF Types, TypeOK
<1>3. \A c \in Cell : c.ino \in Int
  <2>1. \A c \in Cell : c.ino \in Inos
    BY DEF Cell
  <2> QED
    BY <2>1 DEF Inos
<1> QED
  BY <1>1, <1>2, <1>3 DEF Numbers, CellsBelow

(***************************************************************************)
(* Bits and hints after a number is taken and flushed.                     *)
(***************************************************************************)
LEMMA TakenBits ==
    ASSUME Types, Numbers, ibmap' = ibmap \cup {sb.ino},
           sb'.ino = sb.ino + 1, disk'.sb = sb', disk'.ibmap = ibmap'
    PROVE  HintsKept' /\ BitsKept'
<1>1. disk.sb.ino \in Int /\ sb.ino \in Int
  BY DEF Types, TypeOK, SbType
<1>2. 3 <= disk.sb.ino /\ disk.sb.ino <= sb.ino
  BY DEF Numbers, HintsKept
<1>3. \A i \in ibmap : i \in Int /\ i < sb.ino
  BY DEF Types, TypeOK, Inos, Numbers, BitsKept
<1>4. HintsKept'
  BY <1>1, <1>2 DEF HintsKept
<1>5. \A i \in ibmap' : i < sb.ino + 1
  BY <1>1, <1>3
<1>6. BitsKept'
  BY <1>5 DEF BitsKept
<1> QED
  BY <1>4, <1>6

LEMMA TakenNumber ==
    ASSUME NEW s \in SbType, NEW i \in Inos
    PROVE  /\ take_ino(s, i).ino = i + 1
           /\ dec_free_inodes(take_ino(s, i)).ino = i + 1
           /\ \A b : [dec_free_blocks(take_ino(s, i)) EXCEPT !.blk = b].ino = i + 1
           /\ inc_free_inodes(s).ino = s.ino
           /\ dec_free_blocks(s).ino = s.ino
           /\ inc_free_blocks(inc_free_inodes(s)).ino = s.ino
           /\ inc_free_inodes(inc_free_blocks(s)).ino = s.ino
<1>1. take_ino(s, i).ino = i + 1 /\ take_ino(s, i) \in SbType
  <2>1. take_ino(s, i) \in SbType
    BY SbTypes
  <2>2. [s EXCEPT !.ino = i + 1].ino = i + 1
    BY DEF SbType
  <2>3. take_ino(s, i).ino = i + 1
    BY <2>2 DEF take_ino, dec_free_inodes, SbType
  <2> QED
    BY <2>1, <2>3
<1> QED
  BY <1>1 DEF SbType, inc_free_inodes, inc_free_blocks, dec_free_inodes, dec_free_blocks

LEMMA MkdirNumbers ==
    ASSUME Types, Stored, Numbers, NEW p \in Dirs, NEW n \in Names, MkdirDone(p, n)
    PROVE  Numbers'
<1> DEFINE i == NextIno
           b == NextBlk
           it == [itable EXCEPT ![i] = DirInode(b)]
           a == WriteSlot(area, itable[p].blk, FreeSlot(p), Entry(n, i))
<1>1. i \in Inos /\ i = sb.ino /\ p \in Inos /\ b \in Blocks /\ sb \in SbType
  BY NextIsFree, NextInoIsHint DEF MkdirDone, Dirs, Types, TypeOK
<1>2. sb'.ino = i + 1 /\ disk'.sb = sb' /\ disk'.ibmap = ibmap' /\ ibmap' = ibmap \cup {i}
  BY <1>1, TakenNumber DEF MkdirDone, FlushAll
<1>3. disk.sb.ino \in Int /\ 3 <= disk.sb.ino /\ disk.sb.ino <= i /\ i \in Int
  BY <1>1 DEF Types, TypeOK, SbType, Numbers, HintsKept, Inos
<1>4. HintsKept' /\ BitsKept'
  BY <1>1, <1>2, TakenBits
<1>6. LiveKept'
  <2>1. it \in [Inos -> InodeType] /\ itable' = inc_link(it, p)
    BY <1>1, InodeTypes DEF Types, TypeOK, MkdirDone
  <2>2. \A j \in Inos : itable'[j].type = it[j].type
    BY <2>1, <1>1, LinkTypes
  <2>3. \A j \in Inos : it[j].type # "NONE" => j = i \/ itable[j].type # "NONE"
    BY DEF Types, TypeOK
  <2>4. \A j \in Inos : itable[j].type # "NONE" => j \in ibmap /\ j >= 2
    BY DEF Numbers, LiveKept, BitsKept
  <2> QED
    BY <2>2, <2>3, <2>4, <1>1, <1>2, <1>3 DEF LiveKept
<1>7. HandlesBelow'
  <2>1. \A f \in Fids : file_table'[f] \in Int /\ file_table'[f] < disk.sb.ino
    BY DEF MkdirDone, Numbers, HandlesBelow, Types, TypeOK, Inos
  <2> QED
    BY <2>1, <1>2, <1>3 DEF HandlesBelow
<1>8. CellsBelow(area, i + 1) /\ 0 < i + 1
  BY <1>3, RaisedBound
<1>9. CellsBelow(area', i + 1)
  <2>1. area \in AreaType /\ itable[p].blk \in Int /\ FreeSlot(p) \in Int
    BY AreaTypes, SlotType, FreeSlotFinds DEF Types, DirBlocks, Dirs, Blocks
  <2>2. Entry(n, i) \in Cell /\ Entry(n, i).ino < i + 1
    BY <1>1, <1>3, CellTypes DEF Entry
  <2>3. a \in AreaType /\ CellsBelow(a, i + 1)
    BY <2>1, <2>2, <1>3, <1>8, WriteSlotType, WriteSlotBelow
  <2>4. \A s \in BlockSlots : NewDirBlock(i, p)[s].ino < i + 1
    <3>1. p < i + 1 /\ 0 < i + 1 /\ i < i + 1
      BY <1>1, <1>3 DEF Numbers, LiveKept, BitsKept, Dirs, Inos, Types, TypeOK
    <3> QED
      BY <3>1, BlockNumbers
  <2>5. area' = [a EXCEPT ![b] = NewDirBlock(i, p)]
    BY DEF MkdirDone
  <2>6. i + 1 \in Int
    BY <1>3
  <2>7. CellsBelow([a EXCEPT ![b] = NewDirBlock(i, p)], i + 1)
    BY <2>3, <2>4, <2>6, BlockBelow
  <2> QED
    BY <2>5, <2>7
<1> QED
  BY <1>2, <1>4, <1>6, <1>7, <1>9 DEF Numbers

LEMMA CreateNumbers ==
    ASSUME Types, Stored, Numbers, NEW p \in Dirs, NEW n \in Names, CreateDone(p, n)
    PROVE  Numbers'
<1> DEFINE i == NextIno
<1>1. i \in Inos /\ i = sb.ino /\ sb \in SbType
  BY NextIsFree, NextInoIsHint DEF CreateDone, Types, TypeOK
<1>2. /\ sb'.ino = i + 1 /\ disk'.sb = sb' /\ disk'.ibmap = ibmap'
      /\ ibmap' = ibmap \cup {i}
  BY <1>1, TakenNumber DEF CreateDone, Types, TypeOK
<1>3. disk.sb.ino \in Int /\ 3 <= disk.sb.ino /\ disk.sb.ino <= i /\ i \in Int
  BY <1>1 DEF Types, TypeOK, SbType, Numbers, HintsKept, Inos
<1>4. HintsKept' /\ BitsKept'
  BY <1>1, <1>2, TakenBits
<1>6. LiveKept'
  <2>1. \A j \in Inos : itable'[j].type # "NONE" => j = i \/ itable[j].type # "NONE"
    BY DEF Types, TypeOK, CreateDone
  <2>2. \A j \in Inos : itable[j].type # "NONE" => j \in ibmap /\ j >= 2
    BY DEF Numbers, LiveKept, BitsKept
  <2> QED
    BY <2>1, <2>2, <1>1, <1>2, <1>3 DEF LiveKept
<1>7. HandlesBelow'
  <2>1. \A f \in Fids : file_table[f] \in Int /\ file_table[f] < disk.sb.ino
    BY DEF Numbers, HandlesBelow, Types, TypeOK, Inos
  <2>2. \A f \in Fids : file_table'[f] = file_table[f] \/ file_table'[f] = i
    BY DEF CreateDone, OpenFid, Types, TypeOK
  <2> QED
    BY <2>1, <2>2, <1>2, <1>3 DEF HandlesBelow
<1>8. CellsBelow(area, i + 1) /\ 0 < i + 1
  BY <1>3, RaisedBound
<1>9. CellsBelow(area', i + 1)
  <2>1. area \in AreaType /\ itable[p].blk \in Int /\ FreeSlot(p) \in Int
    BY AreaTypes, SlotType, FreeSlotFinds DEF Types, DirBlocks, Dirs, Blocks
  <2>2. Entry(n, i) \in Cell /\ Entry(n, i).ino < i + 1
    BY <1>1, <1>3, CellTypes DEF Entry
  <2> QED
    BY <2>1, <2>2, <1>3, <1>8, WriteSlotBelow DEF CreateDone
<1> QED
  BY <1>2, <1>4, <1>6, <1>7, <1>9 DEF Numbers

LEMMA RmdirNumbers ==
    ASSUME Types, Stored, Numbers, NEW p \in Dirs, NEW n \in Names, Rmdir(p, n)
    PROVE  Numbers'
<1> DEFINE x == Child(p, n)
           it == [itable EXCEPT ![x] = ZeroInode]
           k == sb.ino
<1>1. x \in Inos /\ p \in Inos /\ LookupSlot(p, n) \in Slots /\ sb \in SbType
  BY LookupFinds DEF Rmdir, Dirs, Types, TypeOK
<1>2. sb'.ino = k /\ disk'.sb = sb' /\ disk'.ibmap = ibmap' /\ ibmap' = ibmap \ {x}
  BY <1>1, TakenNumber DEF Rmdir, FlushAll
<1>3. disk.sb.ino \in Int /\ 3 <= disk.sb.ino /\ disk.sb.ino <= k /\ k \in Int
  BY <1>1 DEF Types, TypeOK, SbType, Numbers, HintsKept
<1>4. HintsKept' /\ BitsKept'
  BY <1>2, <1>3 DEF HintsKept, BitsKept, Numbers
<1>5. LiveKept'
  <2>1. it \in [Inos -> InodeType] /\ itable' = dec_link(it, p)
    BY <1>1, InodeTypes DEF Types, TypeOK, Rmdir
  <2>2. \A j \in Inos : itable'[j].type = it[j].type
    BY <2>1, <1>1, LinkTypes
  <2>3. \A j \in Inos : it[j].type # "NONE" => j # x /\ itable[j].type # "NONE"
    BY DEF Types, TypeOK, ZeroInode
  <2>4. \A j \in Inos : itable[j].type # "NONE" => j \in ibmap /\ j >= 2
    BY DEF Numbers, LiveKept, BitsKept
  <2> QED
    BY <2>2, <2>3, <2>4, <1>2 DEF LiveKept
<1>6. HandlesBelow'
  <2>1. \A f \in Fids : file_table'[f] \in Int /\ file_table'[f] < disk.sb.ino
    BY DEF Rmdir, Numbers, HandlesBelow, Types, TypeOK, Inos
  <2> QED
    BY <2>1, <1>2, <1>3 DEF HandlesBelow
<1>7. CellsBelow(area, k) /\ 0 < k
  BY <1>3, RaisedBound
<1>8. CellsBelow(area', k)
  <2> DEFINE z == [area EXCEPT ![itable[x].blk] = ZeroBlock]
  <2>1. area \in AreaType /\ z \in AreaType
    BY AreaTypes, CellTypes DEF Types, TypeOK, AreaType
  <2>2. CellsBelow(z, k)
    <3>1. \A s \in BlockSlots : ZeroBlock[s].ino < k
      BY <1>3, <1>7, BlockNumbers
    <3> QED
      BY <1>3, <1>7, <2>1, <3>1, BlockBelow
  <2>3. area' = DeleteSlot(z, p, LookupSlot(p, n))
    BY DEF Rmdir
  <2> QED
    BY <2>1, <2>2, <2>3, <1>1, <1>3, <1>7, DeleteSlotBelow
<1> QED
  BY <1>2, <1>4, <1>5, <1>6, <1>8 DEF Numbers

LEMMA UnlinkNumbers ==
    ASSUME Types, Stored, Numbers, NEW p \in Dirs, NEW n \in Names, Unlink(p, n)
    PROVE  Numbers'
<1> DEFINE x == Child(p, n)
           z == [area EXCEPT ![itable[x].blk] = ZeroBlock]
           k == sb.ino
<1>1. x \in Inos /\ LookupSlot(p, n) \in Slots /\ sb \in SbType
  BY LookupFinds, ChildType DEF Unlink, Types, TypeOK
<1>2. sb'.ino = k /\ disk'.sb = sb' /\ disk'.ibmap = ibmap' /\ ibmap' = ibmap \ {x}
  <2>1. sb' = inc_free_inodes(sb) \/ sb' = inc_free_inodes(inc_free_blocks(sb))
    BY DEF Unlink
  <2> QED
    BY <2>1, <1>1, TakenNumber DEF Unlink, FlushAll
<1>3. disk.sb.ino \in Int /\ 3 <= disk.sb.ino /\ disk.sb.ino <= k /\ k \in Int
  BY <1>1 DEF Types, TypeOK, SbType, Numbers, HintsKept
<1>4. HintsKept' /\ BitsKept'
  BY <1>2, <1>3 DEF HintsKept, BitsKept, Numbers
<1>5. LiveKept'
  <2>1. \A j \in Inos : itable'[j].type # "NONE" => j # x /\ itable[j].type # "NONE"
    BY DEF Types, TypeOK, ZeroInode, Unlink
  <2>2. \A j \in Inos : itable[j].type # "NONE" => j \in ibmap /\ j >= 2
    BY DEF Numbers, LiveKept, BitsKept
  <2> QED
    BY <2>1, <2>2, <1>2 DEF LiveKept
<1>6. HandlesBelow'
  <2>1. \A f \in Fids : file_table'[f] \in Int /\ file_table'[f] < disk.sb.ino
    BY DEF Unlink, Numbers, HandlesBelow, Types, TypeOK, Inos
  <2> QED
    BY <2>1, <1>2, <1>3 DEF HandlesBelow
<1>7. CellsBelow(area, k) /\ 0 < k
  BY <1>3, RaisedBound
<1>8. CellsBelow(area', k)
  <2>1. area \in AreaType /\ z \in AreaType
    BY AreaTypes, CellTypes DEF Types, TypeOK, AreaType
  <2>2. CellsBelow(z, k)
    <3>1. \A s \in BlockSlots : ZeroBlock[s].ino < k
      BY <1>3, <1>7, BlockNumbers
    <3> QED
      BY <1>3, <1>7, <2>1, <3>1, BlockBelow
  <2>3. \/ area' = DeleteSlot(area, p, LookupSlot(p, n))
        \/ area' = DeleteSlot(z, p, LookupSlot(p, n))
    BY DEF Unlink
  <2> QED
    BY <2>1, <2>2, <2>3, <1>1, <1>3, <1>7, DeleteSlotBelow
<1> QED
  BY <1>2, <1>4, <1>5, <1>6, <1>8 DEF Numbers

LEMMA RenameNumbers ==
    ASSUME Types, Numbers, InPlaceStep \/ MoveStep
    PROVE  Numbers'
<1> DEFINE k == disk.sb.ino
<1>1. k \in Int /\ area \in AreaType /\ CellsBelow(area, k)
  BY DEF Types, TypeOK, SbType, AreaType, Numbers
<1>2. \A d \in Dirs, s \in Slots : Slot(d, s) \in Cell /\ Slot(d, s).ino < k
  BY <1>1, SlotType, SlotsInBlock DEF Slot, CellsBelow
<1>3. UNCHANGED <<mem, file_table, disk>> 
  BY DEF InPlaceStep, MoveStep, RenameInPlace, MoveEntry
<1>4. CellsBelow(area', k)
  <2>1. CASE InPlaceStep
    <3>1. PICK p \in Dirs, n, m \in Names : RenameInPlace(p, n, m)
      BY <2>1 DEF InPlaceStep
    <3> DEFINE s == LookupSlot(p, n)
               c == [Slot(p, s) EXCEPT !.name = m]
    <3>2. s \in Slots /\ s \in Int /\ itable[p].blk \in Int
      BY <3>1, LookupFinds, SlotType DEF RenameInPlace, Slots, Blocks
    <3>3. c \in Cell /\ c.ino < k
      BY <1>2, <3>2, CellTypes DEF Cell
    <3>4. area' = WriteSlot(area, itable[p].blk, s, c)
      BY <3>1 DEF RenameInPlace
    <3> QED
      BY <1>1, <3>2, <3>3, <3>4, WriteSlotBelow
  <2>2. CASE MoveStep
    <3>1. PICK p \in Dirs, t \in Dirs, n \in Names : Found(p, n) /\ MoveEntry(p, n, t)
      BY <2>2 DEF MoveStep
    <3> DEFINE s == LookupSlot(p, n)
               c == Slot(p, s)
               w == WriteSlot(area, itable[t].blk, FreeSlot(t), c)
    <3>2. s \in Slots /\ itable[t].blk \in Int /\ FreeSlot(t) \in Int
      BY <3>1, LookupFinds, SlotType, FreeSlotFinds DEF Slots, Blocks
    <3>3. c \in Cell /\ c.ino < k
      BY <1>2, <3>2
    <3>4. w \in AreaType /\ CellsBelow(w, k)
      BY <1>1, <3>2, <3>3, WriteSlotBelow, WriteSlotType
    <3>5. area' = DeleteSlot(w, p, s) \/ area' = DeleteSlot(area, p, s)
      BY <3>1 DEF MoveEntry
    <3> QED
      BY <1>1, <3>2, <3>4, <3>5, DeleteSlotBelow
  <2> QED
    BY <2>1, <2>2
<1> QED
  BY <1>3, <1>4 DEF mem, Numbers, HintsKept, BitsKept, LiveKept, HandlesBelow

(***************************************************************************)
(* A write changes one inode, and of it the size and the block.            *)
(***************************************************************************)
WriteHome(f) == IF itable[file_table[f]].type = "NONE" THEN 0 ELSE file_table[f]

LEMMA WriteEffect ==
    ASSUME Types, NEW f \in Fids, Write(f)
    PROVE  LET node == itable[file_table[f]]
           IN  \E nd \in InodeType :
                 /\ itable' = [itable EXCEPT ![WriteHome(f)] = nd]
                 /\ nd.type = node.type /\ nd.links = node.links /\ nd.size = 1
                 /\ \/ /\ node.size = 0 /\ NextBlk < NumBlocks
                       /\ nd.blk = NextBlk /\ dbmap' = dbmap \cup {NextBlk}
                       /\ sb' = dec_free_blocks(sb)
                    \/ /\ node.size > 0 /\ nd.blk = node.blk
                       /\ UNCHANGED <<sb, dbmap>>
<1> DEFINE node == itable[file_table[f]]
           n1 == [node EXCEPT !.size = 1, !.blk = NextBlk]
           n2 == [node EXCEPT !.size = 1]
<1>1. node \in InodeType
  BY DEF Types, TypeOK
<1>2. /\ n2 \in InodeType /\ n2.type = node.type /\ n2.links = node.links
      /\ n2.size = 1 /\ n2.blk = node.blk
  BY <1>1, InodeTypes DEF InodeType
<1>3. ASSUME NextBlk < NumBlocks
      PROVE  /\ n1 \in InodeType /\ n1.type = node.type /\ n1.links = node.links
             /\ n1.size = 1 /\ n1.blk = NextBlk
  <2>1. NextBlk \in Blocks
    BY <1>3, NextIsFree
  <2>2. n1 \in InodeType
    BY <1>1, <2>1, InodeTypes
  <2> QED
    BY <1>1, <2>2 DEF InodeType
<1>4. CASE /\ node.size = 0 /\ NextBlk < NumBlocks
           /\ dbmap' = dbmap \cup {NextBlk} /\ sb' = dec_free_blocks(sb)
           /\ itable' = [itable EXCEPT ![WriteHome(f)] = n1]
  BY <1>3, <1>4
<1>5. CASE /\ node.size > 0 /\ UNCHANGED <<sb, dbmap>>
           /\ itable' = [itable EXCEPT ![WriteHome(f)] = n2]
  BY <1>2, <1>5
<1> QED
  BY <1>4, <1>5 DEF Write, WriteHome

LEMMA WriteNumbers ==
    ASSUME Types, Numbers, NEW f \in Fids, Write(f)
    PROVE  Numbers'
<1> DEFINE i    == file_table[f]
           node == itable[i]
           home == WriteHome(f)
           k    == sb.ino
<1>1. i \in Inos /\ home \in Inos /\ node \in InodeType /\ sb \in SbType
  BY DEF Types, TypeOK, Inos, WriteHome
<1>2. disk.sb.ino \in Int /\ disk.sb.ino <= k /\ k \in Int /\ 3 <= disk.sb.ino
  BY <1>1 DEF Types, TypeOK, SbType, Numbers, HintsKept
<1>3. /\ sb'.ino = k /\ disk'.sb = sb' /\ disk'.ibmap = disk.ibmap
      /\ ibmap' = ibmap /\ file_table' = file_table
  <2>1. sb' = dec_free_blocks(sb) \/ sb' = sb
    BY DEF Write
  <2> QED
    BY <1>1, <2>1 DEF Write, dec_free_blocks, SbType, Types, TypeOK
<1>4. HintsKept'
  BY <1>2, <1>3 DEF HintsKept
<1>5. BitsKept'
  <2>1. \A j \in disk.ibmap : j \in Int /\ j < disk.sb.ino
    BY DEF Types, TypeOK, Inos, Numbers, BitsKept
  <2>2. \A j \in disk.ibmap : j < k
    BY <1>2, <2>1
  <2> QED
    BY <1>3, <2>2 DEF Numbers, BitsKept
<1>6. LiveKept'
  <2>1. PICK nd \in InodeType : itable' = [itable EXCEPT ![home] = nd] /\ nd.type = node.type
    BY WriteEffect
  <2>2. \A j \in Inos : itable'[j].type # "NONE" => itable[j].type # "NONE"
    BY <1>1, <2>1 DEF Types, TypeOK, WriteHome
  <2> QED
    BY <1>3, <2>2 DEF Numbers, LiveKept
<1>7. HandlesBelow'
  <2>1. \A g \in Fids : file_table[g] \in Int /\ file_table[g] < disk.sb.ino
    BY DEF Numbers, HandlesBelow, Types, TypeOK, Inos
  <2> QED
    BY <2>1, <1>2, <1>3 DEF HandlesBelow
<1>8. CellsBelow(area, k) /\ 0 < k /\ area \in AreaType
  BY <1>2, RaisedBound DEF Types, TypeOK, AreaType
<1>9. CellsBelow(area', k)
  <2>1. NextBlk \in Int /\ DataSlot \in Cell /\ DataSlot.ino < k /\ 0 \in Int
    <3>1. NextBlk \in Int
      BY NextIsFree
    <3>2. DataSlot \in Cell /\ DataSlot.ino = 0
      BY CellTypes DEF DataSlot
    <3> QED
      BY <3>1, <3>2, <1>8
  <2>2. CellsBelow(WriteSlot(area, NextBlk, 0, DataSlot), k)
    BY <1>2, <1>8, <2>1, WriteSlotBelow
  <2>3. \A s \in BlockSlots : [ZeroBlock EXCEPT ![0] = DataSlot][s].ino < k
    BY <1>8, BlockNumbers
  <2>4. CellsBelow([area EXCEPT ![node.blk] = [ZeroBlock EXCEPT ![0] = DataSlot]], k)
    BY <1>2, <1>8, <2>3, BlockBelow
  <2> QED
    BY <2>2, <2>4 DEF Write
<1> QED
  BY <1>3, <1>4, <1>5, <1>6, <1>7, <1>9 DEF Numbers

LEMMA HandleNumbers ==
    ASSUME Types, Numbers, OpenStep \/ HandleStep
    PROVE  Numbers'
<1>1. ASSUME NEW p \in Dirs, NEW n \in Names, Open(p, n) PROVE Numbers'
  <2>1. Child(p, n) \in Inos /\ Child(p, n) < disk.sb.ino
    <3>1. itable[p].blk \in Blocks /\ LookupSlot(p, n) \in Slots
      BY <1>1, SlotType, LookupFinds DEF Open
    <3> QED
      BY <1>1, <3>1, ChildType, SlotsInBlock DEF Open, Child, Slot, Numbers, CellsBelow
  <2>2. \A f \in Fids : \/ file_table'[f] = file_table[f]
                        \/ file_table'[f] = Child(p, n)
    BY <1>1 DEF Open, OpenFid, Types, TypeOK
  <2>3. HandlesBelow'
    BY <1>1, <2>1, <2>2 DEF Open, HandlesBelow, Numbers
  <2> QED
    BY <1>1, <2>3 DEF Open, mem, Numbers, HintsKept, BitsKept, LiveKept
<1>2. ASSUME NEW f \in Fids, Release(f) PROVE Numbers'
  <2>1. 0 < disk.sb.ino
    BY DEF Types, TypeOK, SbType, Numbers, HintsKept
  <2>2. HandlesBelow'
    BY <1>2, <2>1 DEF Release, HandlesBelow, Numbers, Types, TypeOK
  <2> QED
    BY <1>2, <2>2 DEF Release, mem, Numbers, HintsKept, BitsKept, LiveKept
<1> QED
  BY <1>1, <1>2, WriteNumbers DEF OpenStep, HandleStep

LEMMA RestNumbers ==
    ASSUME Types, Stored, Numbers, MkdirNoBlock \/ StillStep \/ Restart
    PROVE  Numbers'
<1>1. CASE MkdirNoBlock
  <2>1. NextIno \in Inos /\ NextIno = sb.ino /\ sb \in SbType
    BY <1>1, NextIsFree, NextInoIsHint DEF MkdirNoBlock, Types, TypeOK
  <2>2. sb'.ino = sb.ino + 1 /\ sb.ino \in Int /\ disk.sb.ino \in Int
    BY <1>1, <2>1, TakenNumber DEF MkdirNoBlock, SbType, Types, TypeOK
  <2>3. HintsKept'
    BY <1>1, <2>2 DEF MkdirNoBlock, Numbers, HintsKept
  <2>4. \A i \in ibmap : i \in Int /\ i < sb.ino
    BY DEF Types, TypeOK, Inos, Numbers, BitsKept
  <2>5. BitsKept'
    BY <1>1, <2>1, <2>2, <2>4 DEF MkdirNoBlock, Numbers, BitsKept
  <2> QED
    BY <1>1, <2>3, <2>5 DEF MkdirNoBlock, Numbers, LiveKept, HandlesBelow
<1>2. CASE NoInode
  <2>1. disk.sb.ino \in Int /\ sb.ino \in Int /\ disk.sb.ino <= sb.ino
    BY DEF Types, TypeOK, SbType, Numbers, HintsKept
  <2>2. \A i \in disk.ibmap : i \in Int /\ i < disk.sb.ino
    BY DEF Types, TypeOK, Inos, Numbers, BitsKept
  <2>3. BitsKept'
    BY <1>2, <2>1, <2>2 DEF NoInode, BitsKept
  <2> QED
    BY <1>2, <2>3 DEF NoInode, Numbers, HintsKept, LiveKept, HandlesBelow
<1>3. CASE UNCHANGED vars
  BY <1>3 DEF vars, mem, Numbers, HintsKept, BitsKept, LiveKept, HandlesBelow
<1>4. CASE \E f \in Fids : WriteNoBlock(f)
  BY <1>4 DEF WriteNoBlock, Numbers, HintsKept, BitsKept, LiveKept, HandlesBelow
<1>5. CASE Restart
  <2>1. disk.sb.ino \in Int /\ 3 <= disk.sb.ino
    BY DEF Types, TypeOK, SbType, Numbers, HintsKept
  <2>2. HintsKept' /\ HandlesBelow'
    BY <1>5, <2>1 DEF Restart, HintsKept, HandlesBelow
  <2> QED
    BY <1>5, <2>2 DEF Restart, Stored, Numbers, BitsKept, LiveKept
<1> QED
  BY <1>1, <1>2, <1>3, <1>4, <1>5 DEF StillStep

LEMMA NumbersStep ==
    ASSUME Types, Stored, Numbers, [Next]_vars
    PROVE  Numbers'
<1>1. CASE MkdirStep
  BY <1>1, MkdirNumbers DEF MkdirStep
<1>2. CASE RmdirStep
  BY <1>2, RmdirNumbers DEF RmdirStep
<1>3. CASE CreateStep
  BY <1>3, CreateNumbers DEF CreateStep
<1>4. CASE UnlinkStep
  BY <1>4, UnlinkNumbers DEF UnlinkStep
<1> QED
  BY <1>1, <1>2, <1>3, <1>4, RenameNumbers, HandleNumbers, RestNumbers, StepCases

Base == Types /\ Stored /\ Numbers

LEMMA BaseInvariant == Spec => []Base
<1>1. Init => Base
  BY TypesInit, StoredInit, NumbersInit DEF Base
<1>2. Base /\ [Next]_vars => Base'
  BY TypesStep, StoredStep, NumbersStep DEF Base
<1> QED
  BY <1>1, <1>2, PTL DEF Spec

(***************************************************************************)
(* Whatever fails or restarts in between, the device holds what the        *)
(* buffers hold whenever no handler runs.                                  *)
(***************************************************************************)
THEOREM DurableAlways == Spec => []Durable
<1>1. Base => Durable
  <2> SUFFICES ASSUME Base PROVE Durable
    OBVIOUS
  <2>1. \A i \in Live : i \in disk.ibmap /\ i < disk.sb.ino
    BY DEF Base, Numbers, LiveKept, BitsKept, Live
  <2> QED
    BY <2>1 DEF Base, Stored, Numbers, BitsKept, Durable
<1> QED
  BY <1>1, BaseInvariant, PTL

(***************************************************************************)
(* A number that comes into use is the one the hint named.                 *)
(***************************************************************************)
LEMMA Births ==
    ASSUME Base, [Next]_vars, NEW i \in Inos,
           itable[i].type = "NONE", itable'[i].type # "NONE"
    PROVE  i = sb.ino
<1>1. Types /\ Stored /\ Numbers /\ itable \in [Inos -> InodeType]
  BY DEF Base, Types, TypeOK
<1>2. ASSUME NEW p \in Dirs, NEW n \in Names, MkdirDone(p, n) PROVE i = sb.ino
  <2> DEFINE it == [itable EXCEPT ![NextIno] = DirInode(NextBlk)]
  <2>1. NextIno \in Inos /\ NextBlk \in Blocks /\ p \in Inos
    BY <1>1, <1>2, NextIsFree DEF MkdirDone, Dirs
  <2>2. it \in [Inos -> InodeType] /\ itable' = inc_link(it, p)
    BY <1>1, <1>2, <2>1, InodeTypes DEF MkdirDone
  <2>3. itable'[i].type = it[i].type
    BY <2>1, <2>2, LinkTypes
  <2> QED
    BY <1>1, <2>1, <2>3, NextInoIsHint
<1>3. CASE MkdirStep
  BY <1>2, <1>3 DEF MkdirStep
<1>4. CASE CreateStep
  BY <1>1, <1>4, NextInoIsHint DEF CreateStep, CreateDone
<1>5. ASSUME NEW p \in Dirs, NEW n \in Names, Rmdir(p, n) PROVE FALSE
  <2> DEFINE it == [itable EXCEPT ![Child(p, n)] = ZeroInode]
  <2>1. p \in Inos
    BY DEF Dirs
  <2>2. it \in [Inos -> InodeType] /\ itable' = dec_link(it, p)
    BY <1>1, <1>5, InodeTypes DEF Rmdir
  <2>3. itable'[i].type = it[i].type
    BY <2>1, <2>2, LinkTypes
  <2> QED
    BY <1>1, <2>3 DEF ZeroInode
<1>6. CASE RmdirStep
  BY <1>5, <1>6 DEF RmdirStep
<1>7. CASE UnlinkStep
  BY <1>1, <1>7 DEF UnlinkStep, Unlink, ZeroInode
<1>8. ASSUME NEW f \in Fids, Write(f) PROVE FALSE
  <2>1. PICK nd \in InodeType : /\ itable' = [itable EXCEPT ![WriteHome(f)] = nd]
                                /\ nd.type = itable[file_table[f]].type
    BY <1>1, <1>8, WriteEffect
  <2> QED
    BY <1>1, <2>1 DEF WriteHome
<1>9. CASE HandleStep
  BY <1>8, <1>9 DEF HandleStep, Release, mem
<1>10. CASE OpenStep \/ InPlaceStep \/ MoveStep \/ StillStep \/ MkdirNoBlock
  BY <1>10 DEF OpenStep, InPlaceStep, MoveStep, StillStep, Open, RenameInPlace, MoveEntry,
               NoInode, WriteNoBlock, MkdirNoBlock, vars, mem
<1>11. CASE Restart
  BY <1>1, <1>11 DEF Restart, Stored
<1> QED
  BY <1>3, <1>4, <1>6, <1>7, <1>9, <1>10, <1>11, StepCases

(***************************************************************************)
(* A new inode never gets a number that an entry or a handle still has.    *)
(***************************************************************************)
THEOREM NumbersStayFresh == Spec => FreshNumbers
<1>1. ASSUME Base, [Next]_vars, NEW i \in Inos,
             itable[i].type = "NONE", itable'[i].type # "NONE"
      PROVE  i \notin Mentioned
  <2>1. i = sb.ino /\ disk.sb.ino <= i
    BY <1>1, Births DEF Base, Numbers, HintsKept
  <2>2. \A b \in Blocks, s \in BlockSlots : area[b][s].ino \in Int /\ area[b][s].ino < disk.sb.ino
    <3>1. \A b \in Blocks, s \in BlockSlots : area[b][s] \in Cell
      BY <1>1 DEF Base, Types, TypeOK
    <3>2. \A c \in Cell : c.ino \in Inos
      BY DEF Cell
    <3> QED
      BY <1>1, <3>1, <3>2 DEF Base, Numbers, CellsBelow, Inos
  <2>3. \A f \in Fids : file_table[f] \in Int /\ file_table[f] < disk.sb.ino
    BY <1>1 DEF Base, Types, TypeOK, Numbers, HandlesBelow, Inos
  <2>4. disk.sb.ino \in Int /\ i \in Int
    BY <1>1 DEF Base, Types, TypeOK, SbType, Inos
  <2>5. \A j \in Mentioned : j \in Int /\ j < disk.sb.ino
    BY <2>2, <2>3 DEF Mentioned
  <2> QED
    BY <2>1, <2>4, <2>5
<1>2. Base /\ [Next]_vars
      => [\A i \in Inos : itable[i].type = "NONE" /\ itable'[i].type # "NONE"
             => i \notin Mentioned]_vars
  BY <1>1
<1> QED
  BY <1>2, BaseInvariant, PTL DEF Spec, FreshNumbers

-----------------------------------------------------------------------------
(* BlockUse: who owns which block.                                         *)

Own(it) == {i \in Inos : it[i].type # "NONE" /\ it[i].size > 0}

Uses(it, bm) == /\ \A i, j \in Own(it) : it[i].blk = it[j].blk => i = j
                /\ \A i \in Own(it) : it[i].blk \in bm

\* The blocks of bm that nobody in the table it owns.
Unowned(it, bm) == bm \ {it[i].blk : i \in Own(it)}

DirSizes == \A d \in Inos : itable[d].type = "DIR" => itable[d].size = DirSlots

\* Entry 0 may be written through the handle of a file deleted while open.
FreedEmpty == \A i \in Inos : i # 0 /\ itable[i].type = "NONE" => itable[i].size = 0

HandlesOfFiles == \A f \in Fids : itable[file_table[f]].type # "DIR"

BlockUse == Uses(itable, dbmap) /\ DirSizes /\ FreedEmpty /\ HandlesOfFiles

LEMMA OwnersAre == Owners = Own(itable)
  BY DEF Owners, Own, Live

LEMMA SameOwners ==
    ASSUME NEW it, NEW new, NEW bm, Own(new) = Own(it),
           \A i \in Own(it) : new[i].blk = it[i].blk
    PROVE  /\ Uses(it, bm) => Uses(new, bm)
           /\ Unowned(new, bm) = Unowned(it, bm)
<1>1. Uses(it, bm) => Uses(new, bm)
  BY DEF Uses
<1>2. {new[i].blk : i \in Own(it)} = {it[i].blk : i \in Own(it)}
  OBVIOUS
<1> QED
  BY <1>1, <1>2 DEF Unowned

(***************************************************************************)
(* An inode that takes a free block, and one that gives its block back.    *)
(***************************************************************************)
LEMMA AddOwner ==
    ASSUME NEW it, NEW new, NEW bm, NEW j, NEW b, Uses(it, bm),
           j \notin Own(it), Own(new) = Own(it) \cup {j},
           \A i \in Own(it) : new[i].blk = it[i].blk,
           new[j].blk = b, b \notin bm
    PROVE  /\ Uses(new, bm \cup {b})
           /\ Unowned(new, bm \cup {b}) = Unowned(it, bm)
<1>1. Uses(new, bm \cup {b})
  BY DEF Uses
<1>2. {new[i].blk : i \in Own(new)} = {it[i].blk : i \in Own(it)} \cup {b}
  OBVIOUS
<1> QED
  BY <1>1, <1>2 DEF Unowned

LEMMA DropOwner ==
    ASSUME NEW it, NEW new, NEW bm, Uses(it, bm), NEW j \in Own(it),
           Own(new) = Own(it) \ {j},
           \A i \in Own(new) : new[i].blk = it[i].blk
    PROVE  /\ it[j].blk \in bm
           /\ Uses(new, bm \ {it[j].blk})
           /\ Unowned(new, bm \ {it[j].blk}) = Unowned(it, bm)
<1>1. it[j].blk \in bm /\ Uses(new, bm \ {it[j].blk})
  BY DEF Uses
<1>2. \A i \in Own(it) : it[i].blk = it[j].blk => i = j
  BY DEF Uses
<1>3. {new[i].blk : i \in Own(new)} = {it[i].blk : i \in Own(it)} \ {it[j].blk}
  BY <1>2
<1>4. it[j].blk \in {it[i].blk : i \in Own(it)}
  OBVIOUS
<1> QED
  BY <1>1, <1>3, <1>4 DEF Unowned

LEMMA LinkOwners ==
    ASSUME NEW it \in [Inos -> InodeType], NEW p \in Inos, NEW bm,
           NEW new \in {inc_link(it, p), dec_link(it, p)}
    PROVE  /\ Uses(it, bm) => Uses(new, bm)
           /\ Unowned(new, bm) = Unowned(it, bm)
<1>1. \A i \in Inos : new[i].type = it[i].type /\ new[i].size = it[i].size
                      /\ new[i].blk = it[i].blk
  BY LinkTypes
<1>2. Own(new) = Own(it) /\ \A i \in Own(it) : new[i].blk = it[i].blk
  BY <1>1 DEF Own
<1> QED
  BY <1>2, SameOwners

\* What a step does to the use of the blocks.
UseKept == /\ Uses(itable', dbmap')
           /\ Unowned(itable', dbmap') = Unowned(itable, dbmap)

\* ... and to the count of the free ones.
Counted == sb.free_blocks = NumBlocks + 1 - Cardinality(dbmap)

LEMMA CountChange ==
    ASSUME Types, Counted
    PROVE  /\ \A b : b \notin dbmap
                => sb.free_blocks - 1 = NumBlocks + 1 - Cardinality(dbmap \cup {b})
           /\ \A b \in dbmap :
                sb.free_blocks + 1 = NumBlocks + 1 - Cardinality(dbmap \ {b})
<1>1. IsFiniteSet(Blocks) /\ dbmap \subseteq Blocks
  BY FS_Interval DEF Blocks, Types, TypeOK
<1>2. IsFiniteSet(dbmap)
  BY <1>1, FS_Subset
<1>3. Cardinality(dbmap) \in Nat
  BY <1>2, FS_CardinalityType
<1>4. ASSUME NEW b, b \notin dbmap
      PROVE  sb.free_blocks - 1 = NumBlocks + 1 - Cardinality(dbmap \cup {b})
  <2>1. Cardinality(dbmap \cup {b}) = Cardinality(dbmap) + 1
    BY <1>2, <1>4, FS_AddElement
  <2> QED
    BY <2>1, <1>3 DEF Counted
<1>5. ASSUME NEW b \in dbmap
      PROVE  sb.free_blocks + 1 = NumBlocks + 1 - Cardinality(dbmap \ {b})
  <2>1. Cardinality(dbmap \ {b}) = Cardinality(dbmap) - 1
    BY <1>2, FS_RemoveElement
  <2> QED
    BY <2>1, <1>3 DEF Counted
<1> QED
  BY <1>4, <1>5

(***************************************************************************)
(* The number given out next belongs to no inode and to no handle.         *)
(***************************************************************************)
LEMMA NextInoUnused ==
    ASSUME Base, NextIno < NumInodes
    PROVE  /\ NextIno \in Inos
           /\ itable[NextIno].type = "NONE"
           /\ \A f \in Fids : file_table[f] # NextIno
           /\ NextIno # 0
<1>1. NextIno \in Inos /\ NextIno \notin ibmap /\ NextIno = sb.ino
  BY NextIsFree, NextInoIsHint DEF Base
<1>2. itable[NextIno].type = "NONE"
  BY <1>1 DEF Base, Numbers, LiveKept, BitsKept
<1>3. 3 <= disk.sb.ino /\ disk.sb.ino <= sb.ino /\ disk.sb.ino \in Int /\ sb.ino \in Int
  BY DEF Base, Numbers, HintsKept, Types, TypeOK, SbType
<1>4. \A f \in Fids : file_table[f] \in Int /\ file_table[f] < disk.sb.ino
  BY DEF Base, Types, TypeOK, Numbers, HandlesBelow, Inos
<1> QED
  BY <1>1, <1>2, <1>3, <1>4

LEMMA MkdirBlocks ==
    ASSUME Base, BlockUse, NEW p \in Dirs, NEW n \in Names, MkdirDone(p, n)
    PROVE  BlockUse' /\ UseKept /\ (Counted => Counted')
<1> DEFINE i == NextIno
           b == NextBlk
           nd == DirInode(b)
           it == [itable EXCEPT ![i] = nd]
<1>1. /\ i \in Inos /\ itable[i].type = "NONE" /\ \A f \in Fids : file_table[f] # i
      /\ p \in Inos /\ itable \in [Inos -> InodeType]
  BY NextInoUnused DEF MkdirDone, Dirs, Base, Types, TypeOK
<1>2. b \in Blocks /\ b \notin dbmap
  BY NextIsFree DEF MkdirDone, Base
<1>3. nd \in InodeType /\ nd.type = "DIR" /\ nd.size = DirSlots /\ nd.blk = b
  BY <1>2, InodeTypes DEF DirInode
<1>4. it \in [Inos -> InodeType] /\ itable' = inc_link(it, p) /\ dbmap' = dbmap \cup {b}
  BY <1>1, <1>3 DEF MkdirDone
<1>5. /\ Uses(it, dbmap \cup {b})
      /\ Unowned(it, dbmap \cup {b}) = Unowned(itable, dbmap)
  <2>1. i \notin Own(itable) /\ Own(it) = Own(itable) \cup {i}
    BY <1>1, <1>3 DEF Own
  <2>2. \A j \in Own(itable) : it[j].blk = itable[j].blk
    BY <2>1, <1>1
  <2>3. it[i].blk = b /\ Uses(itable, dbmap)
    BY <1>1, <1>3 DEF BlockUse
  <2> HIDE DEF it
  <2> QED
    BY <2>1, <2>2, <2>3, <1>2, AddOwner
<1>6. UseKept
  BY <1>1, <1>4, <1>5, LinkOwners DEF UseKept
<1>7. \A j \in Inos : itable'[j].type = it[j].type /\ itable'[j].size = it[j].size
  BY <1>1, <1>4, LinkTypes
<1>8. DirSizes' /\ FreedEmpty'
  BY <1>1, <1>3, <1>7 DEF BlockUse, DirSizes, FreedEmpty
<1>9. HandlesOfFiles'
  <2>1. \A f \in Fids : file_table[f] \in Inos /\ file_table'[f] = file_table[f]
    BY DEF Base, Types, TypeOK, MkdirDone
  <2> QED
    BY <2>1, <1>1, <1>7 DEF BlockUse, HandlesOfFiles
<1>10. Counted => Counted'
  <2>1. sb'.free_blocks = sb.free_blocks - 1
    BY DEF MkdirDone, take_ino, dec_free_inodes, dec_free_blocks, Base, Types, TypeOK, SbType
  <2> QED
    BY <2>1, <1>2, <1>4, CountChange DEF Base, Counted
<1> QED
  BY <1>6, <1>8, <1>9, <1>10 DEF BlockUse, UseKept

LEMMA RmdirBlocks ==
    ASSUME Base, BlockUse, NEW p \in Dirs, NEW n \in Names, Rmdir(p, n)
    PROVE  BlockUse' /\ UseKept /\ (Counted => Counted')
<1> DEFINE x == Child(p, n)
           b == itable[x].blk
           it == [itable EXCEPT ![x] = ZeroInode]
<1>1. /\ x \in Inos /\ itable[x].type = "DIR" /\ p \in Inos
      /\ itable \in [Inos -> InodeType] /\ sb \in SbType
  BY DEF Rmdir, Dirs, Base, Types, TypeOK
<1>2. x \in Own(itable) /\ Uses(itable, dbmap)
  BY <1>1 DEF BlockUse, DirSizes, Own
<1>3. /\ b \in dbmap /\ Uses(it, dbmap \ {b})
      /\ Unowned(it, dbmap \ {b}) = Unowned(itable, dbmap)
  <2>1. Own(it) = Own(itable) \ {x} /\ \A j \in Own(it) : it[j].blk = itable[j].blk
    BY <1>1 DEF Own, ZeroInode
  <2> HIDE DEF it
  <2> QED
    BY <2>1, <1>2, DropOwner
<1>4. it \in [Inos -> InodeType] /\ itable' = dec_link(it, p) /\ dbmap' = dbmap \ {b}
  BY <1>1, InodeTypes DEF Rmdir
<1>5. UseKept
  BY <1>1, <1>3, <1>4, LinkOwners DEF UseKept
<1>6. \A j \in Inos : itable'[j].type = it[j].type /\ itable'[j].size = it[j].size
  BY <1>1, <1>4, LinkTypes
<1>7. DirSizes' /\ FreedEmpty'
  BY <1>1, <1>6 DEF BlockUse, DirSizes, FreedEmpty, ZeroInode
<1>8. HandlesOfFiles'
  <2>1. \A f \in Fids : file_table[f] \in Inos /\ file_table'[f] = file_table[f]
    BY DEF Base, Types, TypeOK, Rmdir
  <2> QED
    BY <2>1, <1>1, <1>6 DEF BlockUse, HandlesOfFiles, ZeroInode
<1>9. Counted => Counted'
  <2>1. sb'.free_blocks = sb.free_blocks + 1
    BY <1>1 DEF Rmdir, inc_free_inodes, inc_free_blocks, SbType
  <2> QED
    BY <2>1, <1>3, <1>4, CountChange DEF Base, Counted
<1> QED
  BY <1>5, <1>7, <1>8, <1>9 DEF BlockUse, UseKept

LEMMA CreateBlocks ==
    ASSUME Base, BlockUse, NEW p \in Dirs, NEW n \in Names, CreateDone(p, n)
    PROVE  BlockUse' /\ UseKept /\ (Counted => Counted')
<1> DEFINE i == NextIno
<1>1. /\ i \in Inos /\ itable[i].type = "NONE" /\ \A f \in Fids : file_table[f] # i
      /\ itable \in [Inos -> InodeType] /\ sb \in SbType
  BY NextInoUnused DEF CreateDone, Base, Types, TypeOK
<1>2. itable' = [itable EXCEPT ![i] = FileInode] /\ dbmap' = dbmap
  BY DEF CreateDone
<1>3. UseKept
  <2>1. Own(itable') = Own(itable) /\ \A j \in Own(itable) : itable'[j].blk = itable[j].blk
    BY <1>1, <1>2 DEF Own, FileInode
  <2>2. Uses(itable, dbmap)
    BY DEF BlockUse
  <2> QED
    BY <1>2, <2>1, <2>2, SameOwners DEF UseKept
<1>4. DirSizes' /\ FreedEmpty'
  BY <1>1, <1>2 DEF BlockUse, DirSizes, FreedEmpty, FileInode
<1>5. HandlesOfFiles'
  <2>1. \A f \in Fids : /\ file_table[f] \in Inos
                        /\ file_table'[f] = file_table[f] \/ file_table'[f] = i
    BY DEF Base, Types, TypeOK, CreateDone, OpenFid
  <2> QED
    BY <2>1, <1>1, <1>2 DEF BlockUse, HandlesOfFiles, FileInode
<1>6. Counted => Counted'
  <2>1. sb'.free_blocks = sb.free_blocks
    BY <1>1 DEF CreateDone, take_ino, dec_free_inodes, SbType
  <2> QED
    BY <2>1, <1>2 DEF Counted
<1> QED
  BY <1>3, <1>4, <1>5, <1>6 DEF BlockUse, UseKept

LEMMA UnlinkBlocks ==
    ASSUME Base, BlockUse, NEW p \in Dirs, NEW n \in Names, Unlink(p, n)
    PROVE  BlockUse' /\ UseKept /\ (Counted => Counted')
<1> DEFINE x == Child(p, n)
           b == itable[x].blk
<1>1. /\ x \in Inos /\ itable[x].type = "FILE" /\ itable[x].size \in {0, 1, DirSlots}
      /\ itable \in [Inos -> InodeType] /\ sb \in SbType
  BY DEF Unlink, Files, Base, Types, TypeOK, InodeType
<1>2. itable' = [itable EXCEPT ![x] = ZeroInode] /\ Uses(itable, dbmap)
  BY DEF Unlink, BlockUse
<1>3. ASSUME itable[x].size = 0 PROVE UseKept /\ (Counted => Counted')
  <2>1. Own(itable') = Own(itable) /\ \A j \in Own(itable) : itable'[j].blk = itable[j].blk
    BY <1>1, <1>2, <1>3 DEF Own, ZeroInode
  <2>2. dbmap' = dbmap /\ sb'.free_blocks = sb.free_blocks
    BY <1>1, <1>3 DEF Unlink, inc_free_inodes, SbType
  <2> QED
    BY <1>2, <2>1, <2>2, SameOwners DEF UseKept, Counted
<1>4. ASSUME itable[x].size # 0 PROVE UseKept /\ (Counted => Counted')
  <2>1. x \in Own(itable)
    BY <1>1, <1>4 DEF Own
  <2>2. dbmap' = dbmap \ {b} /\ sb'.free_blocks = sb.free_blocks + 1
    BY <1>1, <1>4 DEF Unlink, inc_free_inodes, inc_free_blocks, SbType
  <2>3. b \in dbmap /\ UseKept
    <3>1. Own(itable') = Own(itable) \ {x} /\ \A j \in Own(itable') : itable'[j].blk = itable[j].blk
      BY <1>1, <1>2 DEF Own, ZeroInode
    <3>2. PICK new, j : new = itable' /\ j = x
      OBVIOUS
    <3>3. /\ j \in Own(itable) /\ Own(new) = Own(itable) \ {j} /\ Uses(itable, dbmap)
          /\ \A i \in Own(new) : new[i].blk = itable[i].blk
      BY <1>2, <2>1, <3>1, <3>2
    <3>4. /\ itable[j].blk \in dbmap /\ Uses(new, dbmap \ {itable[j].blk})
          /\ Unowned(new, dbmap \ {itable[j].blk}) = Unowned(itable, dbmap)
      BY <3>3, DropOwner
    <3> QED
      BY <2>2, <3>2, <3>4 DEF UseKept
  <2> QED
    BY <2>2, <2>3, CountChange DEF Base, Counted
<1>5. UseKept /\ (Counted => Counted')
  BY <1>3, <1>4
<1>6. DirSizes' /\ FreedEmpty'
  BY <1>1, <1>2 DEF BlockUse, DirSizes, FreedEmpty, ZeroInode
<1>7. HandlesOfFiles'
  <2>1. \A f \in Fids : file_table[f] \in Inos /\ file_table'[f] = file_table[f]
    BY DEF Base, Types, TypeOK, Unlink
  <2> QED
    BY <2>1, <1>1, <1>2 DEF BlockUse, HandlesOfFiles, ZeroInode
<1> QED
  BY <1>5, <1>6, <1>7 DEF BlockUse, UseKept

\* A write through the handle of a file that has been deleted.
Stale(f) == Write(f) /\ itable[file_table[f]].type = "NONE"

\* It takes a block that nobody owns then, a write of a file that is there
\* none.
Loses(f) == IF Stale(f)
            THEN /\ NextBlk \in Blocks /\ NextBlk \notin dbmap
                 /\ dbmap' = dbmap \cup {NextBlk}
                 /\ Unowned(itable', dbmap') = Unowned(itable, dbmap) \cup {NextBlk}
            ELSE Unowned(itable', dbmap') = Unowned(itable, dbmap)

LEMMA WriteBlocks ==
    ASSUME Base, BlockUse, NEW f \in Fids, Write(f)
    PROVE  /\ BlockUse'
           /\ Uses(itable', dbmap')
           /\ Loses(f)
           /\ Counted => Counted'
<1> DEFINE node == itable[file_table[f]]
           h    == WriteHome(f)
<1>1. /\ itable \in [Inos -> InodeType] /\ sb \in SbType /\ node \in InodeType
      /\ h \in Inos /\ file_table[f] # 0 /\ file_table[f] \in Inos
  BY DEF Base, Types, TypeOK, WriteHome, Inos, Write
<1>2. PICK nd \in InodeType :
         /\ itable' = [itable EXCEPT ![h] = nd]
         /\ nd.type = node.type /\ nd.size = 1
         /\ \/ /\ node.size = 0 /\ NextBlk < NumBlocks
               /\ nd.blk = NextBlk /\ dbmap' = dbmap \cup {NextBlk}
               /\ sb' = dec_free_blocks(sb)
            \/ node.size > 0 /\ nd.blk = node.blk /\ UNCHANGED <<sb, dbmap>>
  BY WriteEffect DEF Base
<1>3. node.type # "DIR"
  BY DEF BlockUse, HandlesOfFiles
<1>4. itable[0].type = "NONE" /\ 0 \in Inos
  BY DEF Base, Numbers, LiveKept, Inos
<1>5. \A j \in Inos : itable'[j].type = itable[j].type
  BY <1>1, <1>2, <1>4 DEF WriteHome
<1>6. ASSUME node.size = 0, NextBlk < NumBlocks, nd.blk = NextBlk,
             dbmap' = dbmap \cup {NextBlk}, sb' = dec_free_blocks(sb)
      PROVE  /\ Uses(itable', dbmap')
             /\ Loses(f)
             /\ Counted => Counted'
  <2>1. NextBlk \notin dbmap /\ sb'.free_blocks = sb.free_blocks - 1
    BY <1>1, <1>6, NextIsFree DEF Base, dec_free_blocks, SbType
  <2>2. Counted => Counted'
    BY <2>1, <1>6, CountChange DEF Base, Counted
  <2>3. CASE node.type = "NONE"
    <3>2. Own(itable') = Own(itable) /\ \A j \in Own(itable) : itable'[j].blk = itable[j].blk
      BY <1>1, <1>2, <1>4, <1>5, <2>3 DEF Own, WriteHome
    <3>3. Uses(itable', dbmap)
      BY <3>2, SameOwners DEF BlockUse
    <3>4. Uses(itable', dbmap')
      BY <3>3, <1>6 DEF Uses
    <3>5. Unowned(itable', dbmap) = Unowned(itable, dbmap)
      BY <3>2, SameOwners
    <3>6. \A j \in Own(itable) : itable[j].blk # NextBlk
      BY <2>1 DEF BlockUse, Uses
    <3>7. Unowned(itable', dbmap') = Unowned(itable, dbmap) \cup {NextBlk}
      BY <1>6, <3>2, <3>5, <3>6 DEF Unowned
    <3>8. Loses(f)
      BY <1>6, <2>1, <2>3, <3>7, NextIsFree DEF Loses, Stale, Base
    <3> QED
      BY <3>4, <3>8, <2>2
  <2>4. CASE node.type # "NONE"
    <3>1. h = file_table[f] /\ h \notin Own(itable) /\ nd.size > 0
      BY <1>2, <1>6, <2>4 DEF WriteHome, Own
    <3>2. /\ Uses(itable', dbmap')
          /\ Unowned(itable', dbmap') = Unowned(itable, dbmap)
      <4>1. /\ Own(itable') = Own(itable) \cup {h}
            /\ \A j \in Own(itable) : itable'[j].blk = itable[j].blk
        BY <1>1, <1>2, <2>4, <3>1 DEF Own
      <4>2. itable'[h].blk = NextBlk /\ Uses(itable, dbmap)
        BY <1>1, <1>2, <1>6 DEF BlockUse
      <4>3. PICK new, j, b : new = itable' /\ j = h /\ b = NextBlk
        OBVIOUS
      <4>4. /\ Own(new) = Own(itable) \cup {j} /\ j \notin Own(itable)
            /\ \A i \in Own(itable) : new[i].blk = itable[i].blk
            /\ new[j].blk = b /\ b \notin dbmap /\ Uses(itable, dbmap)
        BY <2>1, <3>1, <4>1, <4>2, <4>3
      <4>5. /\ Uses(new, dbmap \cup {b})
            /\ Unowned(new, dbmap \cup {b}) = Unowned(itable, dbmap)
        BY <4>4, AddOwner
      <4> QED
        BY <1>6, <4>3, <4>5
    <3> QED
      BY <2>2, <2>4, <3>2 DEF Loses, Stale
  <2> QED
    BY <2>3, <2>4
<1>7. ASSUME node.size > 0, nd.blk = node.blk, UNCHANGED <<sb, dbmap>>
      PROVE  /\ Uses(itable', dbmap')
             /\ Loses(f)
             /\ Counted => Counted'
  <2>1. node.type # "NONE" /\ h = file_table[f]
    BY <1>1, <1>7 DEF BlockUse, FreedEmpty, WriteHome
  <2>2. Own(itable') = Own(itable) /\ \A j \in Own(itable) : itable'[j].blk = itable[j].blk
    BY <1>1, <1>2, <1>7, <2>1 DEF Own
  <2>3. Uses(itable', dbmap') /\ Unowned(itable', dbmap') = Unowned(itable, dbmap)
    BY <1>7, <2>2, SameOwners DEF BlockUse
  <2> QED
    BY <1>7, <2>1, <2>3 DEF Counted, Loses, Stale
<1>8. DirSizes' /\ FreedEmpty'
  BY <1>1, <1>2, <1>3, <1>4, <1>5 DEF BlockUse, DirSizes, FreedEmpty, WriteHome
<1>9. HandlesOfFiles'
  <2>1. \A g \in Fids : file_table[g] \in Inos /\ file_table'[g] = file_table[g]
    BY DEF Base, Types, TypeOK, Write
  <2> QED
    BY <2>1, <1>5 DEF BlockUse, HandlesOfFiles
<1> QED
  BY <1>2, <1>6, <1>7, <1>8, <1>9 DEF BlockUse

LEMMA RestBlocks ==
    ASSUME Base, BlockUse,
           \/ OpenStep \/ InPlaceStep \/ MoveStep \/ StillStep \/ MkdirNoBlock \/ Restart
           \/ \E f \in Fids : Release(f)
    PROVE  BlockUse' /\ UseKept /\ (Counted => Counted')
<1>1. itable' = itable
  BY DEF OpenStep, InPlaceStep, MoveStep, StillStep, Open, RenameInPlace, MoveEntry,
         NoInode, WriteNoBlock, MkdirNoBlock, Release, Restart, vars, mem, Base, Stored
<1>2. dbmap' = dbmap
  BY DEF OpenStep, InPlaceStep, MoveStep, StillStep, Open, RenameInPlace, MoveEntry,
         NoInode, WriteNoBlock, MkdirNoBlock, Release, Restart, vars, mem, Base, Stored
<1>3. sb'.free_blocks = sb.free_blocks
  <2>1. CASE MkdirNoBlock
    BY <2>1, NextIsFree DEF MkdirNoBlock, take_ino, dec_free_inodes, Base, Types, TypeOK, SbType
  <2>2. CASE Restart
    BY <2>2 DEF Restart, Base, Stored
  <2> QED
    BY <2>1, <2>2 DEF OpenStep, InPlaceStep, MoveStep, StillStep, Open, RenameInPlace,
                      MoveEntry, NoInode, WriteNoBlock, Release, vars, mem
<1>4. HandlesOfFiles'
  <2>1. itable[0].type = "NONE"
    BY DEF Base, Numbers, LiveKept, Inos
  <2>2. CASE OpenStep
    <3>1. PICK p \in Dirs, n \in Names : Open(p, n)
      BY <2>2 DEF OpenStep
    <3>2. \A f \in Fids : file_table'[f] = file_table[f] \/ file_table'[f] = Child(p, n)
      BY <3>1 DEF Open, OpenFid, Base, Types, TypeOK
    <3>3. itable[Child(p, n)].type = "FILE"
      BY <3>1 DEF Open, Files
    <3> QED
      BY <1>1, <3>2, <3>3 DEF BlockUse, HandlesOfFiles
  <2>3. CASE Restart \/ \E f \in Fids : Release(f)
    <3>1. \A f \in Fids : file_table'[f] = file_table[f] \/ file_table'[f] = 0
      BY <2>3 DEF Restart, Release, Base, Types, TypeOK
    <3> QED
      BY <1>1, <2>1, <3>1 DEF BlockUse, HandlesOfFiles
  <2>4. CASE InPlaceStep \/ MoveStep \/ StillStep \/ MkdirNoBlock
    <3>1. file_table' = file_table
      BY <2>4 DEF InPlaceStep, MoveStep, StillStep, RenameInPlace, MoveEntry,
                  NoInode, WriteNoBlock, MkdirNoBlock, vars
    <3> QED
      BY <1>1, <3>1 DEF BlockUse, HandlesOfFiles
  <2> QED
    BY <2>2, <2>3, <2>4
<1> QED
  BY <1>1, <1>2, <1>3, <1>4 DEF BlockUse, DirSizes, FreedEmpty, UseKept, Counted

LEMMA BlockInit == Init => BlockUse /\ Unowned(itable, dbmap) = {} /\ Counted
<1> SUFFICES ASSUME Init PROVE BlockUse /\ Unowned(itable, dbmap) = {} /\ Counted
  OBVIOUS
<1>1. /\ sb = FormatSb /\ dbmap = {0} /\ itable = FormatItable
      /\ file_table = [f \in Fids |-> 0]
  BY DEF Init, Loaded, FormatDisk, FormatSb
<1>2. Root \in Inos /\ \A i \in Inos : itable[i] = IF i = Root THEN DirInode(0) ELSE ZeroInode
  BY <1>1 DEF FormatItable, Inos
<1>3. Own(itable) = {Root} /\ itable[Root].blk = 0
  BY <1>2 DEF Own, DirInode, ZeroInode
<1>4. Uses(itable, dbmap) /\ Unowned(itable, dbmap) = {}
  BY <1>1, <1>3 DEF Uses, Unowned
<1>5. DirSizes /\ FreedEmpty
  BY <1>2 DEF DirSizes, FreedEmpty, DirInode, ZeroInode
<1>6. HandlesOfFiles
  BY <1>1, <1>2 DEF HandlesOfFiles, ZeroInode, Inos
<1>7. Counted
  <2>1. Cardinality({0}) = 1
    BY FS_Singleton
  <2> QED
    BY <1>1, <2>1 DEF Counted, FormatSb
<1> QED
  BY <1>4, <1>5, <1>6, <1>7 DEF BlockUse

LEMMA BlockStep ==
    ASSUME Base, BlockUse, [Next]_vars
    PROVE  /\ BlockUse'
           /\ \/ Unowned(itable', dbmap') = Unowned(itable, dbmap)
              \/ \E f \in Fids : Stale(f)
           /\ Counted => Counted'
<1>1. CASE MkdirStep
  BY <1>1, MkdirBlocks DEF MkdirStep, UseKept
<1>2. CASE RmdirStep
  BY <1>2, RmdirBlocks DEF RmdirStep, UseKept
<1>3. CASE CreateStep
  BY <1>3, CreateBlocks DEF CreateStep, UseKept
<1>4. CASE UnlinkStep
  BY <1>4, UnlinkBlocks DEF UnlinkStep, UseKept
<1>5. CASE HandleStep
  BY <1>5, WriteBlocks, RestBlocks DEF HandleStep, UseKept, Loses
<1>6. CASE OpenStep \/ InPlaceStep \/ MoveStep \/ StillStep \/ MkdirNoBlock \/ Restart
  BY <1>6, RestBlocks DEF UseKept
<1> QED
  BY <1>1, <1>2, <1>3, <1>4, <1>5, <1>6, StepCases

Bound == Base /\ BlockUse /\ Counted

LEMMA BoundInvariant == Spec => []Bound
<1>1. Init => Bound
  BY TypesInit, StoredInit, NumbersInit, BlockInit DEF Bound, Base
<1>2. Bound /\ [Next]_vars => Bound'
  BY TypesStep, StoredStep, NumbersStep, BlockStep DEF Bound, Base
<1> QED
  BY <1>1, <1>2, PTL DEF Spec

(***************************************************************************)
(* No block has two owners or is free while it has one, even when writes   *)
(* come through handles of deleted files.                                  *)
(***************************************************************************)
THEOREM BlocksNeverShared == Spec => []BlocksExclusive
<1>1. Bound => BlocksExclusive
  BY OwnersAre DEF Bound, BlockUse, Uses, BlocksExclusive
<1> QED
  BY <1>1, BoundInvariant, PTL

(***************************************************************************)
(* The count of free blocks in the super block is exact but for the root's *)
(* block.                                                                  *)
(***************************************************************************)
THEOREM FreeBlocksCounted == Spec => []FreeBlocksExact
<1>1. Bound => FreeBlocksExact
  BY DEF Bound, Counted, FreeBlocksExact
<1> QED
  BY <1>1, BoundInvariant, PTL

(***************************************************************************)
(* Only a write through the handle of a deleted file loses a block: every  *)
(* other step leaves the set of the blocks nobody owns as it is.           *)
(***************************************************************************)
LEMMA LostAre == Lost = Unowned(itable, dbmap)
  BY OwnersAre DEF Lost, Unowned

THEOREM NoOtherBlockLost == Spec => BlocksKept
<1>1. ASSUME Bound, [Next]_vars
      PROVE  \/ Lost' = Lost
             \/ \E f \in Fids : Write(f) /\ itable[file_table[f]].type = "NONE"
  <2>1. Lost = Unowned(itable, dbmap) /\ Lost' = Unowned(itable', dbmap')
    BY DEF Lost, Owners, Live, Unowned, Own
  <2> QED
    BY <1>1, <2>1, BlockStep DEF Bound, Stale
<1>2. Bound /\ [Next]_vars
      => [\/ Lost' = Lost
          \/ \E f \in Fids : Write(f) /\ itable[file_table[f]].type = "NONE"]_vars
  BY <1>1
<1> QED
  BY <1>2, BoundInvariant, PTL DEF Spec, BlocksKept

-----------------------------------------------------------------------------
(* How far into the data area blocks are given out (BlocksLow).            *)
(*                                                                         *)
(* A scan gives out a block at or before the hint, or right after one in   *)
(* use.  A directory takes its block together with its number, a file      *)
(* later, with its first write: the files still without a block are owed   *)
(* one each, and the invariant keeps room for all of them below the bound, *)
(* which moves up with every number given out and every block lost.        *)

\* The files of the table it that have not taken a block yet.
Owed(it) == {i \in Inos : it[i].type = "FILE" /\ it[i].size = 0}

\* The blocks of bm and the hint h leave room for k more below number n.
RoomBelow(bm, h, k, n) == /\ \A b \in bm : b + k <= n - 3
                     /\ h + k <= n - 2

\* The numbers given out and the blocks lost.
Limit == disk.sb.ino + Cardinality(Unowned(itable, dbmap))

Low == /\ RoomBelow(dbmap, blk_hint, Cardinality(Owed(itable)), Limit)
       /\ disk.sb.blk = sb.blk
       /\ sb.blk + Cardinality(Owed(itable)) <= Limit - 2

SameLost == Unowned(itable', dbmap') = Unowned(itable, dbmap)

LEMMA LostFinite ==
    ASSUME Types
    PROVE  /\ IsFiniteSet(Unowned(itable, dbmap))
           /\ Cardinality(Unowned(itable, dbmap)) \in Nat
<1>1. IsFiniteSet(Blocks)
  <2>1. 0 \in Int /\ NumBlocks - 1 \in Int
    OBVIOUS
  <2> QED
    BY <2>1, FS_Interval DEF Blocks
<1>2. Unowned(itable, dbmap) \subseteq Blocks
  BY DEF Types, TypeOK, Unowned
<1> QED
  BY <1>1, <1>2, FS_Subset, FS_CardinalityType

LEMMA LimitType == ASSUME Types PROVE Limit \in Int /\ disk.sb.ino <= Limit
  BY LostFinite DEF Limit, Types, TypeOK, SbType

LEMMA OwedFinite ==
    ASSUME NEW it
    PROVE  /\ IsFiniteSet(Owed(it)) /\ Cardinality(Owed(it)) \in Nat
           /\ \A i \in Owed(it) : Cardinality(Owed(it) \ {i}) = Cardinality(Owed(it)) - 1
           /\ \A i : i \notin Owed(it)
                       => Cardinality(Owed(it) \cup {i}) = Cardinality(Owed(it)) + 1
           /\ \A S \in SUBSET Owed(it) : /\ Cardinality(S) \in Nat
                                         /\ Cardinality(S) <= Cardinality(Owed(it))
<1>1. IsFiniteSet(Inos)
  <2>1. 0 \in Int /\ NumInodes - 1 \in Int
    OBVIOUS
  <2> QED
    BY <2>1, FS_Interval DEF Inos
<1>2. IsFiniteSet(Owed(it))
  BY <1>1, FS_Subset DEF Owed
<1>3. Cardinality(Owed(it)) \in Nat
  BY <1>2, FS_CardinalityType
<1>4. \A i \in Owed(it) : Cardinality(Owed(it) \ {i}) = Cardinality(Owed(it)) - 1
  BY <1>2, FS_RemoveElement
<1>5. \A i : i \notin Owed(it)
               => Cardinality(Owed(it) \cup {i}) = Cardinality(Owed(it)) + 1
  BY <1>2, FS_AddElement
<1>6. \A S \in SUBSET Owed(it) : /\ Cardinality(S) \in Nat
                                 /\ Cardinality(S) <= Cardinality(Owed(it))
  BY <1>2, FS_Subset, FS_CardinalityType
<1> QED
  BY <1>2, <1>3, <1>4, <1>5, <1>6

LEMMA LowInit == Init => Low
<1> SUFFICES ASSUME Init PROVE Low
  OBVIOUS
<1>1. /\ sb = FormatSb /\ dbmap = {0} /\ itable = FormatItable /\ blk_hint = 1
      /\ disk.sb = FormatSb
  BY DEF Init, Loaded, FormatDisk, FormatSb
<1>2. Owed(itable) = {}
  BY <1>1 DEF Owed, FormatItable, DirInode, ZeroInode
<1>3. Cardinality(Owed(itable)) = 0
  BY <1>2, FS_EmptySet
<1>4. Unowned(itable, dbmap) = {}
  BY BlockInit
<1>5. Cardinality(Unowned(itable, dbmap)) = 0
  BY <1>4, FS_EmptySet
<1> QED
  BY <1>1, <1>3, <1>5 DEF Low, RoomBelow, FormatSb, Limit

(***************************************************************************)
(* A step that gives out no block and owes none to a new file.             *)
(***************************************************************************)
LEMMA LowKept ==
    ASSUME Types, Types', Low, SameLost,
           dbmap' \subseteq dbmap, Owed(itable') \subseteq Owed(itable),
           disk.sb.ino <= disk'.sb.ino,
           blk_hint' = blk_hint \/ blk_hint' = disk.sb.blk,
           sb'.blk = sb.blk, disk'.sb.blk = sb.blk
    PROVE  Low'
<1> DEFINE k == Cardinality(Owed(itable))
<1>1. PICK m : m = Cardinality(Owed(itable'))
  OBVIOUS
<1>2. m \in Nat /\ k \in Nat /\ m <= k
  BY <1>1, OwedFinite
<1>3. /\ dbmap \in SUBSET Int /\ blk_hint \in Int /\ disk.sb.ino \in Int
      /\ disk'.sb.ino \in Int /\ sb.blk \in Int
  BY DEF Types, TypeOK, SbType, Blocks
<1>4. PICK z : z = Cardinality(Unowned(itable, dbmap)) /\ z = Cardinality(Unowned(itable', dbmap'))
  BY DEF SameLost
<1>5. z \in Nat
  BY <1>4, LostFinite
<1>6. Limit = disk.sb.ino + z /\ Limit' = disk'.sb.ino + z
  BY <1>4 DEF Limit
<1> QED
  BY <1>1, <1>2, <1>3, <1>5, <1>6 DEF Low, RoomBelow

(***************************************************************************)
(* The block a scan gives out has room for as many more as a clear hint.   *)
(***************************************************************************)
LEMMA NextBlkLow ==
    ASSUME Types, Low, NextBlk < NumBlocks
    PROVE  /\ NextBlk \in Int
           /\ NextBlk + Cardinality(Owed(itable)) <= Limit - 2
<1>1. NextBlk \in Blocks /\ blk_hint \in 0..NumBlocks /\ NumBlocks \in Nat \ {0}
  BY NextIsFree DEF Types, TypeOK
<1>2. NextBlk <= blk_hint \/ NextBlk - 1 \in dbmap
  BY <1>1, ScanNear DEF NextBlk
<1>3. Cardinality(Owed(itable)) \in Nat /\ Limit \in Int
  BY OwedFinite, LimitType
<1> QED
  BY <1>1, <1>2, <1>3 DEF Low, RoomBelow, Blocks

LEMMA MkdirLow ==
    ASSUME Base, Low, SameLost, NEW p \in Dirs, NEW n \in Names, MkdirDone(p, n)
    PROVE  Low'
<1> DEFINE i == NextIno
           it == [itable EXCEPT ![i] = DirInode(NextBlk)]
<1>1. /\ i \in Inos /\ itable[i].type = "NONE" /\ p \in Inos /\ NextBlk \in Blocks
      /\ i = sb.ino /\ itable \in [Inos -> InodeType] /\ sb \in SbType
  BY NextInoUnused, NextIsFree, NextInoIsHint DEF MkdirDone, Dirs, Base, Types, TypeOK
<1>2. it \in [Inos -> InodeType] /\ itable' = inc_link(it, p)
  BY <1>1, InodeTypes DEF MkdirDone
<1>3. \A j \in Inos : itable'[j].type = it[j].type /\ itable'[j].size = it[j].size
  BY <1>1, <1>2, LinkTypes
<1>4. Owed(itable') = Owed(itable)
  BY <1>1, <1>3 DEF Owed, DirInode
<1>5. PICK k : k = Cardinality(Owed(itable)) /\ k = Cardinality(Owed(itable'))
  BY <1>4
<1>6. /\ sb'.ino = sb.ino + 1 /\ sb'.blk = NextBlk /\ disk'.sb = sb'
  BY <1>1 DEF MkdirDone, FlushAll, take_ino, dec_free_inodes, dec_free_blocks, SbType
<1>7. /\ dbmap' = dbmap \cup {NextBlk} /\ blk_hint' = blk_hint
  BY DEF MkdirDone
<1>8. NextBlk \in Int /\ NextBlk + k <= Limit - 2
  BY <1>5, NextBlkLow DEF Base, MkdirDone
<1>9. /\ k \in Nat /\ disk.sb.ino \in Int /\ sb.ino \in Int /\ disk.sb.ino <= sb.ino
      /\ dbmap \in SUBSET Int /\ blk_hint \in Int
  BY <1>5, OwedFinite DEF Base, Types, TypeOK, SbType, Blocks, Numbers, HintsKept
<1>10. PICK z : z = Cardinality(Unowned(itable, dbmap)) /\ z = Cardinality(Unowned(itable', dbmap'))
  BY DEF SameLost
<1>11. z \in Nat /\ Limit = disk.sb.ino + z /\ Limit' = sb.ino + 1 + z
  BY <1>6, <1>10, LostFinite DEF Limit, Base
<1> QED
  BY <1>5, <1>6, <1>7, <1>8, <1>9, <1>11 DEF Low, RoomBelow

LEMMA CreateLow ==
    ASSUME Base, Low, SameLost, NEW p \in Dirs, NEW n \in Names, CreateDone(p, n)
    PROVE  Low'
<1> DEFINE i == NextIno
<1>1. /\ i \in Inos /\ itable[i].type = "NONE" /\ i = sb.ino
      /\ itable \in [Inos -> InodeType] /\ sb \in SbType
  BY NextInoUnused, NextInoIsHint DEF CreateDone, Base, Types, TypeOK
<1>2. itable' = [itable EXCEPT ![i] = FileInode]
  BY DEF CreateDone
<1>3. Owed(itable') = Owed(itable) \cup {i} /\ i \notin Owed(itable)
  BY <1>1, <1>2 DEF Owed, FileInode
<1>4. PICK k, m : /\ k = Cardinality(Owed(itable)) /\ m = Cardinality(Owed(itable'))
                  /\ m = k + 1
  BY <1>3, OwedFinite
<1>5. /\ sb'.ino = sb.ino + 1 /\ sb'.blk = sb.blk /\ disk'.sb = sb'
  BY <1>1 DEF CreateDone, take_ino, dec_free_inodes, SbType, Base, Types, TypeOK
<1>6. dbmap' = dbmap /\ blk_hint' = blk_hint
  BY DEF CreateDone
<1>7. /\ k \in Nat /\ disk.sb.ino \in Int /\ sb.ino \in Int /\ disk.sb.ino <= sb.ino
      /\ dbmap \in SUBSET Int /\ blk_hint \in Int /\ sb.blk \in Int
  BY <1>4, OwedFinite DEF Base, Types, TypeOK, SbType, Blocks, Numbers, HintsKept
<1>8. PICK z : z = Cardinality(Unowned(itable, dbmap)) /\ z = Cardinality(Unowned(itable', dbmap'))
  BY DEF SameLost
<1>9. z \in Nat /\ Limit = disk.sb.ino + z /\ Limit' = sb.ino + 1 + z
  BY <1>5, <1>8, LostFinite DEF Limit, Base
<1> QED
  BY <1>4, <1>5, <1>6, <1>7, <1>9 DEF Low, RoomBelow

(***************************************************************************)
(* The first write of a file takes the block it was owed.  One through the *)
(* handle of a deleted file takes a block that is lost.                    *)
(***************************************************************************)
LEMMA WriteLow ==
    ASSUME Base, Types', BlockUse, Low, NEW f \in Fids, Write(f)
    PROVE  Low'
<1> DEFINE x    == file_table[f]
           node == itable[x]
<1>1. /\ itable \in [Inos -> InodeType] /\ sb \in SbType /\ x \in Inos
      /\ x # 0 /\ node \in InodeType
  BY DEF Base, Types, TypeOK, Write
<1>2. PICK nd \in InodeType :
         /\ itable' = [itable EXCEPT ![WriteHome(f)] = nd]
         /\ nd.type = node.type /\ nd.size = 1
         /\ \/ /\ node.size = 0 /\ NextBlk < NumBlocks
               /\ dbmap' = dbmap \cup {NextBlk} /\ sb' = dec_free_blocks(sb)
            \/ node.size > 0 /\ UNCHANGED <<sb, dbmap>>
  BY WriteEffect DEF Base
<1>3. /\ disk'.sb = sb' /\ blk_hint' = blk_hint /\ sb'.blk = sb.blk /\ sb'.ino = sb.ino
      /\ disk.sb.ino <= sb.ino
  BY <1>1, <1>2 DEF Write, dec_free_blocks, SbType, Base, Types, TypeOK, Numbers, HintsKept
<1>4. Loses(f) /\ itable[0].type = "NONE" /\ 0 \in Inos
  BY WriteBlocks DEF Base, Numbers, LiveKept, Inos
<1>5. /\ disk.sb.ino \in Int /\ sb.ino \in Int
      /\ dbmap \in SUBSET Int /\ blk_hint \in Int /\ sb.blk \in Int
  BY DEF Base, Types, TypeOK, SbType, Blocks
<1>6. CASE node.type = "NONE"
  <2>1. itable' = [itable EXCEPT ![0] = nd] /\ nd.type = "NONE"
    BY <1>2, <1>6 DEF WriteHome
  <2>2. Owed(itable') = Owed(itable)
    BY <1>1, <1>4, <2>1 DEF Owed
  <2>3. PICK k : k = Cardinality(Owed(itable)) /\ k = Cardinality(Owed(itable'))
    BY <2>2
  <2>4. node.size = 0
    BY <1>1, <1>6 DEF BlockUse, FreedEmpty
  <2>5. NextBlk < NumBlocks /\ dbmap' = dbmap \cup {NextBlk}
    BY <1>2, <2>4
  <2>6. NextBlk \in Int /\ NextBlk + k <= Limit - 2 /\ k \in Nat
    BY <2>3, <2>5, NextBlkLow, OwedFinite DEF Base
  <2>7. /\ Unowned(itable', dbmap') = Unowned(itable, dbmap) \cup {NextBlk}
        /\ NextBlk \notin Unowned(itable, dbmap)
    BY <1>4, <1>6 DEF Loses, Stale, Unowned
  <2>8. PICK y, z : /\ y = Cardinality(Unowned(itable, dbmap))
                    /\ z = Cardinality(Unowned(itable', dbmap'))
                    /\ y \in Nat /\ z = y + 1
    BY <2>7, LostFinite, FS_AddElement DEF Base
  <2>9. Limit = disk.sb.ino + y /\ Limit' = sb.ino + y + 1
    BY <1>3, <1>5, <2>8 DEF Limit
  <2> QED
    BY <1>3, <1>5, <2>3, <2>5, <2>6, <2>8, <2>9 DEF Low, RoomBelow
<1>7. CASE node.type # "NONE"
  <2>1. node.type = "FILE" /\ itable' = [itable EXCEPT ![x] = nd]
    BY <1>1, <1>2, <1>7 DEF BlockUse, HandlesOfFiles, InodeType, WriteHome
  <2>2. SameLost
    BY <1>4, <1>7 DEF Loses, Stale, SameLost
  <2>3. Owed(itable') = Owed(itable) \ {x}
    BY <1>1, <1>2, <2>1 DEF Owed
  <2>4. CASE node.size > 0
    <3>1. dbmap' = dbmap
      BY <1>1, <1>2, <2>4
    <3> QED
      BY <1>3, <2>2, <2>3, <3>1, LowKept DEF Base
  <2>5. CASE node.size = 0
    <3>1. NextBlk < NumBlocks /\ dbmap' = dbmap \cup {NextBlk}
      BY <1>2, <2>5
    <3>2. x \in Owed(itable)
      BY <1>1, <2>1, <2>5 DEF Owed
    <3>3. PICK k, m : /\ k = Cardinality(Owed(itable)) /\ m = Cardinality(Owed(itable'))
                      /\ m = k - 1 /\ k \in Nat
      BY <2>3, <3>2, OwedFinite
    <3>4. NextBlk \in Int /\ NextBlk + k <= Limit - 2
      BY <3>1, <3>3, NextBlkLow DEF Base
    <3>5. PICK z : /\ z = Cardinality(Unowned(itable, dbmap))
                   /\ z = Cardinality(Unowned(itable', dbmap'))
      BY <2>2 DEF SameLost
    <3>6. z \in Nat /\ Limit = disk.sb.ino + z /\ Limit' = sb.ino + z
      BY <1>3, <3>5, LostFinite DEF Limit, Base
    <3> QED
      BY <1>3, <1>5, <3>1, <3>3, <3>4, <3>6 DEF Low, RoomBelow
  <2> QED
    BY <1>1, <2>4, <2>5 DEF InodeType
<1> QED
  BY <1>6, <1>7

LEMMA RmdirLow ==
    ASSUME Base, Types', Low, SameLost, NEW p \in Dirs, NEW n \in Names, Rmdir(p, n)
    PROVE  Low'
<1> DEFINE it == [itable EXCEPT ![Child(p, n)] = ZeroInode]
<1>1. /\ p \in Inos /\ Child(p, n) \in Inos /\ itable \in [Inos -> InodeType] /\ sb \in SbType
  BY DEF Rmdir, Dirs, Base, Types, TypeOK
<1>2. it \in [Inos -> InodeType] /\ itable' = dec_link(it, p)
  BY <1>1, InodeTypes DEF Rmdir
<1>3. \A j \in Inos : itable'[j].type = it[j].type /\ itable'[j].size = it[j].size
  BY <1>1, <1>2, LinkTypes
<1>4. Owed(itable') \subseteq Owed(itable)
  BY <1>1, <1>3 DEF Owed, ZeroInode
<1>5. /\ disk'.sb = sb' /\ sb'.ino = sb.ino /\ sb'.blk = sb.blk
      /\ dbmap' \subseteq dbmap /\ blk_hint' = blk_hint
  BY <1>1 DEF Rmdir, FlushAll, inc_free_inodes, inc_free_blocks, SbType
<1>6. disk.sb.ino <= sb.ino
  BY DEF Base, Numbers, HintsKept
<1> QED
  BY <1>4, <1>5, <1>6, LowKept DEF Base

LEMMA UnlinkLow ==
    ASSUME Base, Types', Low, SameLost, NEW p \in Dirs, NEW n \in Names, Unlink(p, n)
    PROVE  Low'
<1>1. Child(p, n) \in Inos /\ itable \in [Inos -> InodeType] /\ sb \in SbType
  BY DEF Unlink, Files, Base, Types, TypeOK
<1>2. Owed(itable') \subseteq Owed(itable)
  BY <1>1 DEF Unlink, Owed, ZeroInode
<1>3. /\ disk'.sb = sb' /\ sb'.ino = sb.ino /\ sb'.blk = sb.blk
      /\ dbmap' \subseteq dbmap /\ blk_hint' = blk_hint
  BY <1>1 DEF Unlink, FlushAll, inc_free_inodes, inc_free_blocks, SbType
<1>4. disk.sb.ino <= sb.ino
  BY DEF Base, Numbers, HintsKept
<1> QED
  BY <1>2, <1>3, <1>4, LowKept DEF Base

LEMMA RestLow ==
    ASSUME Base, Types', Low, SameLost,
           \/ OpenStep \/ InPlaceStep \/ MoveStep \/ StillStep \/ MkdirNoBlock \/ Restart
           \/ \E f \in Fids : Release(f)
    PROVE  Low'
<1>1. itable' = itable /\ dbmap' = dbmap /\ disk' = disk
  BY DEF OpenStep, InPlaceStep, MoveStep, StillStep, Open, RenameInPlace, MoveEntry,
         NoInode, WriteNoBlock, MkdirNoBlock, Release, Restart, vars, mem, Base, Stored
<1>2. disk.sb.blk = sb.blk /\ disk.sb.ino \in Int
  BY DEF Low, Base, Types, TypeOK, SbType
<1>3. (blk_hint' = blk_hint \/ blk_hint' = disk.sb.blk) /\ sb'.blk = sb.blk
  <2>1. CASE MkdirNoBlock
    BY <2>1, NextIsFree DEF MkdirNoBlock, take_ino, dec_free_inodes, Base, Types, TypeOK, SbType
  <2>2. CASE Restart
    BY <1>2, <2>2 DEF Restart
  <2> QED
    BY <2>1, <2>2 DEF OpenStep, InPlaceStep, MoveStep, StillStep, Open, RenameInPlace,
                      MoveEntry, NoInode, WriteNoBlock, Release, vars, mem
<1> QED
  BY <1>1, <1>2, <1>3, LowKept DEF Base

(***************************************************************************)
(* No block lies further into the data area than numbers were given out    *)
(* and blocks lost, on a device of any size: the one cluster of the block  *)
(* bitmap has far more bits than there are numbers, so only lost blocks    *)
(* can have a bit past it.                                                 *)
(***************************************************************************)
THEOREM BlocksStayLow == Spec => []BlocksLow
<1> DEFINE Inv == Bound /\ Low
<1>1. Init => Inv
  BY TypesInit, StoredInit, NumbersInit, BlockInit, LowInit DEF Bound, Base
<1>2. Inv /\ [Next]_vars => Inv'
  <2> SUFFICES ASSUME Inv, [Next]_vars PROVE Inv'
    OBVIOUS
  <2>1. Bound'
    BY TypesStep, StoredStep, NumbersStep, BlockStep DEF Bound, Base
  <2>2. Base /\ Types' /\ BlockUse /\ Low
    BY <2>1 DEF Bound, Base
  <2>3. ASSUME MkdirStep PROVE Low'
    BY <2>2, <2>3, MkdirLow, MkdirBlocks DEF MkdirStep, UseKept, SameLost
  <2>4. ASSUME CreateStep PROVE Low'
    BY <2>2, <2>4, CreateLow, CreateBlocks DEF CreateStep, UseKept, SameLost
  <2>5. ASSUME RmdirStep PROVE Low'
    BY <2>2, <2>5, RmdirLow, RmdirBlocks DEF RmdirStep, UseKept, SameLost
  <2>6. ASSUME UnlinkStep PROVE Low'
    BY <2>2, <2>6, UnlinkLow, UnlinkBlocks DEF UnlinkStep, UseKept, SameLost
  <2>7. ASSUME HandleStep PROVE Low'
    BY <2>2, <2>7, WriteLow, RestLow, RestBlocks DEF HandleStep, UseKept, SameLost
  <2>8. ASSUME OpenStep \/ InPlaceStep \/ MoveStep \/ StillStep \/ MkdirNoBlock \/ Restart PROVE Low'
    BY <2>2, <2>8, RestLow, RestBlocks DEF UseKept, SameLost
  <2>9. Low'
    BY <2>3, <2>4, <2>5, <2>6, <2>7, <2>8, StepCases
  <2> QED
    BY <2>1, <2>9
<1>3. Inv => BlocksLow
  <2> SUFFICES ASSUME Inv, NEW b \in dbmap
               PROVE  b <= sb.ino - NumReserved + Cardinality(Lost)
    BY DEF BlocksLow
  <2>1. /\ b \in Int /\ disk.sb.ino \in Int /\ sb.ino \in Int /\ disk.sb.ino <= sb.ino
    BY DEF Bound, Base, Types, TypeOK, SbType, Blocks, Numbers, HintsKept
  <2>2. Cardinality(Owed(itable)) \in Nat
    BY OwedFinite
  <2>3. PICK z : z = Cardinality(Lost) /\ z \in Nat /\ Limit = disk.sb.ino + z
    BY LostAre, LostFinite DEF Bound, Base, Limit
  <2> QED
    BY <2>1, <2>2, <2>3 DEF Low, RoomBelow
<1> QED
  BY <1>1, <1>2, <1>3, PTL DEF Spec
=============================================================================
