------------------------------- MODULE Lab4FS -------------------------------
(***************************************************************************)
(* The mounted file system: the namespace and the allocation of inodes and *)
(* blocks, at the granularity of one FUSE handler.                         *)
(*                                                                         *)
(* A handler (lab4_mkdir, lab4_create, ...) reads and writes three kinds   *)
(* of state: the buffers loaded at mount (super block, two bitmaps, inode  *)
(* table), the copies of those on the device, which update_* rewrites, and *)
(* the blocks of the data area, which are read and written in place.  A    *)
(* handler runs to its end before the next one starts, as when one client  *)
(* waits for each of its calls or the file system is mounted with -s.      *)
(*                                                                         *)
(* Left out: times, owners, modes, versions and i_ptr, which no handler    *)
(* reads back; byte offsets inside a file (every write here is at offset   *)
(* 0 and one slot long); errors of pread, pwrite and malloc.               *)
(*                                                                         *)
(* An operator whose name ends in _ and a word is a variant of the one     *)
(* after it with a bug the code does not have: no specification uses it,   *)
(* it is put in place of the other to see a property fail.                 *)
(***************************************************************************)
EXTENDS Integers, FiniteSets, Lab4Bmap, Lab4Graph

CONSTANTS
    NumInodes,    \* ibitmap_size / LAB4_INODE_ENTRY_SIZE
    NumBlocks,    \* darea_size / cluster_size
    DirSlots,     \* LAB4_DIR_ENTRY_NUM, what the size of a directory holds
    MaxOpenFile,  \* MAX_OPEN_FILE
    Names         \* file names a client may use

NumReserved == 3      \* LAB4_NUM_RESV_INO
Root        == 2      \* LAB4_ROOT_INO
StartOpenFile == 3    \* START_OPEN_FILE

ASSUME SizeAssumption ==
    /\ NumInodes \in Nat /\ NumInodes > NumReserved
    /\ NumBlocks \in Nat \ {0}
    /\ DirSlots \in Nat /\ DirSlots > 2 /\ DirSlots <= NumInodes
    /\ MaxOpenFile \in Nat /\ MaxOpenFile > StartOpenFile

\* Each directory has slots for all the inodes that can be named.  On a
\* device with sectors of 512 bytes a cluster has 4096 bytes, and the inode
\* table and a directory have one each: both hold 32 of 128 bytes.  With
\* sectors of 4096 bytes a cluster has eight times that, and so has the
\* table, but the size of a directory is still 32 entries.
RoomForAll == DirSlots >= NumInodes - 1

ASSUME NamesAssumption == Names \cap {"", ".", ".."} = {}

Inos   == 0..(NumInodes - 1)
Blocks == 0..(NumBlocks - 1)
Slots  == 0..(DirSlots - 1)
Fids   == StartOpenFile..(MaxOpenFile - 1)

\* The slots of a cluster, as many as the inodes of the table.
BlockSlots == 0..(NumInodes - 1)

VARIABLES
    sb,          \* iom->sb: the two hints and the two free counts
    blk_hint,    \* sbi->last_allocated_blknr, copied from sb at mount only
    ibmap,       \* iom_buf_ibmap
    dbmap,       \* iom_buf_dbmap
    itable,      \* iom_buf_itble
    freed,       \* a scan has freed its bitmap, the pointer is still in use
    file_table,  \* sbi->file_table: fid |-> ino, 0 when unused
    disk,        \* the sb, bitmap and inode table clusters on the device
    area         \* the blocks of the data area, as directory slots

mem  == <<sb, blk_hint, ibmap, dbmap, itable, freed>>
vars == <<mem, file_table, disk, area>>

-----------------------------------------------------------------------------
(* Inodes and directory entries.                                           *)

\* i_blocks[0] = 0 is byte 0 of the device, four clusters before the area.
NoBlock == -4

ZeroInode == [type |-> "NONE", size |-> 0, links |-> 0, blk |-> NoBlock]

DirInode(b) == [type |-> "DIR", size |-> DirSlots, links |-> 2, blk |-> b]

FileInode == [type |-> "FILE", size |-> 0, links |-> 1, blk |-> NoBlock]

Entry(n, i) == [flag |-> "USED", name |-> n, ino |-> i]

EmptySlot == [flag |-> "EMPTY", name |-> "", ino |-> 0]
DataSlot  == [flag |-> "DATA", name |-> "", ino |-> 0]
ZeroBlock == [s \in BlockSlots |-> EmptySlot]

NewDirBlock(i, parent) ==
    [ZeroBlock EXCEPT ![0] = Entry(".", i), ![1] = Entry("..", parent)]

inc_link(it, p) == [it EXCEPT ![p].links = @ + 1]
dec_link(it, p) == [it EXCEPT ![p].links = @ - 1]

Dirs  == {d \in Inos : itable[d].type = "DIR"}
Files == {f \in Inos : itable[f].type = "FILE"}

Slot(d, s) == area[itable[d].blk][s]

UsedSlots(d) == {s \in Slots : Slot(d, s).flag = "USED"}

-----------------------------------------------------------------------------
(* Lookup and path resolution.                                             *)

Hits(d, n) == {s \in UsedSlots(d) : Slot(d, s).name = n}

Found(d, n) == Hits(d, n) # {}

\* The slot lab4_lookup stops at, and the inode it returns.
LookupSlot(d, n) == Min(Hits(d, n))
Child(d, n) == Slot(d, LookupSlot(d, n)).ino

\* What paths lead to from the inodes of S: lab4_read_inode, name by name.
Walk(S) ==
    Closure(S, {<<p[1], Child(p[1], p[2])>> :
                   p \in {q \in Dirs \X Names : Found(q[1], q[2])}})

\* The directories a path names.
NamedDirs == Walk({Root}) \cap Dirs

FreeSlot_EmptyOnly(d) ==
    LET F == {s \in Slots : Slot(d, s).flag = "EMPTY"}
    IN  IF F = {} THEN DirSlots ELSE Min(F)

\* The first slot that is not USED, DirSlots when there is none.
FreeSlot(d) == IF Slots \ UsedSlots(d) = {} THEN DirSlots
               ELSE Min(Slots \ UsedSlots(d))

-----------------------------------------------------------------------------
(* Writes to the device.                                                   *)

\* pwrite of one entry at slot s of block b: one past the last slot of the
\* cluster is the first slot of the next one, and past the last block the
\* write fails, which no caller looks at.
WriteSlot(a, b, s, cell) ==
    IF s < NumInodes THEN [a EXCEPT ![b][s] = cell]
    ELSE IF b + 1 < NumBlocks THEN [a EXCEPT ![b + 1][0] = cell]
    ELSE a

DeleteSlot_Forgotten(a, d, s) == a

\* The looked-up entry written back with its flag changed (isdelete = 1).
DeleteSlot(a, d, s) ==
    WriteSlot(a, itable[d].blk, s, [Slot(d, s) EXCEPT !.flag = "DELETED"])

FlushAll_NoIbmap == disk' = [sb |-> sb', ibmap |-> disk.ibmap, dbmap |-> dbmap',
                             itable |-> itable']
FlushAll_NoDbmap == disk' = [sb |-> sb', ibmap |-> ibmap', dbmap |-> disk.dbmap,
                             itable |-> itable']

\* update_sb, update_ibmap, update_dbmap and update_itble in a row.
FlushAll == disk' = [sb |-> sb', ibmap |-> ibmap', dbmap |-> dbmap', itable |-> itable']

-----------------------------------------------------------------------------
(* The formatted device, just mounted.                                     *)

FormatSb == [ino |-> NumReserved, blk |-> 1,
             free_inodes |-> NumInodes - NumReserved, free_blocks |-> NumBlocks]

FormatItable == [i \in Inos |-> IF i = Root THEN DirInode(0) ELSE ZeroInode]

\* The format clears the root block only: the others keep what was there.
FormatArea == [b \in Blocks |-> IF b = 0 THEN NewDirBlock(Root, Root)
                                ELSE [s \in BlockSlots |-> DataSlot]]

FormatDisk == [sb |-> FormatSb, ibmap |-> 0..(NumReserved - 1), dbmap |-> {0},
               itable |-> FormatItable]

\* check_formated and lab4_fill_super on the device contents d.
Loaded(d) == /\ sb = d.sb /\ blk_hint = d.sb.blk
             /\ ibmap = d.ibmap /\ dbmap = d.dbmap /\ itable = d.itable
             /\ freed = FALSE
             /\ file_table = [f \in Fids |-> 0]

Init == /\ disk = FormatDisk
        /\ area = FormatArea
        /\ Loaded(disk)

-----------------------------------------------------------------------------
(* Allocation.                                                             *)

NextBlk_Unchecked == Min({Scan(dbmap, blk_hint, NumBlocks), NumBlocks - 1})
NextBlk_PastHint  == Scan(dbmap, blk_hint + 1, NumBlocks)

NextIno == Scan(ibmap, sb.ino, NumInodes)
NextBlk == Scan(dbmap, blk_hint, NumBlocks)

inc_free_blocks_Twice(s) == [s EXCEPT !.free_blocks = @ + 2]

inc_free_inodes(s) == [s EXCEPT !.free_inodes = @ + 1]
dec_free_inodes(s) == [s EXCEPT !.free_inodes = @ - 1]
inc_free_blocks(s) == [s EXCEPT !.free_blocks = @ + 1]
dec_free_blocks(s) == [s EXCEPT !.free_blocks = @ - 1]

take_ino_HintTwice(s, i) == dec_free_inodes([s EXCEPT !.ino = i + 2])
take_ino_HintKept(s, i)  == dec_free_inodes(s)

\* alloc_new_inode: the number is taken and both hints move past it.
take_ino(s, i) == dec_free_inodes([s EXCEPT !.ino = i + 1])

\* No inode number: the scan frees iom_buf_ibmap, restore_ibmap reads the
\* device copy into the freed buffer and the handler returns an error.  A
\* second failing scan, of either bitmap, frees a chunk next to or in a
\* freed one and glibc aborts the process: that is Restart.
NoInode == /\ NextIno = NumInodes
           /\ ~freed
           /\ ibmap' = disk.ibmap
           /\ freed' = TRUE
           /\ UNCHANGED <<sb, blk_hint, dbmap, itable, file_table, disk, area>>

-----------------------------------------------------------------------------
(* Directories.                                                            *)

\* do_mkdir when no block is left: the number and the hint stay taken in
\* memory, nothing is flushed.
MkdirNoBlock ==
    /\ NextIno < NumInodes
    /\ NextBlk = NumBlocks
    /\ ~freed
    /\ ibmap' = ibmap \cup {NextIno}
    /\ sb' = take_ino(sb, NextIno)
    /\ dbmap' = disk.dbmap
    /\ freed' = TRUE
    /\ UNCHANGED <<blk_hint, itable, file_table, disk, area>>

\* do_mkdir: the entry goes to the parent's first slot not USED, then the
\* whole block of the new directory is written.
MkdirDone(p, n) ==
    LET i == NextIno
        b == NextBlk
    IN  /\ i < NumInodes
        /\ b < NumBlocks
        /\ ibmap' = ibmap \cup {i}
        /\ dbmap' = dbmap \cup {b}
        /\ sb' = [dec_free_blocks(take_ino(sb, i)) EXCEPT !.blk = b]
        /\ itable' = inc_link([itable EXCEPT ![i] = DirInode(b)], p)
        /\ area' = [WriteSlot(area, itable[p].blk, FreeSlot(p), Entry(n, i))
                        EXCEPT ![b] = NewDirBlock(i, p)]
        /\ FlushAll
        /\ UNCHANGED <<blk_hint, freed, file_table>>

Mkdir_Unchecked(p, n) == NoInode \/ MkdirNoBlock \/ MkdirDone(p, n)

Mkdir(p, n) == /\ ~Found(p, n)
               /\ NoInode \/ MkdirNoBlock \/ MkdirDone(p, n)

Deletable_OffByOne(d) == UsedSlots(d) \subseteq {0, 1, 2}

\* check_dir_deletable: nothing is in use past "." and "..".
Deletable(d) == UsedSlots(d) \subseteq {0, 1}

\* do_rmdir of the empty directory n of p (the kernel has seen that it is a
\* directory): its block is zeroed, then its entry in p flagged DELETED.
Rmdir(p, n) ==
    LET x == Child(p, n)
    IN  /\ Found(p, n)
        /\ x \in Dirs
        /\ Deletable(x)
        /\ ibmap' = ibmap \ {x}
        /\ dbmap' = dbmap \ {itable[x].blk}
        /\ sb' = inc_free_blocks(inc_free_inodes(sb))
        /\ itable' = dec_link([itable EXCEPT ![x] = ZeroInode], p)
        /\ area' = DeleteSlot([area EXCEPT ![itable[x].blk] = ZeroBlock],
                              p, LookupSlot(p, n))
        /\ FlushAll
        /\ UNCHANGED <<blk_hint, freed, file_table>>

-----------------------------------------------------------------------------
(* Files.                                                                  *)

\* lab4_allocate_open_file_table: the lowest unused fid, if any.
FreeFids == {f \in Fids : file_table[f] = 0}

OpenFid(i) == IF FreeFids = {} THEN file_table
              ELSE [file_table EXCEPT ![Min(FreeFids)] = i]

\* lab4_createfile, then the open of what it made: with the table full the
\* call fails and the file stays.  free_inodes goes down twice.
CreateDone(p, n) ==
    LET i == NextIno
    IN  /\ i < NumInodes
        /\ ibmap' = ibmap \cup {i}
        /\ sb' = dec_free_inodes(take_ino(sb, i))
        /\ itable' = [itable EXCEPT ![i] = FileInode]
        /\ area' = WriteSlot(area, itable[p].blk, FreeSlot(p), Entry(n, i))
        /\ disk' = [disk EXCEPT !.sb = sb', !.ibmap = ibmap', !.itable = itable']
        /\ file_table' = OpenFid(i)
        /\ UNCHANGED <<blk_hint, dbmap, freed>>

Create(p, n) == /\ ~Found(p, n)
                /\ NoInode \/ CreateDone(p, n)

\* do_openfile of a file that exists.
Open(p, n) == /\ Found(p, n)
              /\ Child(p, n) \in Files
              /\ FreeFids # {}
              /\ file_table' = OpenFid(Child(p, n))
              /\ UNCHANGED <<mem, disk, area>>

\* lab4_do_close.
Release(f) == /\ file_table[f] # 0
              /\ file_table' = [file_table EXCEPT ![f] = 0]
              /\ UNCHANGED <<mem, disk, area>>

\* do_write at offset 0 through handle f.  The first write of a file takes a
\* block and writes the data; a later one writes the whole cluster, zeroes
\* after the data.  The inode goes back to the table entry its i_ino names:
\* entry 0 once the inode of the handle has been deleted.
Write(f) ==
    LET i    == file_table[f]
        node == itable[i]
        home == IF node.type = "NONE" THEN 0 ELSE i
    IN  /\ i # 0
        /\ \/ /\ node.size = 0
              /\ NextBlk < NumBlocks
              /\ dbmap' = dbmap \cup {NextBlk}
              /\ sb' = dec_free_blocks(sb)
              /\ itable' = [itable EXCEPT ![home] =
                               [node EXCEPT !.size = 1, !.blk = NextBlk]]
              /\ area' = WriteSlot(area, NextBlk, 0, DataSlot)
           \/ /\ node.size > 0
              /\ itable' = [itable EXCEPT ![home] = [node EXCEPT !.size = 1]]
              /\ area' = [area EXCEPT ![node.blk] = [ZeroBlock EXCEPT ![0] = DataSlot]]
              /\ UNCHANGED <<sb, dbmap>>
        /\ disk' = [disk EXCEPT !.sb = sb', !.itable = itable', !.dbmap = dbmap']
        /\ UNCHANGED <<blk_hint, ibmap, freed, file_table>>

\* do_write of an empty file when no block is left: scan_allocate_dbmap frees
\* iom_buf_dbmap and restore_dbmap reads the device copy into it.
WriteNoBlock(f) == /\ file_table[f] # 0
                   /\ itable[file_table[f]].size = 0
                   /\ NextBlk = NumBlocks
                   /\ ~freed
                   /\ dbmap' = disk.dbmap
                   /\ freed' = TRUE
                   /\ UNCHANGED <<sb, blk_hint, ibmap, itable, file_table, disk, area>>

\* do_unlink of the last link, the only one a file ever has: there is no
\* lab4_link.  The inode may be open.  libfuse renames a file it knows to be
\* open out of the way instead (RenameInPlace), but not with -o hard_remove,
\* and it knows files by its own names for them: a rename to another
\* directory under a new name leaves the entry the old one, so an unlink of
\* that name is one of a file libfuse has never seen.
Unlink(p, n) ==
    LET x    == Child(p, n)
        node == itable[x]
    IN  /\ Found(p, n)
        /\ x \in Files
        /\ node.links = 1
        /\ ibmap' = ibmap \ {x}
        /\ itable' = [itable EXCEPT ![x] = ZeroInode]
        /\ \/ /\ node.size = 0
              /\ sb' = inc_free_inodes(sb)
              /\ area' = DeleteSlot(area, p, LookupSlot(p, n))
              /\ UNCHANGED dbmap
           \/ /\ node.size # 0
              /\ sb' = inc_free_inodes(inc_free_blocks(sb))
              /\ area' = DeleteSlot([area EXCEPT ![node.blk] = ZeroBlock],
                                    p, LookupSlot(p, n))
              /\ dbmap' = dbmap \ {node.blk}
        /\ FlushAll
        /\ UNCHANGED <<blk_hint, freed, file_table>>

-----------------------------------------------------------------------------
(* Rename.  Only directory blocks change: neither the inode table nor the  *)
(* link counts, nor the ".." of a directory that moves.                    *)

RenameInPlace_Unchecked(p, n, m) ==
    /\ Found(p, n)
    /\ area' = WriteSlot(area, itable[p].blk, LookupSlot(p, n),
                         [Slot(p, LookupSlot(p, n)) EXCEPT !.name = m])
    /\ UNCHANGED <<mem, file_table, disk>>

\* Nothing called `to' in the same directory: the entry is rewritten.
RenameInPlace(p, n, m) ==
    /\ Found(p, n)
    /\ ~Found(p, m)
    /\ area' = WriteSlot(area, itable[p].blk, LookupSlot(p, n),
                         [Slot(p, LookupSlot(p, n)) EXCEPT !.name = m])
    /\ UNCHANGED <<mem, file_table, disk>>

MoveEntry_NoDelete(p, n, t) ==
    /\ area' = WriteSlot(area, itable[t].blk, FreeSlot(t), Slot(p, LookupSlot(p, n)))
    /\ UNCHANGED <<mem, file_table, disk>>

\* The entry is written to the first free slot of t, under the name it had,
\* and then flagged DELETED in p.  With no free slot it is only deleted.
MoveEntry(p, n, t) ==
    LET cell == Slot(p, LookupSlot(p, n))
        a    == IF FreeSlot(t) < DirSlots
                THEN WriteSlot(area, itable[t].blk, FreeSlot(t), cell) ELSE area
    IN  /\ area' = DeleteSlot(a, p, LookupSlot(p, n))
        /\ UNCHANGED <<mem, file_table, disk>>

\* Nothing called `to' in another directory t.  The kernel does not move a
\* directory below itself.
RenameAcross(p, n, t, m) ==
    /\ Found(p, n)
    /\ p # t
    /\ ~Found(t, m)
    /\ t \notin Walk({Child(p, n)})
    /\ MoveEntry(p, n, t)

\* A directory called `to': the source goes into it.  The kernel lets only a
\* directory replace one, and none that is above or below the other.
RenameInto(p, n, t, m) ==
    LET x == Child(p, n)
        y == Child(t, m)
    IN  /\ Found(p, n) /\ Found(t, m)
        /\ x \in Dirs /\ y \in Dirs
        /\ y \notin Walk({x})
        /\ p \notin Walk({y})
        /\ ~Found(y, n)
        /\ MoveEntry(p, n, y)

-----------------------------------------------------------------------------
\* The process ends between two handlers, by fusermount, by a signal or by
\* glibc aborting it, and the device is mounted again.
Restart == /\ sb' = disk.sb /\ blk_hint' = disk.sb.blk
           /\ ibmap' = disk.ibmap /\ dbmap' = disk.dbmap /\ itable' = disk.itable
           /\ freed' = FALSE
           /\ file_table' = [f \in Fids |-> 0]
           /\ UNCHANGED <<disk, area>>

Next ==
    \/ LET D == NamedDirs
       IN  \E p \in D, n \in Names :
             \/ Mkdir(p, n) \/ Rmdir(p, n)
             \/ Create(p, n) \/ Open(p, n) \/ Unlink(p, n)
             \/ \E m \in Names : RenameInPlace(p, n, m)
             \/ \E t \in D, m \in Names : RenameAcross(p, n, t, m)
                                        \/ RenameInto(p, n, t, m)
    \/ \E f \in Fids : Release(f) \/ Write(f) \/ WriteNoBlock(f)
    \/ Restart

Spec == Init /\ [][Next]_vars

-----------------------------------------------------------------------------
(* Properties.                                                             *)

Live == {i \in Inos : itable[i].type # "NONE"}

\* The entries other than "." and ".." of the directories that exist.
Entries == {e \in Dirs \X Slots : e[2] > 1 /\ Slot(e[1], e[2]).flag = "USED"}

Target(e) == Slot(e[1], e[2]).ino

Cell == [flag : {"EMPTY", "USED", "DELETED", "DATA"},
         name : Names \cup {"", ".", ".."}, ino : Inos]

SbType == [ino : 0..NumInodes, blk : 0..NumBlocks,
           free_inodes : Int, free_blocks : Int]

InodeType == [type : {"NONE", "DIR", "FILE"}, size : {0, 1, DirSlots},
              links : Int, blk : Blocks \cup {NoBlock}]

(***************************************************************************)
(* The values the buffers, the device and the handles hold.                *)
(***************************************************************************)
TypeOK ==
    /\ sb \in SbType
    /\ blk_hint \in 0..NumBlocks
    /\ ibmap \subseteq Inos
    /\ dbmap \subseteq Blocks
    /\ itable \in [Inos -> InodeType]
    /\ freed \in BOOLEAN
    /\ file_table \in [Fids -> Inos]
    /\ disk \in [sb : SbType, ibmap : SUBSET Inos, dbmap : SUBSET Blocks,
                 itable : [Inos -> InodeType]]
    /\ area \in [Blocks -> [BlockSlots -> Cell]]

(***************************************************************************)
(* No entry dangles: what a directory names is an inode of the table whose *)
(* bit is set, and never the root.  mkdir, create, unlink, rmdir and       *)
(* rename each write the entry and the tables separately.                  *)
(***************************************************************************)
EntriesLive == \A e \in Entries : Target(e) \in (Live \cap ibmap) \ {Root}

(***************************************************************************)
(* Every inode in use but the root is named by exactly one entry, which a  *)
(* file's link count counts: rename neither loses nor duplicates what it   *)
(* moves, and no file outlives its name.                                   *)
(***************************************************************************)
OneEntryEach ==
    LET E == Entries
    IN  /\ \A i \in Live \ {Root} : Cardinality({e \in E : Target(e) = i}) = 1
        /\ \A i \in Files : itable[i].links = 1

(***************************************************************************)
(* Following entries down from the root reaches every inode in use, so the *)
(* directories form one tree whatever renames did to it.                   *)
(***************************************************************************)
Connected == Live = Closure({Root}, {<<e[1], Target(e)>> : e \in Entries})

\* The inodes that own a block of the data area.
Owners == {i \in Live : itable[i].size > 0}

(***************************************************************************)
(* A block has one owner and its bit is set: no block is handed out while  *)
(* it is in use, whatever handles of deleted files write.                  *)
(***************************************************************************)
BlocksExclusive ==
    /\ \A i, j \in Owners : itable[i].blk = itable[j].blk => i = j
    /\ \A i \in Owners : itable[i].blk \in dbmap

\* The blocks whose bit is set and that nobody owns.
Lost == dbmap \ {itable[i].blk : i \in Owners}

(***************************************************************************)
(* A block is lost only when its first write comes through the handle of a *)
(* file deleted since, which takes a block and stores the inode that would *)
(* own it in entry 0 of the table.  No other handler leaves a bit set for  *)
(* a block that it frees or does not use in the end, failing ones and      *)
(* restarts included, and no lost block comes back.                        *)
(***************************************************************************)
BlocksKept ==
    [][\/ Lost' = Lost
       \/ \E f \in Fids : Write(f) /\ itable[file_table[f]].type = "NONE"]_vars

(***************************************************************************)
(* The free block count of the super block counts the clear bits of the    *)
(* block bitmap and the root's block, which the format did not deduct.     *)
(***************************************************************************)
FreeBlocksExact == sb.free_blocks = NumBlocks + 1 - Cardinality(dbmap)

(***************************************************************************)
(* No block lies further into the data area than inode numbers were given  *)
(* out and blocks lost, although freed blocks come back, every mount moves *)
(* the hint, and files take theirs late.  The block bitmap is one cluster, *)
(* as the inode table is; scan_allocate_dbmap compares positions with the  *)
(* size of the data area, which may be far larger, and never with that:    *)
(* only lost blocks can lead it out of the buffer.                         *)
(***************************************************************************)
BlocksLow == \A b \in dbmap : b <= sb.ino - NumReserved + Cardinality(Lost)

(***************************************************************************)
(* While a number is left to give out, every directory has a slot for the  *)
(* new entry: mkdir and create do not check that their scan of the parent  *)
(* found one, and would write into the block that follows.                 *)
(***************************************************************************)
RoomToCreate == sb.ino < NumInodes => \A d \in Dirs : FreeSlot(d) < DirSlots

(***************************************************************************)
(* Between two handlers the device holds what the buffers hold, except for *)
(* numbers a failed mkdir took: no handler leaves out a cluster it changed *)
(* from those it rewrites, so a restart changes nothing a client can see.  *)
(***************************************************************************)
Durable ==
    /\ disk.itable = itable
    /\ disk.dbmap = dbmap
    /\ disk.sb.free_blocks = sb.free_blocks
    /\ Live \subseteq disk.ibmap
    /\ disk.ibmap \subseteq ibmap
    /\ \A i \in Live : i < disk.sb.ino

(***************************************************************************)
(* Creating a file in a directory that is full fails, as lab4_createfile   *)
(* means it to.                                                            *)
(***************************************************************************)
FullRefused ==
    [][\A p \in NamedDirs, n \in Names :
           FreeSlot(p) = DirSlots /\ Create(p, n) => itable' = itable]_vars

\* The numbers that entries, deleted ones included, and handles mention.
Mentioned == {area[b][s].ino : b \in Blocks, s \in BlockSlots}
                \cup {file_table[f] : f \in Fids}

(***************************************************************************)
(* A number given to a new inode is one nothing on the device or in the    *)
(* open file table has ever mentioned: entries flagged DELETED keep their  *)
(* number and handles are not checked against the table, so a number that  *)
(* came back would connect them to the wrong file.                         *)
(***************************************************************************)
FreshNumbers ==
    [][\A i \in Inos : itable[i].type = "NONE" /\ itable'[i].type # "NONE"
           => i \notin Mentioned]_vars

\* No directory has two entries of one name.
NamesUnique ==
    LET E == Entries
    IN \A e, o \in E :
        /\ e[1] = o[1]
        /\ Slot(e[1], e[2]).name = Slot(o[1], o[2]).name
        => e = o

(***************************************************************************)
(* Two entries of one name in a directory come only from a rename to a new *)
(* name in another directory, which keeps the old name without looking for *)
(* it there; every other handler checks before it writes.                  *)
(***************************************************************************)
NamesStayUnique ==
    [][NamesUnique => \/ NamesUnique'
                      \/ \E p, t \in NamedDirs, n, m \in Names :
                            /\ n # m
                            /\ RenameAcross(p, n, t, m)]_vars

-----------------------------------------------------------------------------
(***************************************************************************)
(* The namespace a restart would find on the device implements             *)
(* Lab4Namespace: every handler is one operation on it or none, opening,   *)
(* writing, failing and restarting are none.                               *)
(***************************************************************************)
DiskDirs == {d \in Inos : disk.itable[d].type = "DIR"}

DiskLinks ==
    LET cell(e) == area[disk.itable[e[1]].blk][e[2]]
    IN  {[dir |-> e[1], name |-> cell(e).name, node |-> cell(e).ino] :
            e \in {o \in DiskDirs \X (Slots \ {0, 1}) : cell(o).flag = "USED"}}

Namespace == INSTANCE Lab4Namespace
                 WITH Nodes <- 0..NumInodes,
                      kind  <- [i \in 0..NumInodes |->
                                  IF i \in Inos THEN disk.itable[i].type ELSE "NONE"],
                      links <- DiskLinks,
                      floor <- disk.sb.ino

ImplementsNamespace == Namespace!Spec
=============================================================================
