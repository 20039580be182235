------------------------------ MODULE Lab4Data ------------------------------
(***************************************************************************)
(* The contents of files: do_write turn by turn, with offsets, sizes and   *)
(* several handles on a file.                                              *)
(*                                                                         *)
(* A byte of the data area is known by the file it was written for.        *)
(* do_write works on a copy of the inode, loops until nothing is left, and *)
(* stores the copy at its end; handlers run one at a time.  Inode numbers  *)
(* are given out in order and once, as in Lab4FS.                          *)
(*                                                                         *)
(* Left out: names, and directories but the root's block; NUL bytes in     *)
(* what a client writes; calls that fail, which change nothing kept here;  *)
(* unlinks of open files.  do_read changes nothing either: Reply is what   *)
(* it returns.                                                             *)
(***************************************************************************)
EXTENDS Integers, FiniteSets, Lab4Bmap

CONSTANTS
    ClusterSize,  \* bytes of a block, and of a page of the kernel
    NumBlocks,    \* blocks of the data area
    NumFiles,     \* inode numbers there are to give out
    MaxOpen,      \* handles of the open file table
    MaxEnd        \* where the last byte that a client writes ends

ASSUME DataAssumption ==
    /\ ClusterSize \in Nat \ {0}
    /\ NumBlocks \in Nat \ {0}
    /\ NumFiles \in Nat /\ MaxOpen \in Nat /\ MaxEnd \in Nat

Files  == 1..NumFiles
Fids   == 1..MaxOpen
Blocks == 0..(NumBlocks - 1)
Addr   == 0..(NumBlocks * ClusterSize - 1)

\* Bytes that belong to no file.
Zero  == 0
Old   == -1    \* on the device since before it was formatted
Entry == -2    \* of the root directory

VARIABLES
    bytes,       \* the data area
    dbmap,       \* the block bitmap
    next_ino,    \* the inode hint
    itable,      \* is there such a file, i_size and the block of i_blocks[0]
    file_table,  \* the inode and the size each handle has
    call         \* the do_write that is running, through no handle if none

vars == <<bytes, dbmap, next_ino, itable, file_table, call>>

Closed    == [ino |-> 0, size |-> 0]
ZeroInode == [used |-> FALSE, size |-> 0, blk |-> 0]
NoCall    == [fid |-> 0, offset |-> 0, rwoffset |-> 0, left |-> 0, size |-> 0, blk |-> 0]

Running == call.fid # 0

Init ==
    /\ bytes = [a \in Addr |-> IF a < ClusterSize THEN Entry ELSE Old]
    /\ dbmap = {0}
    /\ next_ino = 1
    /\ itable = [f \in Files |-> ZeroInode]
    /\ file_table = [h \in Fids |-> Closed]
    /\ call = NoCall

\* The first byte of block b, and a pwrite of k bytes of v at address a; the
\* device ends with the data area.
Start(b) == b * ClusterSize
Put(mem, a, k, v) == [x \in Addr |-> IF x \in a..(a + k - 1) THEN v ELSE mem[x]]

-----------------------------------------------------------------------------
(* Files and handles.                                                      *)

FreeFids == {h \in Fids : file_table[h] = Closed}

\* The lowest free handle, if any, keeps the size the file has now.
OpenFid(f) == IF FreeFids = {} THEN file_table
              ELSE [file_table EXCEPT ![Min(FreeFids)] = [ino |-> f, size |-> itable[f].size]]

\* lab4_createfile, then the open of what it made; the block is taken by the
\* first write.
Create == /\ ~Running
          /\ next_ino <= NumFiles
          /\ itable' = [itable EXCEPT ![next_ino].used = TRUE]
          /\ next_ino' = next_ino + 1
          /\ file_table' = OpenFid(next_ino)
          /\ UNCHANGED <<bytes, dbmap, call>>

\* do_openfile of a file that exists.
Open(f) == /\ ~Running
           /\ itable[f].used
           /\ FreeFids # {}
           /\ file_table' = OpenFid(f)
           /\ UNCHANGED <<bytes, dbmap, next_ino, itable, call>>

\* lab4_do_close.
Close(h) == /\ ~Running
            /\ file_table[h] # Closed
            /\ file_table' = [file_table EXCEPT ![h] = Closed]
            /\ UNCHANGED <<bytes, dbmap, next_ino, itable, call>>

\* delete_block leaves zeroes where the block of a deleted file was.
delete_block_Skipped(f) == bytes
delete_block(f) == Put(bytes, Start(itable[f].blk), ClusterSize, Zero)

\* do_unlink; a file without a size has no block.
Unlink(f) == /\ ~Running
             /\ itable[f].used
             /\ \A h \in Fids : file_table[h].ino # f
             /\ IF itable[f].size = 0
                THEN UNCHANGED <<bytes, dbmap>>
                ELSE /\ bytes' = delete_block(f)
                     /\ dbmap' = dbmap \ {itable[f].blk}
             /\ itable' = [itable EXCEPT ![f] = ZeroInode]
             /\ UNCHANGED <<next_ino, file_table, call>>

-----------------------------------------------------------------------------
(* do_write.                                                               *)

\* The hint of the scan is the one of the super block at mount.
NextBlk == Scan(dbmap, 1, NumBlocks)

\* The writes the kernel sends: a page at most, none across a page.
Requests == {r \in (0..MaxEnd) \X (1..ClusterSize) :
                /\ r[1] + r[2] <= MaxEnd
                /\ (r[1] % ClusterSize) + r[2] <= ClusterSize}

\* The inode is copied, and an empty file gets a block.
BeginWrite(h, r) ==
    LET f == file_table[h].ino
        b == IF itable[f].size = 0 THEN NextBlk ELSE itable[f].blk
    IN  /\ ~Running
        /\ file_table[h] # Closed
        /\ b < NumBlocks
        /\ dbmap' = dbmap \cup {b}
        /\ call' = [fid |-> h, offset |-> r[1], rwoffset |-> r[1], left |-> r[2],
                    size |-> itable[f].size, blk |-> b]
        /\ UNCHANGED <<bytes, next_ino, itable, file_table>>

\* What a turn takes off the rest: nothing where the cluster ends, and all of
\* it past that, as cluster_size - offset is unsigned.
Remain == IF call.offset <= ClusterSize
          THEN Min({ClusterSize - call.offset, call.left})
          ELSE call.left

\* At the end of the file or past it: the bytes go where they belong, and
\* the file gets the size of the handle, which has not got smaller.
AppendSize_Sum(size, end) == size + end
AppendSize_Cluster(size, end) == ClusterSize
AppendSize(size, end) == Max({size, end})

Append(f) ==
    LET end  == call.rwoffset + Remain
        size == AppendSize(file_table[call.fid].size, end)
    IN  /\ call.size <= call.rwoffset
        /\ bytes' = Put(bytes, Start(call.blk) + call.offset, Remain, f)
        /\ call' = [call EXCEPT !.rwoffset = end, !.left = @ - Remain, !.size = size]
        /\ file_table' = [file_table EXCEPT ![call.fid].size = size]

\* Before the end: a whole cluster, what is left and zeroes, goes to the
\* offset, and the file ends with what this turn took.
Overwrite(f) ==
    LET at == Start(call.blk) + call.offset
    IN  /\ call.size > call.rwoffset
        /\ bytes' = Put(Put(bytes, at, ClusterSize, Zero), at, call.left, f)
        /\ call' = [call EXCEPT !.rwoffset = Remain, !.left = @ - Remain, !.size = Remain]
        /\ file_table' = [file_table EXCEPT ![call.fid].size = Remain]

Turn == /\ Running
        /\ call.left > 0
        /\ Append(file_table[call.fid].ino) \/ Overwrite(file_table[call.fid].ino)
        /\ UNCHANGED <<dbmap, next_ino, itable>>

\* write_inode_to_itble and the return.
EndWrite == /\ Running
            /\ call.left = 0
            /\ itable' = [itable EXCEPT ![file_table[call.fid].ino] =
                             [used |-> TRUE, size |-> call.size, blk |-> call.blk]]
            /\ call' = NoCall
            /\ UNCHANGED <<bytes, dbmap, next_ino, file_table>>

Next == \/ Create
        \/ \E f \in Files : Open(f) \/ Unlink(f)
        \/ \E h \in Fids : Close(h) \/ \E r \in Requests : BeginWrite(h, r)
        \/ Turn
        \/ EndWrite

Spec == Init /\ [][Next]_vars

\* The thread of a handler goes on with it.
FairSpec == Spec /\ WF_vars(Turn \/ EndWrite)

-----------------------------------------------------------------------------
(* Properties.                                                             *)

InodeType == [used : BOOLEAN, size : 0..ClusterSize, blk : Blocks]

(***************************************************************************)
(* Values, with the sizes of files that do not outgrow their block.        *)
(***************************************************************************)
TypeOK ==
    /\ bytes \in [Addr -> {Entry, Old, Zero} \cup Files]
    /\ dbmap \subseteq Blocks
    /\ next_ino \in 1..(NumFiles + 1)
    /\ itable \in [Files -> InodeType]
    /\ file_table \in [Fids -> [ino : Files \cup {0}, size : 0..ClusterSize]]
    /\ call \in [fid : Fids \cup {0}, offset : 0..ClusterSize, rwoffset : 0..ClusterSize,
                 left : 0..ClusterSize, size : 0..ClusterSize, blk : Blocks]

\* Byte k of the block of file f.
ByteOf(f, k) == bytes[Start(itable[f].blk) + k]

\* What do_read hands to the kernel for the page of a file: the bytes of the
\* block up to the first zero, whatever the size of the file.
Reply(f) == {k \in 0..(ClusterSize - 1) :
                itable[f].size > 0 /\ \A j \in 0..k : ByteOf(f, j) # Zero}

\* The bytes of file f that are its own by size or handed out.
Contents(f) == {ByteOf(f, k) : k \in 0..(itable[f].size - 1) \cup Reply(f)}

(***************************************************************************)
(* A file shows what was written to it, zeroes, or what the device held    *)
(* before the format, and never bytes of another file, alive or deleted:   *)
(* blocks are zeroed when they are freed, not when they are taken, and a   *)
(* write may leave a hole before it.                                       *)
(***************************************************************************)
NothingOfOthers == \A f \in Files : Contents(f) \subseteq {f, Zero, Old}

(***************************************************************************)
(* The size of a file is never past every byte of its block that was       *)
(* written for it or zeroed, also when a size that another handle has      *)
(* reduced comes back from the open file table.  A zeroed byte counts      *)
(* whoever zeroed it: the property sees sizes that reach into bytes older  *)
(* than the format, not those that reach over what another file left.      *)
(***************************************************************************)
SizeReached ==
    \A f \in Files : itable[f].size > 0 =>
        \E k \in (itable[f].size - 1)..(ClusterSize - 1) :
            ByteOf(f, k) \in {f, Zero}

(***************************************************************************)
(* do_write changes bytes of the block of its file only.                   *)
(***************************************************************************)
OwnBlock ==
    [][Turn => \A a \in Addr : bytes'[a] # bytes[a] => a \div ClusterSize = call.blk]_vars

(***************************************************************************)
(* Every write returns: the loop of do_write ends.  It does not for a      *)
(* write to the offset where the cluster ends, of which no turn takes a    *)
(* byte.                                                                   *)
(***************************************************************************)
EveryWriteReturns == Running ~> ~Running
=============================================================================
