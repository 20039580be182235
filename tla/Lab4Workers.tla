---------------------------- MODULE Lab4Workers ----------------------------
(***************************************************************************)
(* The worker threads of fuse_main inside the handlers.                    *)
(*                                                                         *)
(* Nothing in the program locks.  What keeps calls apart is outside it     *)
(* (external): the kernel runs one create or unlink at a time in a         *)
(* directory and one write at a time on a file, and libfuse does not       *)
(* unlink a file that is open, as long as the mount has no hard_remove and *)
(* the file has not been moved, or whose path a call is using.  Calls in   *)
(* two directories, or on two files, run at the same time, and share the   *)
(* buffers of the super block, the bitmaps, the inode table and the table  *)
(* of open files.                                                          *)
(*                                                                         *)
(* A step is one access to shared state: the test of one bit, the load and *)
(* the store of a byte of a bitmap, an entry of the table, the test or the *)
(* store of a field of a handle, one cluster rewritten on the device.  The *)
(* instances are small enough for each bitmap to be one byte.              *)
(*                                                                         *)
(* The directories are fixed; mkdir, rmdir and rename take and give back   *)
(* numbers and blocks by the same steps.  Left out: the free counts, what  *)
(* freeing the bitmap buffer does when a scan fails (Lab4FS), and the      *)
(* fields size, rwoffset and flags of a handle.                            *)
(*                                                                         *)
(* An operator whose name ends in _ and a word is a variant of the one     *)
(* after it with a bug the code does not have, put in its place to see a   *)
(* property fail.                                                          *)
(***************************************************************************)
EXTENDS Integers, FiniteSets, Sequences

CONSTANTS Workers,      \* threads of fuse_main
          Dirs, Names,  \* directories that exist, names used in them
          Fds,          \* file descriptors the clients may have open
          NumInodes, NumBlocks, MaxOpenFile

NumReserved   == 3
StartOpenFile == 3

ASSUME WorkersAssumption ==
    /\ NumInodes \in Nat /\ NumInodes > NumReserved
    /\ NumBlocks \in Nat \ {0}
    /\ MaxOpenFile \in Nat /\ MaxOpenFile > StartOpenFile

Inos   == 0..(NumInodes - 1)
Blocks == 0..(NumBlocks - 1)
Fids   == StartOpenFile..(MaxOpenFile - 1)
Files  == Dirs \X Names

VARIABLES
    mem,         \* sb (its inode hint), ibmap, dbmap, itable: the buffers
    disk,        \* the same on the device
    names,       \* the entries of the directories: number, 0 when none
    data,        \* the number of the file that last wrote a block, 0 when zeroed
    file_table,  \* the numbers in sbi->file_table: fid |-> ino
    used,        \* the handles of the table whose used flag is set
    fds,         \* open descriptors of the clients
    call,        \* what each worker is doing
    raced        \* the kinds of calls that have overlapped so far

workerVars == <<mem, disk, names, data, file_table, used, fds, call, raced>>

-----------------------------------------------------------------------------
NoBlock == -1

ZeroInode == [type |-> "NONE", size |-> 0, blk |-> NoBlock]

Idle == [op |-> "none", pc |-> "idle"]

NoFd == [fid |-> 0]

Busy(w) == call[w].pc # "idle"

\* Workers, and calls of theirs on the file x or in its directory.
Using(x)  == {w \in Workers : Busy(w) /\ call[w].file = x}
Naming(x) == {w \in Workers : /\ Busy(w) /\ call[w].op \in {"create", "unlink"}
                              /\ call[w].file[1] = x[1]}

\* What a call allocates or gives back.
Kinds(op) == CASE op = "create" -> {"number", "handle"}
               [] op = "open"   -> {"handle"}
               [] op = "unlink" -> {"number", "block"}
               [] op = "write"  -> {"block"}
               [] op = "release" -> {}

\* w begins the call c.
Begin(w, c) ==
    /\ ~Busy(w)
    /\ call' = [call EXCEPT ![w] = c]
    /\ raced' = raced \cup UNION {Kinds(c.op) \cap Kinds(call[v].op) :
                                    v \in {u \in Workers : Busy(u)}}

Goto(w, pc) == call' = [call EXCEPT ![w].pc = pc]

Return(w) == call' = [call EXCEPT ![w] = Idle]

Init == /\ mem = [sb |-> NumReserved, ibmap |-> 0..(NumReserved - 1), dbmap |-> {0},
                  itable |-> [i \in Inos |-> ZeroInode]]
        /\ disk = mem
        /\ names = [x \in Files |-> 0]
        /\ data = [b \in Blocks |-> 0]
        /\ file_table = [f \in Fids |-> 0]
        /\ used = {}
        /\ fds = [x \in Fds |-> NoFd]
        /\ call = [w \in Workers |-> Idle]
        /\ raced = {}

-----------------------------------------------------------------------------
(* The scans of bmap.c and the bit operations of bmap_raw.c.               *)

SizeOf(map) == IF map = "ibmap" THEN NumInodes ELSE NumBlocks

Probe_Untested(w) ==
    /\ call[w].pc = "probe"
    /\ Goto(w, "load")
    /\ UNCHANGED <<mem, disk, names, data, file_table, used, fds, raced>>

\* One probe: the bit is clear, or the next position is up, or all had theirs.
Probe(w) ==
    LET c == call[w]
    IN  /\ c.pc = "probe"
        /\ IF c.count = SizeOf(c.map) THEN Goto(w, "nothing")
           ELSE IF c.pos \notin mem[c.map] THEN Goto(w, "load")
           ELSE call' = [call EXCEPT ![w].pos = (c.pos + 1) % SizeOf(c.map),
                                     ![w].count = c.count + 1]
        /\ UNCHANGED <<mem, disk, names, data, file_table, used, fds, raced>>

\* Nothing is clear, or the hint was past the end: restore_ibmap or
\* restore_dbmap, and the handler fails.
Nothing(w) ==
    LET c == call[w]
    IN  /\ \/ c.pc = "nothing"
           \/ c.pc = "load" /\ c.op # "unlink" /\ c.pos >= SizeOf(c.map)
        /\ mem' = [mem EXCEPT ![c.map] = disk[c.map]]
        /\ Return(w)
        /\ UNCHANGED <<disk, names, data, file_table, used, fds, raced>>

\* lab4_set_bit and lab4_clear_bit load the byte ...
Load(w) ==
    LET c == call[w]
    IN  /\ c.pc = "load"
        /\ c.pos < SizeOf(c.map)
        /\ call' = [call EXCEPT ![w].pc = "store", ![w].reg = mem[c.map]]
        /\ UNCHANGED <<mem, disk, names, data, file_table, used, fds, raced>>

AfterStore(op, map) == CASE op = "create" -> "hint"
                         [] op = "write"  -> "data"
                         [] op = "unlink" -> IF map = "dbmap" THEN "zero" ELSE "forget"

Store_BitLost(w) ==
    LET c == call[w]
    IN  /\ c.pc = "store"
        /\ mem' = [mem EXCEPT ![c.map] = c.reg]
        /\ call' = [call EXCEPT ![w].pc = AfterStore(c.op, c.map),
                                ![w].count = 0, ![w].reg = {}]
        /\ UNCHANGED <<disk, names, data, file_table, used, fds, raced>>

\* ... and store it with the bit changed.
Store(w) ==
    LET c == call[w]
    IN  /\ c.pc = "store"
        /\ mem' = [mem EXCEPT ![c.map] = IF c.op = "unlink" THEN c.reg \ {c.pos}
                                         ELSE c.reg \cup {c.pos}]
        /\ call' = [call EXCEPT ![w].pc = AfterStore(c.op, c.map),
                                ![w].count = 0, ![w].reg = {}]
        /\ UNCHANGED <<disk, names, data, file_table, used, fds, raced>>

-----------------------------------------------------------------------------
(* The update_ calls at the end of a handler.                              *)

FlushOrder_NoDbmap(op) == CASE op = "create" -> <<"sb", "ibmap", "itable">>
                            [] op = "unlink" -> <<"sb", "ibmap", "itable">>
                            [] op = "write"  -> <<"sb", "itable", "dbmap">>

FlushOrder(op) == CASE op = "create" -> <<"sb", "ibmap", "itable">>
                    [] op = "unlink" -> <<"sb", "ibmap", "dbmap", "itable">>
                    [] op = "write"  -> <<"sb", "itable", "dbmap">>

Flush(w) ==
    LET c    == call[w]
        last == c.done + 1 = Len(FlushOrder(c.op))
        map  == FlushOrder(c.op)[c.done + 1]
    IN  /\ c.pc = "flush"
        /\ disk' = [disk EXCEPT ![map] = mem[map]]
        /\ IF ~last THEN call' = [call EXCEPT ![w].done = c.done + 1]
           ELSE IF c.op = "create" THEN Goto(w, "find")
           ELSE Return(w)
        /\ UNCHANGED <<mem, names, data, file_table, used, fds, raced>>

-----------------------------------------------------------------------------
(* create and open.                                                        *)

BeginCreate(w, x, fd) ==
    /\ names[x] = 0
    /\ Naming(x) = {}
    /\ fds[fd] = NoFd /\ \A v \in Workers : Busy(v) => call[v].fd # fd
    /\ Begin(w, [op |-> "create", pc |-> "probe", file |-> x, fd |-> fd, ino |-> 0,
                 map |-> "ibmap", pos |-> mem.sb, count |-> 0, reg |-> {}, done |-> 0,
                 fid |-> StartOpenFile])
    /\ UNCHANGED <<mem, disk, names, data, file_table, used, fds>>

MoveHint_Twice(w) ==
    /\ call[w].pc = "hint"
    /\ mem' = [mem EXCEPT !.sb = call[w].pos + 2]
    /\ Goto(w, "enter")
    /\ UNCHANGED <<disk, names, data, file_table, used, fds, raced>>

\* The end of alloc_new_inode: the hint moves past the number.
MoveHint(w) ==
    /\ call[w].pc = "hint"
    /\ mem' = [mem EXCEPT !.sb = call[w].pos + 1]
    /\ Goto(w, "enter")
    /\ UNCHANGED <<disk, names, data, file_table, used, fds, raced>>

\* write_inode_to_itble and the pwrite of the entry.
Enter(w) ==
    LET c == call[w]
    IN  /\ c.pc = "enter"
        /\ mem' = [mem EXCEPT !.itable[c.pos] = [type |-> "FILE", size |-> 0, blk |-> NoBlock]]
        /\ names' = [names EXCEPT ![c.file] = c.pos]
        /\ call' = [call EXCEPT ![w].pc = "flush", ![w].ino = c.pos]
        /\ UNCHANGED <<disk, data, file_table, used, fds, raced>>

BeginOpen(w, x, fd) ==
    /\ names[x] # 0
    /\ mem.itable[names[x]].type = "FILE"
    /\ \A v \in Using(x) : call[v].op \notin {"create", "unlink"}
    /\ fds[fd] = NoFd /\ \A v \in Workers : Busy(v) => call[v].fd # fd
    /\ Begin(w, [op |-> "open", pc |-> "find", file |-> x, fd |-> fd, ino |-> names[x],
                 fid |-> StartOpenFile])
    /\ UNCHANGED <<mem, disk, names, data, file_table, used, fds>>

\* One turn of lab4_allocate_open_file_table.
FindHandle(w) ==
    LET c == call[w]
    IN  /\ c.pc = "find"
        /\ IF c.fid \notin used THEN Goto(w, "use")
           ELSE IF c.fid + 1 \in Fids THEN call' = [call EXCEPT ![w].fid = c.fid + 1]
           ELSE Return(w)
        /\ UNCHANGED <<mem, disk, names, data, file_table, used, fds, raced>>

\* do_openfile marks the handle used ...
UseHandle(w) ==
    /\ call[w].pc = "use"
    /\ used' = used \cup {call[w].fid}
    /\ Goto(w, "fill")
    /\ UNCHANGED <<mem, disk, names, data, file_table, fds, raced>>

\* ... and stores the number, and the client has its descriptor.
FillHandle(w) ==
    LET c == call[w]
    IN  /\ c.pc = "fill"
        /\ file_table' = [file_table EXCEPT ![c.fid] = c.ino]
        /\ fds' = [fds EXCEPT ![c.fd] = [fid |-> c.fid, file |-> c.file]]
        /\ Return(w)
        /\ UNCHANGED <<mem, disk, names, data, used, raced>>

\* The kernel releases a descriptor once no call uses it.
BeginRelease(w, fd) ==
    /\ fds[fd] # NoFd
    /\ \A v \in Workers : Busy(v) => call[v].fd # fd
    /\ Begin(w, [op |-> "release", pc |-> "clear", file |-> fds[fd].file, fd |-> NoFd,
                 fid |-> fds[fd].fid])
    /\ fds' = [fds EXCEPT ![fd] = NoFd]
    /\ UNCHANGED <<mem, disk, names, data, file_table, used>>

ClearHandle_FlagToo(w) ==
    /\ call[w].pc = "clear"
    /\ file_table' = [file_table EXCEPT ![call[w].fid] = 0]
    /\ used' = used \ {call[w].fid}
    /\ Goto(w, "free")
    /\ UNCHANGED <<mem, disk, names, data, fds, raced>>

\* lab4_do_close clears the number ...
ClearHandle(w) ==
    /\ call[w].pc = "clear"
    /\ file_table' = [file_table EXCEPT ![call[w].fid] = 0]
    /\ Goto(w, "free")
    /\ UNCHANGED <<mem, disk, names, data, used, fds, raced>>

FreeHandle_KeepUsed(w) ==
    /\ call[w].pc = "free"
    /\ Return(w)
    /\ UNCHANGED <<mem, disk, names, data, file_table, used, fds, raced>>

\* ... and then the used flag.
FreeHandle(w) ==
    /\ call[w].pc = "free"
    /\ used' = used \ {call[w].fid}
    /\ Return(w)
    /\ UNCHANGED <<mem, disk, names, data, file_table, fds, raced>>

-----------------------------------------------------------------------------
(* write.                                                                  *)

\* do_write copies the inode of the handle out of the table.  Its i_ino is 0
\* when it has been deleted.  A handle whose number is 0 is refused.
BeginWrite(w, fd) ==
    LET x    == fds[fd].file
        ino  == file_table[fds[fd].fid]
        node == mem.itable[ino]
    IN  /\ fds[fd] # NoFd
        /\ \A v \in Using(x) : call[v].op # "write"
        /\ ino # 0
        /\ Begin(w, [op |-> "write", pc |-> IF node.size = 0 THEN "probe" ELSE "data",
                     file |-> x, fd |-> fd, ino |-> IF node.type = "NONE" THEN 0 ELSE ino,
                     type |-> node.type,
                     map |-> "dbmap", pos |-> IF node.size = 0 THEN 1 ELSE node.blk,
                     count |-> 0, reg |-> {}, done |-> 0])
        /\ UNCHANGED <<mem, disk, names, data, file_table, used, fds>>

\* The pwrite of the data.
WriteData(w) ==
    /\ call[w].pc = "data"
    /\ data' = [data EXCEPT ![call[w].pos] = call[w].ino]
    /\ Goto(w, "back")
    /\ UNCHANGED <<mem, disk, names, file_table, used, fds, raced>>

\* write_inode_to_itble of the copy.
WriteBack(w) ==
    LET c == call[w]
    IN  /\ c.pc = "back"
        /\ mem' = [mem EXCEPT !.itable[c.ino] = [type |-> c.type, size |-> 1, blk |-> c.pos]]
        /\ Goto(w, "flush")
        /\ UNCHANGED <<disk, names, data, file_table, used, fds, raced>>

-----------------------------------------------------------------------------
(* unlink.                                                                 *)

BeginUnlink(w, x) ==
    LET node == mem.itable[names[x]]
    IN  /\ names[x] # 0
        /\ node.type = "FILE"
        /\ Naming(x) = {} /\ Using(x) = {}
        /\ \A fd \in Fds : fds[fd] # NoFd => fds[fd].file # x
        /\ Begin(w, [op |-> "unlink", pc |-> "load", file |-> x, fd |-> NoFd, ino |-> names[x],
                     map |-> IF node.size > 0 THEN "dbmap" ELSE "ibmap",
                     pos |-> IF node.size > 0 THEN node.blk ELSE names[x],
                     count |-> 0, reg |-> {}, done |-> 0])
        /\ UNCHANGED <<mem, disk, names, data, file_table, used, fds>>

\* delete_block, after the bit of the block has been cleared.
ZeroBlock(w) ==
    LET c == call[w]
    IN  /\ c.pc = "zero"
        /\ data' = [data EXCEPT ![c.pos] = 0]
        /\ call' = [call EXCEPT ![w].pc = "load", ![w].map = "ibmap", ![w].pos = c.ino]
        /\ UNCHANGED <<mem, disk, names, file_table, used, fds, raced>>

\* delete_inode_from_itble and the entry flagged DELETED.
Forget(w) ==
    LET c == call[w]
    IN  /\ c.pc = "forget"
        /\ mem' = [mem EXCEPT !.itable[c.ino] = ZeroInode]
        /\ names' = [names EXCEPT ![c.file] = 0]
        /\ Goto(w, "flush")
        /\ UNCHANGED <<disk, data, file_table, used, fds, raced>>

-----------------------------------------------------------------------------
Step(w) == \/ Probe(w) \/ Nothing(w) \/ Load(w) \/ Store(w) \/ Flush(w)
           \/ MoveHint(w) \/ Enter(w) \/ FindHandle(w) \/ UseHandle(w)
           \/ FillHandle(w) \/ ClearHandle(w) \/ FreeHandle(w)
           \/ WriteData(w) \/ WriteBack(w) \/ ZeroBlock(w) \/ Forget(w)

Next == \/ \E w \in Workers : Step(w)
        \/ \E w \in Workers, x \in Files :
              \/ \E fd \in Fds : BeginCreate(w, x, fd) \/ BeginOpen(w, x, fd)
              \/ BeginUnlink(w, x)
        \/ \E w \in Workers, fd \in Fds : BeginWrite(w, fd) \/ BeginRelease(w, fd)

Spec == Init /\ [][Next]_workerVars

-----------------------------------------------------------------------------
(* Properties.                                                             *)

(***************************************************************************)
(* The values the buffers, the device and the handles hold.                *)
(***************************************************************************)
WorkersTypeOK ==
    /\ mem \in [sb : 0..NumInodes, ibmap : SUBSET Inos, dbmap : SUBSET Blocks,
                itable : [Inos -> [type : {"NONE", "FILE"}, size : {0, 1},
                                   blk : Blocks \cup {NoBlock}]]]
    /\ DOMAIN disk = DOMAIN mem
    /\ names \in [Files -> Inos]
    /\ data \in [Blocks -> Inos]
    /\ file_table \in [Fids -> Inos]
    /\ used \subseteq Fids

\* The files with a name that no call is working on.
Settled == {x \in Files : names[x] # 0 /\ Using(x) = {}}

NodeOf(x) == mem.itable[names[x]]

(***************************************************************************)
(* An inode number is the number of one inode: two names in use have two.  *)
(***************************************************************************)
DistinctNumbers == \A x, y \in Files : names[x] # 0 /\ names[x] = names[y] => x = y

(***************************************************************************)
(* Numbers only go wrong when a create or unlink overlaps another one, in  *)
(* another directory: writes, opens and releases in between do no harm.    *)
(***************************************************************************)
NumbersSafe ==
    "number" \notin raced =>
        /\ DistinctNumbers
        /\ \A x \in Settled : NodeOf(x).type = "FILE" /\ names[x] \in mem.ibmap

(***************************************************************************)
(* Blocks only go wrong when a write or an unlink overlaps another one, or *)
(* numbers did: then each block has one owner, its bit is set and it holds *)
(* what the owner wrote.                                                   *)
(***************************************************************************)
BlocksSafe ==
    raced \cap {"number", "block"} = {} =>
        \A x \in Settled : NodeOf(x).size > 0 =>
            /\ NodeOf(x).blk \in mem.dbmap
            /\ data[NodeOf(x).blk] = names[x]
            /\ \A y \in Settled : NodeOf(y).blk = NodeOf(x).blk => x = y

(***************************************************************************)
(* Handles only go wrong when an open or create overlaps another one, or   *)
(* numbers did: then each descriptor has a handle of its own, in use, with *)
(* the number of its file, although an open may take a handle between two  *)
(* stores of the release that gives it back.                               *)
(***************************************************************************)
HandlesSafe ==
    raced \cap {"number", "handle"} = {} =>
        \A x \in Fds : fds[x] # NoFd =>
            /\ fds[x].fid \in used
            /\ file_table[fds[x].fid] = names[fds[x].file]
            /\ \A y \in Fds : fds[y] # NoFd /\ fds[y].fid = fds[x].fid => x = y

(***************************************************************************)
(* Whatever overlapped, the device holds what the buffers hold once no     *)
(* call runs: each call rewrites every cluster it changed, after it did.   *)
(***************************************************************************)
QuietDurable == (\A w \in Workers : ~Busy(w)) => disk = mem

\* Handles that a call is filling in or giving back.
InHand == {call[w].fid : w \in {v \in Workers : call[v].pc \in {"fill", "clear", "free"}}}

(***************************************************************************)
(* Whatever overlapped, a handle marked used belongs to a descriptor, or   *)
(* to a call that is filling it in or giving it back: the table does not   *)
(* fill up with handles nobody can release.                                *)
(***************************************************************************)
NoHandleLost == \A f \in used \ InHand : \E fd \in Fds : fds[fd] # NoFd /\ fds[fd].fid = f
=============================================================================
