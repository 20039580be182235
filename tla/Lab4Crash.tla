----------------------------- MODULE Lab4Crash -----------------------------
(***************************************************************************)
(* Lab4FS with the process killed inside a handler.                        *)
(*                                                                         *)
(* A handler writes the blocks of the data area one pwrite at a time and   *)
(* then the clusters it rewrites in a fixed order; there is no journal and *)
(* no repair when the device is mounted again.  A process that dies in     *)
(* between leaves a prefix of those writes on the device: the page cache   *)
(* of the kernel outlives it.  (After a power failure any subset of them   *)
(* may be there, as fsync is a stub: Lab4Mkfs shows that for the format.)  *)
(*                                                                         *)
(* A step of Lab4FS either ends, or is cut: cut then holds the contents of *)
(* the device, and the next step is the mount that loads them.             *)
(*                                                                         *)
(* After a crash an entry may name an inode that is not in use: the kernel *)
(* refuses the mode 0 that getattr answers, and no handler but lookup sees *)
(* such a name.  A directory may also have two names; libfuse and the      *)
(* kernel tell directories apart by path, this module by number, so it     *)
(* does not look at renames between directories once an inode has two.     *)
(***************************************************************************)
EXTENDS Lab4FS, Sequences

CONSTANT MaxCrashes   \* crashes inside a handler that a behaviour has

VARIABLES cut,        \* << >>, or the contents the killed process left
          crashes

crashVars == <<vars, cut, crashes>>

-----------------------------------------------------------------------------
(* What a cut leaves on the device.                                        *)

FlushOrder_TableFirst == <<"itable", "sb", "ibmap", "dbmap">>

\* update_sb, update_ibmap, update_dbmap, update_itble: do_mkdir, do_rmdir
\* and do_unlink.
FlushOrder == <<"sb", "ibmap", "dbmap", "itable">>

CreateOrder_TableFirst == <<"itable", "sb", "ibmap">>

\* lab4_createfile and do_write leave one cluster out.
CreateOrder == <<"sb", "ibmap", "itable">>
WriteOrder  == <<"sb", "itable", "dbmap">>

\* The writes to the data area are done, and k of the clusters of order.
Torn(order) ==
    {[disk |-> [c \in DOMAIN disk |->
                   IF \E j \in 1..k : order[j] = c THEN disk'[c] ELSE disk[c]],
      area |-> area'] : k \in 0..(Len(order) - 1)}

\* Only the first write to the data area is done.
Half(a) == {[disk |-> disk, area |-> a]}

MkdirCuts_BlockLast(p, n) ==
    {[disk |-> disk',
      area |-> WriteSlot(area, itable[p].blk, FreeSlot(p), Entry(n, NextIno))]}

\* do_mkdir writes the entry in the parent, then the new block.
MkdirCuts(p, n) ==
    Half(WriteSlot(area, itable[p].blk, FreeSlot(p), Entry(n, NextIno)))
        \cup Torn(FlushOrder)

\* do_rmdir and do_unlink zero the block, then delete the entry.
RemoveCuts(x) ==
    (IF itable[x].size > 0 THEN Half([area EXCEPT ![itable[x].blk] = ZeroBlock])
     ELSE {}) \cup Torn(FlushOrder)

MoveCuts_DeleteFirst(p, n, t) == Half(DeleteSlot(area, p, LookupSlot(p, n)))

\* do_rename between directories writes the new entry, then deletes the old.
MoveCuts(p, n, t) ==
    IF FreeSlot(t) < DirSlots
    THEN Half(WriteSlot(area, itable[t].blk, FreeSlot(t), Slot(p, LookupSlot(p, n))))
    ELSE {}

-----------------------------------------------------------------------------
Ends == cut' = << >> /\ UNCHANGED crashes

Dies(images) == /\ crashes < MaxCrashes
                /\ \E image \in images : cut' = <<image>>
                /\ crashes' = crashes + 1

\* A name that getattr finds an inode for.
Valid(p, n) == Found(p, n) /\ itable[Child(p, n)].type # "NONE"

NamesOf(it, a, i) ==
    {e \in Inos \X Slots :
        /\ it[e[1]].type = "DIR"
        /\ LET cell == a[it[e[1]].blk][e[2]]
           IN  cell.flag = "USED" /\ cell.name \in Names /\ cell.ino = i}

\* No inode has two names.
OneNameEach == \A i \in Inos : Cardinality(NamesOf(itable, area, i)) <= 1

InDirectory(p, n) ==
    \/ Mkdir(p, n) /\ Ends
    \/ ~Found(p, n) /\ MkdirDone(p, n) /\ Dies(MkdirCuts(p, n))
    \/ Rmdir(p, n) /\ (Ends \/ Dies(RemoveCuts(Child(p, n))))
    \/ Create(p, n) /\ Ends
    \/ ~Found(p, n) /\ CreateDone(p, n) /\ Dies(Torn(CreateOrder))
    \/ Open(p, n) /\ Ends
    \/ Unlink(p, n) /\ (Ends \/ Dies(RemoveCuts(Child(p, n))))
    \/ \E m \in Names : Valid(p, n) /\ RenameInPlace(p, n, m) /\ Ends

BetweenDirectories(p, n, t, m) ==
    /\ Valid(p, n)
    /\ OneNameEach
    /\ \/ RenameAcross(p, n, t, m) /\ (Ends \/ Dies(MoveCuts(p, n, t)))
       \/ RenameInto(p, n, t, m) /\ (Ends \/ Dies(MoveCuts(p, n, Child(t, m))))

OnHandle(f) ==
    \/ Release(f) /\ Ends
    \/ Write(f) /\ (Ends \/ Dies(Torn(WriteOrder)))
    \/ WriteNoBlock(f) /\ Ends

\* check_formated and lab4_fill_super find what the killed process left.
Remount ==
    /\ cut # << >>
    /\ disk' = cut[1].disk /\ area' = cut[1].area
    /\ sb' = disk'.sb /\ blk_hint' = disk'.sb.blk
    /\ ibmap' = disk'.ibmap /\ dbmap' = disk'.dbmap /\ itable' = disk'.itable
    /\ freed' = FALSE
    /\ file_table' = [f \in Fids |-> 0]
    /\ cut' = << >>
    /\ UNCHANGED crashes

CrashInit == Init /\ cut = << >> /\ crashes = 0

CrashNext ==
    \/ /\ cut = << >>
       /\ \/ \E p \in NamedDirs, n \in Names :
                \/ InDirectory(p, n)
                \/ \E t \in NamedDirs, m \in Names : BetweenDirectories(p, n, t, m)
          \/ \E f \in Fids : OnHandle(f)
          \/ Restart /\ Ends
    \/ Remount

CrashSpec == CrashInit /\ [][CrashNext]_crashVars

-----------------------------------------------------------------------------
(* Properties.                                                             *)

\* The inodes in use that an entry names, in the device contents d and a.
NamedIn(d, a) ==
    {i \in Inos : d.itable[i].type # "NONE" /\ NamesOf(d.itable, a, i) # {}}

\* The blocks of the inodes that have names are marked in the bitmap.
Marked(d, a) == \A i \in NamedIn(d, a) :
                   d.itable[i].size > 0 => d.itable[i].blk \in d.dbmap

HasDots(d, a, i) == /\ a[d.itable[i].blk][0] = Entry(".", i)
                    /\ a[d.itable[i].blk][1].name = ".."

Dots(d, a) == \A i \in NamedIn(d, a) : d.itable[i].type = "DIR" => HasDots(d, a, i)

\* The inodes in use that a handle refers to, with a name or without.
Held == {i \in Inos : itable[i].type # "NONE" /\ \E f \in Fids : file_table[f] = i}

\* Earlier crashes have left no inode with two names and no block that is
\* shared or looks free while in use.
Sound ==
    /\ OneNameEach
    /\ Marked(disk, area)
    /\ \A i, j \in NamedIn(disk, area) \cup Held \cup {Root} :
          itable[i].size > 0 /\ itable[j].size > 0 /\ itable[i].blk = itable[j].blk => i = j

\* The step is a call that is cut.
IsCut == Len(cut') > 0

(***************************************************************************)
(* What has a name before a call and after it has one wherever the call is *)
(* cut, whatever earlier crashes have left: rename writes the new entry    *)
(* before it deletes the old one, and of the other calls none changes a    *)
(* name but that of the inode it makes or removes.                         *)
(***************************************************************************)
NamesKept ==
    [][IsCut => NamedIn(disk, area) \cap NamedIn(disk', area')
                   \subseteq NamedIn(cut'[1].disk, cut'[1].area)]_crashVars

(***************************************************************************)
(* Only the first write of a file can be cut so that a block of a named    *)
(* inode looks free: mkdir flushes the bitmap before the table, rmdir and  *)
(* unlink delete the name before the bit, do_write flushes the table       *)
(* first.                                                                  *)
(***************************************************************************)
MarkedKept ==
    [][IsCut /\ Sound =>
          \/ Marked(cut'[1].disk, cut'[1].area)
          \/ \E f \in Fids : itable[file_table[f]].size = 0 /\ Write(f)]_crashVars

(***************************************************************************)
(* Only a cut rmdir leaves a directory that still has its name without     *)
(* "." and "..", whose slots new entries then take, where                  *)
(* check_dir_deletable does not look for them.                             *)
(***************************************************************************)
DotsKept ==
    [][IsCut /\ Sound /\ Dots(disk, area) =>
          \/ Dots(cut'[1].disk, cut'[1].area)
          \/ \E p \in NamedDirs, n \in Names : Rmdir(p, n)]_crashVars

(***************************************************************************)
(* The number given out next belongs to no inode on the device, wherever   *)
(* handlers were cut: the super block with the hint is always flushed      *)
(* before the table, and only the hint keeps numbers apart.                *)
(***************************************************************************)
NumberFree == NextIno < NumInodes => itable[NextIno].type = "NONE"
=============================================================================
