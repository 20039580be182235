# Verification of Simple_FS (lab4)

Simple_FS is a FUSE file system in about 2,900 lines of C: `lab4_mkfs` formats a
block device, `lab4_mount` serves it. These modules model it in TLA+; TLC checks
the models on small devices, and TLAPS proves every invariant and action property
that the passing runs check, and the refinement of the abstract namespace, for
devices of every size, any number of threads and any number of crashes.

## The system

### Layout and state

A formatted device is five areas: super block, inode bitmap, block bitmap and
inode table of one cluster each, then the data area. A cluster is eight sectors,
4096 bytes on most devices. Inodes and directory entries have 128 bytes, so the
table holds 32 inodes, and a directory, which has one block, 32 entries, of which
`.` and `..` are two. On a device with sectors of 4096 bytes a cluster has 32768,
the table 256 inodes, and a directory still 32 entries: that number is a constant.
A file has one block as well (`i_blocks[0]`; indirect blocks are declared but not
written).

| part | source | state | operations |
|---|---|---|---|
| bitmap bits | `bmap_raw.c` | bytes | set, clear, test |
| bitmap scans | `bmap.c` | the two bitmap buffers | `scan_allocate_ibmap`, `scan_allocate_dbmap`, `scan_delete_*` |
| inode table | `inode.c` | table buffer, super block (hints, free counts), their copies on the device | `alloc_new_inode`, `delete_inode`, `inc_link`, `update_*`, `restore_*`, `lab4_read_inode` |
| directories | `dir.c` | directory blocks, on the device only | lookup, readdir, mkdir, rmdir, rename |
| files | `file.c` | open file table (13 usable handles), file blocks | create, open, close, unlink, write, read |
| mount | `mount.c` | the io manager | `check_formated` loads the clusters, `lab4_fill_super` copies the super block |
| handlers | `fuse_main.c` | the global `iom` | one function per FUSE call; 13 calls are stubs |
| format | `fsformat.c`, `fuse_format_main.c` | - | `format_device_to_lab` |
| unused or trivial | `include/lab4_list.h`, `lab4_rbtree.h`, `lab4_poison.h`, `config.h`, `lab4_config.h`, `lab4_timeval.*`, `Makefile` | - | - |

The parts interact by function calls over one shared `struct io_manager`. The
kernel calls the handlers, from several threads unless the mount has `-s`; there
is no lock. Every handler works on the buffers, writes blocks of the data area
in place, and rewrites the metadata clusters it changed with `update_*`.

### What is hard

* **Hand-written flushing.** Each handler decides which of four clusters to
  rewrite; one left out shows after the next mount only.
* **Failures half way.** `do_mkdir` takes an inode number, then may find no block;
  a failed scan frees the bitmap buffer that stays in use.
* **Numbers and handles.** Entries flagged DELETED keep their inode number and
  open handles store one; nothing checks either against the table.
* **Unchecked scans.** The scan for a free directory slot is not checked for
  having found one.
* **Rename.** It writes an entry twice, keeps the old name across directories,
  moves into a directory that exists, and adjusts nothing else.
* **Offsets.** `do_write` loops over what is left, takes an offset into a block
  that may end, keeps a size in each handle, and clears nothing it does not write.
* **Threads.** No lock guards the bitmaps, the table, the open file table or the
  static pointer of `strtok`; a bit is tested, then its byte loaded, then stored.
* **Crashes.** A handler writes up to six places in an order nobody checks, without
  a journal, and a mount repairs nothing.
* **The format** writes its signature first, ignores what writes return, and does
  not open the device exclusively.
* **Widths.** Sizes and addresses of devices go through 32 bits, signed and not.

`PROJECT.json` lists each hazard at its line, with the properties that cover it.

### What makes each part correct

* bitmaps: a step changes one bit; a scan finds the first clear bit after the
  hint, if there is one, and nothing at or past the end;
* allocation: no block and no number has two owners, no handler loses a block but
  a write through a handle of a deleted file, counts match;
* directories: entries name inodes in use, each inode has one entry, everything
  hangs together from the root, names in a directory are unique;
* persistence: a mount finds what the handlers left;
* contents: a file shows what was written to it and nothing of another file, a
  write stays in the block of its file, and returns (the last two are false);
* handles: a handle never reaches an inode or block of another file;
* namespace: each call changes the tree in one place or not at all;
* threads: calls that do not allocate the same kind of thing do each other no
  harm, and whatever overlaps, device and buffers agree in the end;
* crashes: what had a name keeps one, and numbers never come back into use;
* paths: a walk ends, and alone it ends at what the path names;
* format: a device holds one format and the sessions since;
* geometry: what the scan gives out is on the device, and no address is that of
  another block.

## Modules

| module | models | kind |
|---|---|---|
| `Lab4Bmap` | the scan of `bmap.c` on the set of set bits, in closed form | operators |
| `Lab4BmapRaw` | the bytes, the three bit operations, the scan loop; allocate and release in every order | state machine |
| `Lab4Graph` | what edges lead to from a set of nodes | operators |
| `Lab4FS` | the mounted file system, one action per handler | state machine |
| `Lab4Namespace` | the tree of names clients are promised | abstract specification |
| `Lab4Data` | the contents of files: `do_write` turn by turn | state machine |
| `Lab4Crash` | `Lab4FS` with handlers cut between two of their writes | state machine, extends `Lab4FS` |
| `Lab4Workers` | create, open, release, write and unlink of several threads, access by access | state machine |
| `Lab4Paths` | `lab4_read_inode` of several threads over the pointer of `strtok` | state machine |
| `Lab4Mkfs` | the programs `lab4_mkfs` and `lab4_mount` on one device, with faults | state machine |
| `Lab4Geometry` | sizes and addresses through their integer widths | state machine |
| `MCLab4FS`, `MCLab4Crash`, `MCLab4Workers`, `MCLab4Paths`, `MCLab4Mkfs`, `MCLab4Geometry` | symmetries, the tree, the devices and the constraints for TLC | models |
| `Lab4Lemmas` | the scan, reachability, induction and recursion over the natural numbers | lemmas |
| `Lab4FSProofs`, `Lab4TreeProofs` | `Lab4FS`: numbers, blocks and the device; entries, the tree and the refinement | theorems |
| `Lab4PartsProofs` | `Lab4BmapRaw`, `Lab4Geometry`, `Lab4Paths` | theorems |
| `Lab4DataProofs`, `Lab4CrashProofs`, `Lab4WorkersProofs`, `Lab4MkfsProofs` | the module each is named after | theorems |

`Lab4FS` uses the scan in closed form, which `ScanAgrees` of `Lab4BmapRaw` shows to
be the loop over bytes. `Lab4FS` implements `Lab4Namespace`. `Lab4Crash` runs its
handlers. `Lab4Data` looks into the writes that are one slot long there and
`Lab4Workers` into the accesses of a handler that is one step there; `Lab4Geometry`
is about the device that `Lab4FS` takes as given.

### How `Lab4FS` corresponds to the code

| variable | in the code |
|---|---|
| `sb` | `iom->sb`: `sb_last_allocated_ino`, `sb_last_allocated_blknr`, `sb_free_inodes`, `sb_free_blocks` |
| `blk_hint` | `sbi->last_allocated_blknr`, set by `lab4_fill_super` and by nothing else |
| `ibmap`, `dbmap`, `itable` | `iom_buf_ibmap`, `iom_buf_dbmap` (as sets of set bits), `iom_buf_itble` |
| `freed` | a failed scan has freed its buffer |
| `file_table` | the `ino` of each handle, 0 when `used` is 0 |
| `disk` | the four metadata clusters on the device |
| `area` | the data area: each block as its directory slots |

`sbi->last_allocated_ino` always equals the super block's and is not kept twice.
`i_blocks[0]`, a byte offset, is the number of the block in the data area; the
zero of an inode without a block is `NoBlock`, byte 0 of the device.

| action | handler |
|---|---|
| `Mkdir` | `lab4_mkdir` / `do_mkdir`: done, no number left (`NoInode`), no block left (`MkdirNoBlock`) |
| `Rmdir` | `lab4_rmdir` / `do_rmdir` |
| `Create` | `lab4_create` / `lab4_do_open` of a new name: done (with or without a free handle), no number left |
| `Open`, `Release` | `lab4_open`, `lab4_release` |
| `Write`, `WriteNoBlock` | `lab4_write` / `do_write` |
| `Unlink` | `lab4_unlink` / `do_unlink` |
| `RenameInPlace`, `RenameAcross`, `RenameInto` | the branches of `do_rename`: new name in the same directory, in another, and a target that is a directory |
| `Restart` | the process ends between handlers; `check_formated` and `lab4_fill_super` |

Calls that change nothing (getattr, readdir, read, and those that return an
error before any assignment) are stuttering steps.

A scan that fails frees the bitmap buffer and the caller reads the device copy
into the freed memory. Reading and writing a freed chunk is undefined; what the
build does is modelled: glibc leaves the bytes in place and nothing of the
process reuses them, since handlers allocate from the arenas of their threads.
A second failing scan frees a chunk that is free already or next to one, which
glibc detects: it aborts, which is `Restart`. So `freed` guards the failing
branches.

### What is assumed of the outside

The kernel and libfuse call the handlers, and the guards below are theirs:

* a call resolves its path first, so `p` is a directory some path names
  (`NamedDirs`); mkdir and create are called for names not found, though the
  code checks as well; open, unlink and rmdir for names found, of the right kind;
* rename is never called to move a directory below itself or over a directory
  above it, and only a directory replaces a directory;
* a file may be unlinked while it is open. libfuse renames such a file instead of
  unlinking it (one of the model's renames), but not with `-o hard_remove`, an option
  `lab4_mount` passes on, and not after a rename to another directory: `do_rename`
  keeps the old name (`dir.c:495`), libfuse's node takes the new one, so an unlink of
  the name that the entry still has finds a node of libfuse's that is not open.
  `Unlink` has no guard about handles.

`RoomForAll` (a directory has at least as many slots as there are inodes that can
have a name) is not assumed of the constants. It holds where clusters have 4096
bytes, since inodes and entries have one size and table and directory one cluster
each, and there the unchecked slot scans are safe: the six theorems about the tree
have it as a hypothesis, and the runs but one as an instance. With clusters of 32768 bytes it
is false, which is the run `big_sectors`. A block has as many slots as the table
has inodes (`BlockSlots`); those past `Slots` are what a directory's size leaves
out.

Left out of `Lab4FS`: owners, modes, times, versions, `i_ptr`, none of which is
read back by a handler that changes state; the text of paths; offsets inside a
file (a write is at offset 0 and fills one slot's worth of bytes: `Lab4Data` has
them); failures of `pread`, `pwrite` and `malloc`. An open that finds the table
full returns `-errno`, which nothing has set: if it is 0 the kernel takes handle 0
for open. Its inode is 0, which `do_read_inode` refuses, so reads and writes
through it fail and the model lets the open itself fail.

### How `Lab4Data` corresponds to the code

`bytes` is the data area, each byte known by the file it was written for (`Zero`,
`Old` for what the device held before the format, `Entry` for the root's entries).
`itable` has `i_size` and the block of `i_blocks[0]`; `file_table` the inode and
the size that a handle has kept since it was opened; `call` the local variables of
the `do_write` that is running. `BeginWrite` is `do_write` up to its loop, `Turn`
one turn of it, by one of its two branches (`Append` at or past the end of the
file, `Overwrite` before it), `EndWrite` the rest. `Remain` has the unsigned
subtraction of the code: at the end of the cluster it is 0, past it larger than
any rest. `Create`, `Open`, `Close` and `Unlink` are what these handlers do to
this state, and a call that fails does nothing to it.

Requests are what the kernel sends without `big_writes`: at most a page, none over
the end of a page, and a page is the cluster. `MaxEnd` is how far clients write:
`ClusterSize + 1` in the run `data`, so that a write may begin where the cluster ends,
and `2 * ClusterSize`, the whole second page, in `data_end`. `lab4_write` checks
neither. A write that begins past the end goes to the block that follows in the data
area, which neither property of `data` survives; the run leaves that out, and
`data_neighbour` keeps to the first cluster (`MaxEnd = ClusterSize`) and shows that
even there a write does not stay in its block.
`Reply` is what `do_read` returns: it is a function of the state, not a step.

### How `Lab4Crash` corresponds to the code

A handler of `Lab4FS` either ends or is cut. `Torn(order)` are the contents of the
device after its writes to the data area and a prefix of the `update_*` calls, in
the order they stand in that handler; `Half` the contents after the first of two
writes to the data area (the entry before the new block in `do_mkdir`, the zeroed
block before the deleted entry in `do_rmdir` and `do_unlink`, the new entry before
the deleted one in `do_rename`). `cut` keeps them until `Remount`, which is
`check_formated` and `lab4_fill_super` on what is there. The process dies, the
kernel does not, so its page cache holds all writes made. `pwrite` of one entry or
cluster is not cut.

After a crash a name may lead to an inode that is not in use, which getattr
answers with mode 0 and the kernel refuses (`Valid`). Once an inode has two names,
renames between directories are not looked at, because libfuse and the kernel tell
directories apart by path and the model by number.

### How `Lab4Workers` corresponds to the code

`call[w]` is what thread `w` is doing: its handler, the place in it (`pc`) and its
local variables. The steps of a handler are

| handler | steps |
|---|---|
| `lab4_create` | `BeginCreate`, `Probe` of the bitmap until a bit is clear, `Load` and `Store` of its byte, `MoveHint`, `Enter` (table entry and directory entry), three `Flush`es, `FindHandle` for each handle looked at, `UseHandle` (the flag), `FillHandle` (the number; the client has its descriptor) |
| `lab4_open` | `BeginOpen`, `FindHandle`, `UseHandle`, `FillHandle` |
| `lab4_write` | `BeginWrite` (the inode is copied), for a first write `Probe`, `Load`, `Store`, then `WriteData`, `WriteBack` (the copy), three `Flush`es |
| `lab4_unlink` | `BeginUnlink`, for a file with a block `Load`, `Store`, `ZeroBlock`, then `Load`, `Store` of the number, `Forget`, four `Flush`es |
| `lab4_release` | `BeginRelease` (the descriptor is gone), `ClearHandle` (the number), `FreeHandle` (the flag) |

`Nothing` is a scan that fails. What keeps calls apart is outside the program: the
kernel runs one create or unlink at a time in a directory and one write at a time
on a file, releases a descriptor once no call uses it, and libfuse neither unlinks
an open file (nothing is renamed here, and there is no `hard_remove`; `Lab4FS` has
both) nor lets a removal run against calls on the same path. Calls in two
directories or on two files overlap. `raced` records the kinds of things (number,
block, handle) that two overlapping calls have allocated or freed; the properties
say what holds as long as a kind is not in it: they are about all other overlaps. What
goes wrong in the excused ones is among the known disagreements below.

Of a handle the used flag (`used`) and the number (`file_table`) are stored one after
the other, as in the code: the flag first when an open takes the handle, last when a
release gives it back, so that an open may come in between. The size, the offset and
the flags are left out. Two of their stores come after the flag in `lab4_do_close`: a
release may set `rwoffset` to 0 while a write through the handle's next descriptor is
between storing it (`file.c:411`) and reading it.

### How `Lab4Paths` corresponds to the code

Each handler copies its path and walks it with `strtok`. `walk[t]` is the place of
thread `t` in that loop, `olds` the static pointer (glibc: external), `ended` the
separators overwritten. `Load` is the read of the pointer, `Token` the search and
the store, `LookupName` `lab4_lookup`. When the place is in a copy that no call
owns any more the name read is any name or none.

### How `Lab4Mkfs` corresponds to the code

`StartFormat` to `Close` are `main` of `fuse_format_main.c` and
`format_device_to_lab`, one `WriteCluster` for each `lseek` and `write`, which may
fail unnoticed. `Mount` is `check_formated` (it looks at the signature only),
`Handler` any call of the mounted file system, `Unmount` its end. `cache` is the
kernel's page cache of the device, `platter` what has been written back; the last
close of the device writes back (external). `Kill` and `PowerFailure` are the
faults, and `spoilt` records those since the last format that went well.

### How `Lab4Geometry` corresponds to the code

`Format` and `Mount` compute the sizes with the C conversions: `S32` and `U32` for
the fields, `Quotient` for signed division. The blocks below `MaxBlock` are those that
`scan_allocate_dbmap` may give out; `Address` is `i_blocks[0]` read into the `int` of
`lab4_lookup` and `delete_block`.
`Word` and `UnitBytes` stand for 2^32 and 512.

### Variants with a bug

Next to some definitions stands a variant, named after it with `_` and a word
(`DeleteSlot_Forgotten`), that has a bug a programmer could have made there. No
specification uses it; put in place of the definition it makes a property fail,
which shows that the property depends on that code.

## Runs

| run | instance | result |
|---|---|---|
| `bmap_raw` | `Lab4BmapRaw`, 10 bits in 2 bytes, 3 reserved | 383 states; `RawTypeOK`, `ScanAgrees`, `OneBitAStep`, `NumbersGrow` hold |
| `namespace` | `MCLab4FS`, 6 inode numbers (3 to give out), 3 blocks, 5 slots, 1 handle, 2 names | about 31,000 states; 9 invariants, 3 action properties and the refinement of `Lab4Namespace` hold |
| `big_sectors` | three slots for six inode numbers | **violated**: a create in a full directory succeeds and makes a file no lookup finds |
| `data` | `Lab4Data`, 3 blocks of 3 bytes, 2 files one after the other or together, 2 handles, writes in the block and at its end | about 809,000 states; `NothingOfOthers` and `SizeReached` hold |
| `data_neighbour` | the same, writes in the block | **violated**: an overwrite at an offset clears the start of the next block |
| `data_end` | the same, writes up to the end of a second page, fairness | **violated**: a write that begins where the cluster ends never returns |
| `crash` | `MCLab4Crash`, 2 numbers to give out, 3 blocks, 2 cuts | `NumberFree`, `NamesKept`, `MarkedKept` and `DotsKept` hold |
| `workers` | `MCLab4Workers`, 2 threads, 2 directories with a name each, 2 descriptors, 3 numbers, 2 blocks, 2 handles | about 1,978,000 states; `NumbersSafe`, `BlocksSafe`, `HandlesSafe`, `QuietDurable`, `NoHandleLost` hold |
| `paths` | `MCLab4Paths`, 2 threads, two directories with an entry each | about 708,000 states; `RightWhenAlone` holds, `WalksEnd` under fairness |
| `paths_shared` | the same | **violated**: of two overlapping walks one goes on in the path of the other |
| `mkfs` | `MCLab4Mkfs`, 2 formats, faults of one kind at a time | about 1,240,000 states; `SessionCurrent` and `WholeUnlessSpoilt` hold |
| `geometry` | `MCLab4Geometry`, a word of 8192, sectors of one and of eight units, devices around every size where a field wraps | about 4,800 states; `ScanOnDevice` and `AddressesTrue` hold |

Properties of `Lab4FS`:

* `EntriesLive`, `OneEntryEach`, `Connected`: the tree. Entries name inodes in
  use, each inode exactly once, all of them reachable from the root.
* `BlocksExclusive`: a block has one owner, and is not given out while it has. A write
  through a handle of a deleted file reaches no other file's block.
* `BlocksKept`: such a write loses a block, each time: it takes one and
  stores the inode that would own it in entry 0 of the table. No other step loses a
  block, a failed one or a restart neither, and a lost block stays lost.
* `FreeBlocksExact`: the count is right up to the root's block, which the format
  forgets, lost blocks included.
* `RoomToCreate`: why the unchecked scan for a slot is safe.
* `Durable`: no handler forgets a cluster.
* `FreshNumbers`: a number given out is one that no deleted entry and no handle
  mentions. It rests on the hint never going back, and so does the end of the
  device: after 29 creations no file can be made any more, however many have
  been removed (`NumbersGrow` is the same fact at the level of bytes).
* `NamesStayUnique`: the one way to two entries of one name is a rename to
  another directory under a new name, which keeps the old name unchecked.
* `BlocksLow`: the position of a block in use is at most the number of inode numbers
  given out plus that of the blocks lost, whatever the size of the device, though the
  scan believes `max_block`. As long as few blocks are lost this keeps the bitmap of
  one cluster safe; nothing in the code bounds the lost ones.
* `ImplementsNamespace`: mapped to its names on the device, each handler is one
  operation of `Lab4Namespace` or none, restart included.

### Bounds

Three numbers to give out allow a directory in a directory with a file in it,
every rename between two directories and the root, and running out of numbers.
With three blocks, one of them the root's, blocks run out before numbers. Five
slots are the least `RoomForAll` allows, so a directory is full exactly when
numbers end. One handle makes the table full. Two names are enough for a clash.
`MaxDeleted` bounds the entries flagged DELETED to one at a time: such slots are
taken over by the next entry like empty ones, and `FreshNumbers` needs one.
Names are interchangeable, so they are a symmetry set.

In `Lab4Data` two files are one that writes and one that can be hit, or one that
is deleted and one that takes its block; two handles are what a stale size needs;
three bytes have a first, an inner and a last offset, and one past it. The run stops where all
numbers are given out and all files deleted, as creation on the device does, so
it does not look for deadlocks.

In `Lab4Crash` two cuts let the second hit what the first has left, and two
numbers with three blocks leave room for a directory with something in it and for
both ends of a rename. In `Lab4Workers` two threads are what every race needs, and
the third number and second handle are what the loser of one may take instead;
each bitmap is one byte. Threads, directories and descriptors are symmetric. The
constraint `RacedApart` stops where a block race is followed by a number or handle
race: their effects are looked at apart. In `Lab4Paths` the tree is as deep as a
path and has a wrong turn at each level. Calls of a thread are told apart by
parity, as a place in any older call is only known to be stale. In `Lab4Mkfs` a
second format meets what the first one, its faults and its sessions left.

Fairness is assumed weakly, and where something has to happen only: in `Lab4Data`
of `Turn` and `EndWrite` and in `Lab4Paths` of the steps of each thread, because a
handler waits for nothing and its thread goes on. In `Lab4FS` a handler is one step
and nothing has to happen; the other modules have safety properties.

Properties of `Lab4Data`:

* `NothingOfOthers`: rests on `delete_block` clearing the block of a deleted file
  and on the scan giving out blocks nobody owns, also when overwrites spill. It is
  about the bytes below the size and those `do_read` hands out past it.
* `SizeReached`: sizes that come back through another handle stay within what was
  written or cleared, whoever cleared it: it sees sizes that reach into bytes older
  than the format only.
* `OwnBlock`, `EveryWriteReturns`: false, see the runs.

Properties of the others:

* `NamesKept`, `DotsKept`, `MarkedKept`: what a cut leaves, compared with before
  and after the whole call; the first on any device, the others on a `Sound` one,
  where earlier cuts have not made two inodes share a block. The exceptions are
  stated: a cut rmdir leaves a directory without `.` and `..`, and the first write
  of a file, cut between table and block bitmap, a block that looks free.
* `NumberFree`: the super block with the hint always goes first.
* `NumbersSafe`, `BlocksSafe`, `HandlesSafe`: which overlaps do harm. Each says
  that all others, releases, writes and opens in between, do none.
* `QuietDurable`: the flushes of overlapping handlers may carry half of each
  other's changes, but the last one carries all.
* `HandlesSafe`, `NoHandleLost`: opens and releases meet between the stores of each
  other; a race may share a handle and never strands one.
* `RightWhenAlone`, `WalksEnd`: what is left of a walk's correctness although the
  pointer is shared.
* `SessionCurrent`, `WholeUnlessSpoilt`: what goes wrong with the device goes wrong
  by a recorded fault, and one format that goes well mends it.
* `ScanOnDevice`, `AddressesTrue`: the wrap-arounds lose space and never give out a
  block beyond the device, or two blocks with one address in the data area. An address
  that is not its block's is negative, or before the data area.

## Proofs

All theorems hold for every value of the constants that satisfies the named
assumptions of the module; the constraints of the runs (DELETED entries, kinds of
faults, `RacedApart`) are not assumed.

| assumption | of | what it says, and why it may be said |
|---|---|---|
| `SizeAssumption`, `NamesAssumption` | `Lab4FS` | more inodes than reserved numbers, a block, directories of at most one table's worth of slots, a usable handle; clients use no empty name and no dots, which the kernel resolves |
| `BitsAssumption` | `Lab4BmapRaw` | the bitmap has a bit and its reserved bits are in it; the number of bits need not be a multiple of eight |
| `GeometryAssumption` | `Lab4Geometry` | a word has at least 8 bits and a unit 4 bytes (they have 32 and 512), sectors are not empty |
| `ReservedAssumption` | `Lab4Geometry` | the four clusters before the data area end within a word: at most 128 KiB of 4 GiB |
| `PathsAssumption` | `Lab4Paths` | the end of a path and the error are told apart from names and inodes |
| `DataAssumption`, `WorkersAssumption`, `MkfsAssumption` | the module | sizes and bounds are natural numbers, with room for one element |

| theorem | property | of | assumes besides |
|---|---|---|---|
| `TypeCorrect` | `TypeOK` | `Lab4FS` | |
| `DurableAlways` | `Durable` | `Lab4FS` | |
| `NumbersStayFresh` | `FreshNumbers` | `Lab4FS` | |
| `BlocksNeverShared` | `BlocksExclusive` | `Lab4FS` | |
| `FreeBlocksCounted` | `FreeBlocksExact` | `Lab4FS` | |
| `NoOtherBlockLost` | `BlocksKept` | `Lab4FS` | |
| `BlocksStayLow` | `BlocksLow` | `Lab4FS` | |
| `NoDanglingEntry` | `EntriesLive` | `Lab4FS` | `RoomForAll` |
| `AlwaysRoom` | `RoomToCreate` | `Lab4FS` | `RoomForAll` |
| `OneNameEach` | `OneEntryEach` | `Lab4FS` | `RoomForAll` |
| `OneTree` | `Connected` | `Lab4FS` | `RoomForAll` |
| `TwinsOnlyByRename` | `NamesStayUnique` | `Lab4FS` | `RoomForAll` |
| `NamesImplemented` | `ImplementsNamespace` | `Lab4FS` | `RoomForAll` |
| `BytesStayBytes` | `RawTypeOK` | `Lab4BmapRaw` | |
| `LoopMatchesScan` | `ScanAgrees` | `Lab4BmapRaw` | |
| `OneBitChanges` | `OneBitAStep` | `Lab4BmapRaw` | |
| `NumbersOnlyGrow` | `NumbersGrow` | `Lab4BmapRaw` | |
| `ScanStaysOnDevice` | `ScanOnDevice` | `Lab4Geometry` | |
| `BlocksFound` | `AddressesTrue` | `Lab4Geometry` | |
| `WalksAloneAreRight` | `RightWhenAlone` | `Lab4Paths` | |
| `SizesFit` | `TypeOK` | `Lab4Data` | `MaxEnd <= ClusterSize + 1` |
| `NothingLeaks` | `NothingOfOthers` | `Lab4Data` | `MaxEnd <= ClusterSize + 1` |
| `NoSizeTooLarge` | `SizeReached` | `Lab4Data` | `MaxEnd <= ClusterSize + 1` |
| `NumbersSurviveCuts` | `NumberFree` | `Lab4Crash` | |
| `CutsKeepNames` | `NamesKept` | `Lab4Crash` | |
| `CutsKeepMarks` | `MarkedKept` | `Lab4Crash` | |
| `CutsKeepDots` | `DotsKept` | `Lab4Crash` | |
| `WorkersTyped` | `WorkersTypeOK` | `Lab4Workers` | |
| `NumbersStaySafe` | `NumbersSafe` | `Lab4Workers` | |
| `BlocksStaySafe` | `BlocksSafe` | `Lab4Workers` | |
| `HandlesStaySafe` | `HandlesSafe` | `Lab4Workers` | |
| `QuietIsDurable` | `QuietDurable` | `Lab4Workers` | |
| `HandlesReleasable` | `NoHandleLost` | `Lab4Workers` | |
| `MkfsTypes` | `MkfsTypeOK` | `Lab4Mkfs` | |
| `OneFormat` | `WholeUnlessSpoilt` | `Lab4Mkfs` | |
| `BuffersCurrent` | `SessionCurrent` | `Lab4Mkfs` | |

Apart from some of the type invariants none of the properties is inductive.

`Lab4FS`. The invariant is built in layers, each proved from those below, one lemma
for each handler:

1. `Types`: the types; a directory has a block of the data area; device and
   memory agree up to what failed mkdirs took (`Stored`).
2. `Numbers`: every bit set, inode in use, number in a slot (DELETED ones too)
   and number in a handle is below the inode hint. So the scan stops at the hint
   itself (`NextInoIsHint`), and what it gives out is new.
3. `BlockUse`: owned blocks have their bits set and one owner, directories have
   their fixed size, handles refer to files or to inodes not in use, and an inode not
   in use has no size. Each handler takes a block together with its owner or gives
   both back (`UseKept`), a write through a stale handle excepted, which adds one to
   the set of blocks nobody owns (`Unowned`, `Loses`). `Counted` is the free count.
4. `Low`, for `BlocksLow`: a scan gives out a block at or before the hint, or right
   after one in use. A directory takes its block together with its number and a
   file later, with its first write, so the files without a block are owed one each
   (`Owed`), and there is room for all of them below the numbers given out and the
   blocks lost (`Limit`), which rise by one when a stale handle takes a block.
5. `Tree`: `.` and `..` keep the first two slots, so no name of a client finds
   them; entries name live inodes; entries and live inodes but the root are one
   to one; files have one link. A full directory would name more inodes than
   there are numbers: that is `RoomToCreate`, and it is why `MoveEntry` never
   loses the entry it moves.
6. `Spanned`: every set that holds the root and that no entry leads out of holds
   all inodes in use. Said in this way, without a path or a rank, a move keeps it as
   long as the directory does not go below itself, which the kernel sees to (`Walk` in the
   guards of the renames). `ClosureLeast` shows that the recursive `Closure` of `Connected`
   computes the least such set.

From `Tree` on a step is one of five (`NameSteps`): it adds a link, drops one, renames
one in place, moves one, or leaves all of them alone. These are the operations of
`Lab4Namespace`, so the refinement and `NamesStayUnique` are proved by five cases and
not by handlers. What the namespace says is mapped to the device, not the buffers:
`OnDisk` gets from one to the other by `Stored`.

`Lab4BmapRaw`. `RawInv`: bytes are bytes, and no bit from the hint on is set. A byte is
the sum of eight digits (`Digits`); adding the weight of a digit that is 0, or
subtracting that of one that is 1, changes this digit only (`SetDigit`, `ClearDigit`).
The loop of the scan is a recursive function of the place and of the turns left;
`LoopOutcome` shows by induction on the turns that it returns the first clear bit of
those it has yet to probe, and `LoopIsScan` that this is `Scan`.

`Lab4Geometry`. `GeometryInv` says what format and mount have computed, in terms of the
device. The rest is arithmetic, for sectors of the unit's size in the case of the
blocks: a count of sectors that has wrapped to something positive is smaller than the
device, and a remainder modulo the word not larger than what it is taken of; a count
that has wrapped to something negative makes for more blocks than there are, but then
their bytes wrap to less than a word, which the device has. For the addresses: the
blocks below `MaxBlock` fit into a word, so only the clusters before the data area can
carry an address over it, to one before the data area; from half a word on it is
negative.

`Lab4Paths`. `PathsInv`: while a walk is alone, the others are idle, and there is a
sequence of inodes, the `Trail` of its path, of which it has reached some member, with
the static pointer, or its own register, at the next name and no separator overwritten
from there on (`OnPath`). What the pointer held before its first `strtok`
does not enter. That a path has a trail and that it ends in `Resolve` is recursion over
its length (`HasTrail`).

`Lab4Data`, with clients that write into the first cluster of a file or begin where it
ends (past it, `Turn` leaves the block). A write that begins there never ends and
writes nothing (`Endless`), but it has taken a block that it keeps. `DataInv`: a
block has one `owner`, the file whose inode has it or the file of the write that has
just taken it (`Owners`); a free block holds zeroes or what it held before the
format, and an owned one besides these only bytes of its owner (`Clean`); and not
only the sizes of inodes but those of all handles and of the running write have been
reached (`Sizes`, `CallOK`), since a handle may bring its size back into the inode.
An overwrite clears a cluster from its offset on, so it spills zeroes into the next
block: that keeps all of this, which is why `SizeReached` and `Clean` allow zeroes.

`Lab4Crash`. `CutInv`: the hint is above every number in the bitmap and in the table
(`Above`), in the buffers, on the device and in the contents of a cut, and the hint
of the device is not above that of the buffers. Without the device's half a remount
would break it, without the last part a flush. `TornUnder` shows it for every prefix
of an order of flushes that begins with the super block, and it uses nothing else
of the orders. `WholeInv` adds what is left of order on a device after any cuts: the
sizes of inodes, the place of the dots, entries that name no reserved number
(`Fit`), and handles that refer to files or to numbers not in use. It says nothing of
bits or owners, which cuts do destroy. From it follows what each call writes, and so
each image that a cut can leave: `CutCases` has the six calls that can be cut. An
inode that has a name in the image had one before (`Shrinks`), and what had a name
before and after has it in the image (`Keeps`). The second needs no soundness, the
bits and dots do: a call must not write into a block that another inode has. `NeverFull`
counts: while no inode has two names, a full directory would name more inodes than
there are numbers, so rename and create never write past the slots.

`Lab4Workers`. `WorkersInv` has, next to types, two parts that hold whatever overlaps.
For `QuietDurable`: a cluster of the device that is behind its buffer
is among those that some call still has to flush (`Owed`). A call owes all clusters
its handler flushes from the first buffer it may have changed on (`Changed`), and
one less with each flush; what other calls change meanwhile they owe themselves. For
`NoHandleLost`: the descriptor that a create or open is to fill in is free and kept
for that call alone (`Reserved`), so the call that has marked a handle used can give it
to a descriptor, and the one that takes it from a descriptor has it in hand until the
flag is cleared.

The other three parts hold as long as no two calls of a kind have overlapped. `Apart`
ties that to the state: where `raced` lacks a kind, at most one call runs that takes
or gives back things of that kind. Then what this call has read of a bitmap is still
there when it stores the byte, and what its scan has found clear is still clear.
`NumInv` adds which numbers have their bit set (those of entries, but for an unlink
between the bit and the entry), `BlkInv` who owns which block (a write between the bit
and the inode owns it too, an unlink in progress has stopped to), and `HndInv` that a
descriptor's handle is marked used and has the number of its file's entry, and that the
handles which calls are filling in or giving back (`InPcs`) are marked used too, no
descriptor's, and different (`Held`, `HndOwn`). So an open that finds a flag clear has
the handle to itself, although the release of it has just ended. Blocks and handles follow
numbers: their parts are stated while numbers have not raced either.

`Lab4Mkfs`. `MkfsInv`: a format that has gone well so far and is alone has written
the clusters before the next one (`Written`); a format that is said to be alone has
no mount beside it (`Placed`); and as long as nothing is spoilt and no format has
written anything yet, the device is whole and a session's buffers are what it holds
(`Same`). Flushes and formats mix only where one of these has been given up, which
`spoilt` records.

`Lab4Lemmas` has what several of these need. Of the scan: what it returns is a clear
bit in range, and the hint itself when that is clear. Of recursive functions: an
induction rule and the existence of a sequence given by its steps. The rules of the
library have an operator as a parameter, which the provers cannot instantiate, so
here the predicate is a set and the step a function.

### What the proofs found

* `DotsKept` used to count a block as shared only between inodes that have names. The
  proof did not get past a write through a handle of an unlinked file: after two cuts
  and with three numbers to give out, more than the run has, its block may also be
  that of a named directory, whose dots the write destroys. `Sound` now counts the
  inodes that handles refer to (`Held`).
* `NamesKept` was stated for sound devices and turned out to hold on all of them.
* `BlocksLow` without a term for lost blocks holds only as long as no open file is
  unlinked; a bound on addresses that rests on it would be no bound of the code.
  `AddressesTrue` is about every block below `MaxBlock` instead.

Only model-checked: liveness under fairness (`WalksEnd`), which is out of the prover's
reach. The runs that expect a violation show what is false.

## Known disagreements that no run shows

The models have these as the code does them, and no property states the contrary:

* a rename of a directory to another parent leaves both link counts, its `..` and
  its `i_ptr` as they were (`dir.c:523`);
* an unlink with `hard_remove`, or after a rename to another directory, frees an inode
  that is open; `i_orphan` is not used (`file.c:367`). Each later write
  through the handle loses a block;
* once enough blocks are lost on a device of more than 128 MiB the scan leaves the
  buffer of the block bitmap, which is one cluster (`bmap.c:88`);
* the addresses of blocks from 2 GiB on are negative in the `int`s of `dir.c:51` and
  `file.c:315`; where the size of the data area in bytes, modulo 4 GiB, is within four
  clusters of 4 GiB, the last addresses wrap onto the reserved clusters (`file.c:423`);
* behind a hole a file shows what the device held before the format: blocks are
  cleared when they are freed, not when they are taken (`file.c:311`);
* a write that begins past the end of the cluster goes to the block there
  (`file.c:432`);
* an overwrite at an offset sets the size to its length, not to its end
  (`file.c:465`);
* `do_read` takes its length from `strlen` and not from the size (`file.c:519`);
* a cut mkdir or rename leaves an entry for an inode not in use, or two names;
* two creates, or two opens, that overlap get one number or one handle (`bmap.c:60`,
  `file.c:48`), the bit of one is undone by the store of the other's byte
  (`bmap_raw.c:45`), and an unlink may zero a block that a write has just taken
  (`file.c:359`);
* a format killed after its first write leaves a device that mounts, and reports
  success whatever its writes returned (`fsformat.c:456`, `fsformat.c:462`);
* the size of the data area wraps at 4 GiB (`mount.c:185`), and on devices with
  sectors of 4096 bytes the count of 512-byte units is multiplied by 4096
  (`fsformat.c:70`).

## What is not modelled

* Owners, modes and times: no handler that changes other state reads them back
  (`do_utimens` stores nothing). The `xmp_*` calls are stubs.
* The text of paths and names, the command lines, printing.
* Errors of `pread`, `pwrite` and `malloc` inside handlers, and blocks of a file
  past the first, which the code does not have.
* `do_readdir` and getattr, which change nothing.
* mkdir, rmdir and rename are not interleaved access by access with other calls:
  they allocate and free by the steps that create, write and unlink show, and their
  entries are guarded by the kernel's locks on directories.
* Cuts inside one `pwrite`; two mounts of one device at a time; image files, on
  which the format ends dividing by a sector size of 0 (`NoSize`).
* The vendored lists and trees, which nothing uses, unused macros, `Makefile`.

What would come next: mkdir and rename in `Lab4Workers`; a power failure in
`Lab4Crash`, where any subset of the writes of a handler may be on the device; the
structure of the tree after a crash (what `Tree` becomes when cuts have left entries
of inodes not in use).
