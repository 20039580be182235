-------------------------- MODULE Lab4CrashProofs --------------------------
(***************************************************************************)
(* What calls that are cut leave on the device, for any number of crashes, *)
(* any device and any directories.                                         *)
(*                                                                         *)
(* The hint of a super block is above every number its bitmap marks and    *)
(* every inode its table has.  This holds for the buffers, for the device  *)
(* and for what a cut leaves: of the clusters of a flush the super block   *)
(* is the first, so a bitmap or a table that is there is never newer.      *)
(*                                                                         *)
(* Names, bits and dots rest on that, on Fit, which holds of every image   *)
(* that a cut leaves, sound or not, and on NeverFull: while no inode has   *)
(* two names no directory is full, as its entries name different inodes.   *)
(***************************************************************************)
EXTENDS Lab4Crash, Lab4FSProofs

\* The hint h is above the numbers of the bitmap and of the table.
Above(h, bits, it) ==
    /\ h \in NumReserved..NumInodes
    /\ \A i \in bits : i \in Nat /\ i < h
    /\ DOMAIN it = Inos
    /\ \A i \in Inos : i >= h => it[i].type = "NONE"

Under(d) == /\ {"sb", "ibmap", "dbmap", "itable"} \subseteq DOMAIN d
          /\ "ino" \in DOMAIN d.sb
          /\ Above(d.sb.ino, d.ibmap, d.itable)

\* The buffers and the device, whose hint may be behind.
Hinted == /\ "ino" \in DOMAIN sb
          /\ Above(sb.ino, ibmap, itable)
          /\ Under(disk)
          /\ disk.sb.ino <= sb.ino

CutInv == Hinted /\ (cut # << >> => Under(cut[1].disk))

\* A step of the file system keeps that, and the hint of the device grows.
Steps == Hinted' /\ disk.sb.ino <= disk'.sb.ino

-----------------------------------------------------------------------------
LEMMA Bounds == NumInodes \in Nat /\ NumInodes > 3 /\ NumReserved = 3
  BY SizeAssumption DEF NumReserved

LEMMA HintedInit == CrashInit => CutInv
<1> SUFFICES ASSUME CrashInit PROVE CutInv
  OBVIOUS
<1>1. Above(FormatSb.ino, 0..(NumReserved - 1), FormatItable)
  BY Bounds DEF Above, FormatSb, FormatItable, ZeroInode, Inos, Root
<1>2. "ino" \in DOMAIN FormatSb /\ FormatSb.ino \in Int
  BY Bounds DEF FormatSb
<1>3. Under(FormatDisk)
  BY <1>1, <1>2 DEF Under, FormatDisk
<1> QED
  BY <1>1, <1>2, <1>3 DEF CrashInit, Init, Loaded, CutInv, Hinted, FormatDisk

\* alloc_new_inode finds the bit of the hint clear.
LEMMA FoundAtHint == ASSUME Hinted PROVE NextIno = sb.ino
<1>1. sb.ino \in 0..NumInodes /\ sb.ino \notin ibmap
  BY Bounds DEF Hinted, Above
<1> QED
  BY <1>1, Bounds, ScanHint DEF NextIno

\* What the changes of a super block do to its hint.
LEMMA HintOf ==
    ASSUME NEW s, "ino" \in DOMAIN s
    PROVE  /\ \A i : "ino" \in DOMAIN take_ino(s, i) /\ take_ino(s, i).ino = i + 1
           /\ \A t \in {inc_free_inodes(s), dec_free_inodes(s), inc_free_blocks(s),
                        dec_free_blocks(s)} : "ino" \in DOMAIN t /\ t.ino = s.ino
  BY DEF take_ino, inc_free_inodes, dec_free_inodes, inc_free_blocks, dec_free_blocks

\* Taking the number of the hint.
LEMMA Taken ==
    ASSUME Hinted, NextIno < NumInodes
    PROVE  /\ sb.ino \in Inos /\ sb.ino + 1 \in NumReserved..NumInodes
           /\ \A it : DOMAIN it = Inos /\ (\A i \in Inos : i > sb.ino => it[i] = itable[i])
                         => Above(sb.ino + 1, ibmap \cup {sb.ino}, it)
<1>1. sb.ino \in NumReserved..NumInodes /\ sb.ino < NumInodes
  BY FoundAtHint DEF Hinted, Above
<1> QED
  BY <1>1, Bounds DEF Hinted, Above, Inos

\* A named directory or file has a number below the hint.
LEMMA InUse == ASSUME Hinted, NEW i \in Inos, itable[i].type # "NONE" PROVE i < sb.ino
  BY Bounds DEF Hinted, Above, Inos

-----------------------------------------------------------------------------
(* The steps of the file system.                                           *)

LEMMA Flushed ==
    ASSUME Hinted, FlushAll, "ino" \in DOMAIN sb', Above(sb'.ino, ibmap', itable'),
           sb.ino <= sb'.ino
    PROVE  Steps
<1>1. /\ disk'.sb = sb' /\ disk'.ibmap = ibmap' /\ disk'.itable = itable'
      /\ {"sb", "ibmap", "dbmap", "itable"} \subseteq DOMAIN disk'
  BY DEF FlushAll
<1>2. Under(disk')
  BY <1>1 DEF Under
<1>3. disk.sb.ino \in Int /\ sb.ino \in Int /\ sb'.ino \in Int
  BY Bounds DEF Hinted, Under, Above
<1> QED
  BY <1>1, <1>2, <1>3 DEF Steps, Hinted

LEMMA MkdirHint ==
    ASSUME Hinted, NEW p \in NamedDirs, NEW n \in Names, MkdirDone(p, n)
    PROVE  Steps
<1>1. NextIno = sb.ino /\ NextIno < NumInodes
  BY FoundAtHint DEF MkdirDone
<1>2. p \in Inos /\ p < sb.ino
  BY InUse DEF NamedDirs, Dirs
<1>3. sb' = [dec_free_blocks(take_ino(sb, sb.ino)) EXCEPT !.blk = NextBlk]
  BY <1>1 DEF MkdirDone
<1>4. "ino" \in DOMAIN sb' /\ sb'.ino = sb.ino + 1
  BY <1>3, HintOf DEF Hinted
<1>5. /\ DOMAIN itable' = Inos
      /\ \A i \in Inos : i > sb.ino => itable'[i] = itable[i]
  BY <1>1, <1>2, Taken DEF MkdirDone, inc_link, Hinted, Above, Inos
<1>6. ibmap' = ibmap \cup {sb.ino} /\ FlushAll
  BY <1>1 DEF MkdirDone
<1>7. sb.ino \in Int
  BY Bounds DEF Hinted, Above
<1> QED
  BY <1>1, <1>4, <1>5, <1>6, <1>7, Taken, Flushed

\* rmdir and unlink free a number below the hint, which stays.
LEMMA Freed ==
    ASSUME Hinted, NEW x, ibmap' = ibmap \ {x}, DOMAIN itable' = Inos,
           \A i \in Inos : i >= sb.ino => itable'[i].type = "NONE",
           "ino" \in DOMAIN sb', sb'.ino = sb.ino, FlushAll
    PROVE  Steps
<1>1. Above(sb'.ino, ibmap', itable') /\ sb.ino <= sb'.ino
  BY Bounds DEF Hinted, Above
<1> QED
  BY <1>1, Flushed

LEMMA RmdirHint ==
    ASSUME Hinted, NEW p \in NamedDirs, NEW n \in Names, Rmdir(p, n)
    PROVE  Steps
<1>1. PICK x : x = Child(p, n) /\ x \in Dirs
  BY DEF Rmdir
<1>2. p \in Inos /\ p < sb.ino /\ x \in Inos
  BY <1>1, InUse DEF NamedDirs, Dirs
<1>3. ibmap' = ibmap \ {x} /\ sb' = inc_free_blocks(inc_free_inodes(sb)) /\ FlushAll
  BY <1>1 DEF Rmdir
<1>4. "ino" \in DOMAIN sb' /\ sb'.ino = sb.ino
  BY <1>3, HintOf DEF Hinted
<1>5. itable' = dec_link([itable EXCEPT ![x] = ZeroInode], p)
  BY <1>1 DEF Rmdir
<1>6. /\ DOMAIN itable' = Inos
      /\ \A i \in Inos : i >= sb.ino => itable'[i].type = "NONE"
  <2>1. sb.ino \in Int /\ ZeroInode.type = "NONE"
    BY Bounds DEF Hinted, Above, ZeroInode
  <2> QED
    BY <1>2, <1>5, <2>1 DEF dec_link, Hinted, Above, Inos
<1> QED
  BY <1>3, <1>4, <1>6, Freed

LEMMA UnlinkHint ==
    ASSUME Hinted, NEW p \in NamedDirs, NEW n \in Names, Unlink(p, n)
    PROVE  Steps
<1>1. PICK x : /\ ibmap' = ibmap \ {x} /\ itable' = [itable EXCEPT ![x] = ZeroInode]
               /\ FlushAll
               /\ \/ sb' = inc_free_inodes(sb)
                  \/ sb' = inc_free_inodes(inc_free_blocks(sb))
  BY DEF Unlink
<1>2. "ino" \in DOMAIN sb' /\ sb'.ino = sb.ino
  BY <1>1, HintOf DEF Hinted
<1>3. /\ DOMAIN itable' = Inos
      /\ \A i \in Inos : i >= sb.ino => itable'[i].type = "NONE"
  BY <1>1 DEF ZeroInode, Hinted, Above
<1> QED
  BY <1>1, <1>2, <1>3, Freed

LEMMA CreateHint ==
    ASSUME Hinted, NEW p, NEW n, CreateDone(p, n)
    PROVE  Steps
<1>1. NextIno = sb.ino /\ NextIno < NumInodes
  BY FoundAtHint DEF CreateDone
<1>2. sb' = dec_free_inodes(take_ino(sb, sb.ino))
  BY <1>1 DEF CreateDone
<1>3. "ino" \in DOMAIN sb' /\ sb'.ino = sb.ino + 1
  BY <1>2, HintOf DEF Hinted
<1>4. itable' = [itable EXCEPT ![sb.ino] = FileInode] /\ ibmap' = ibmap \cup {sb.ino}
  BY <1>1 DEF CreateDone
<1>5. /\ DOMAIN itable' = Inos
      /\ \A i \in Inos : i > sb.ino => itable'[i] = itable[i]
  BY <1>4, Bounds DEF Hinted, Above, Inos
<1>6. Above(sb'.ino, ibmap', itable')
  BY <1>1, <1>3, <1>4, <1>5, Taken
<1>7. /\ disk'.sb = sb' /\ disk'.ibmap = ibmap' /\ disk'.itable = itable'
      /\ {"sb", "ibmap", "dbmap", "itable"} \subseteq DOMAIN disk'
  BY DEF CreateDone, Hinted, Under
<1>8. Under(disk')
  BY <1>3, <1>6, <1>7 DEF Under
<1>9. disk.sb.ino \in Int /\ sb.ino \in Int /\ disk.sb.ino <= sb.ino
  BY Bounds DEF Hinted, Under, Above
<1> QED
  BY <1>3, <1>6, <1>7, <1>8, <1>9 DEF Steps, Hinted

LEMMA WriteHint ==
    ASSUME Hinted, NEW f \in Fids, Write(f)
    PROVE  Steps
<1>1. PICK home, node :
          /\ home = 0 \/ itable[home].type # "NONE"
          /\ itable' = [itable EXCEPT ![home] = node]
          /\ sb' = sb \/ sb' = dec_free_blocks(sb)
          /\ ibmap' = ibmap
          /\ disk' = [disk EXCEPT !.sb = sb', !.itable = itable', !.dbmap = dbmap']
  BY DEF Write
<1>2. "ino" \in DOMAIN sb' /\ sb'.ino = sb.ino
  BY <1>1, HintOf DEF Hinted
<1>3. sb.ino \in Int /\ sb.ino >= 3 /\ disk.sb.ino \in Int /\ disk.sb.ino <= sb.ino
  BY Bounds DEF Hinted, Under, Above
<1>4. Above(sb'.ino, ibmap', itable')
  BY <1>1, <1>2, <1>3 DEF Hinted, Above, Inos
<1>5. /\ disk'.sb = sb' /\ disk'.ibmap = disk.ibmap /\ disk'.itable = itable'
      /\ {"sb", "ibmap", "dbmap", "itable"} \subseteq DOMAIN disk'
  BY <1>1 DEF Hinted, Under
<1>6. Above(disk'.sb.ino, disk'.ibmap, disk'.itable)
  BY <1>2, <1>3, <1>4, <1>5 DEF Hinted, Under, Above
<1>7. Under(disk')
  BY <1>2, <1>5, <1>6 DEF Under
<1> QED
  BY <1>2, <1>3, <1>4, <1>5, <1>7 DEF Steps, Hinted

LEMMA NoInodeHint == ASSUME Hinted, NoInode PROVE Steps
<1>1. UNCHANGED <<sb, itable, disk>> /\ ibmap' = disk.ibmap
  BY DEF NoInode
<1>2. disk.sb.ino \in Int /\ sb.ino \in Int /\ disk.sb.ino <= sb.ino
  BY Bounds DEF Hinted, Under, Above
<1>3. Above(sb'.ino, ibmap', itable')
  BY <1>1, <1>2 DEF Hinted, Under, Above
<1> QED
  BY <1>1, <1>2, <1>3 DEF Steps, Hinted

LEMMA MkdirNoBlockHint == ASSUME Hinted, MkdirNoBlock PROVE Steps
<1>1. NextIno = sb.ino /\ NextIno < NumInodes /\ UNCHANGED <<itable, disk>>
  BY FoundAtHint DEF MkdirNoBlock
<1>2. sb' = take_ino(sb, sb.ino) /\ ibmap' = ibmap \cup {sb.ino}
  BY <1>1 DEF MkdirNoBlock
<1>3. "ino" \in DOMAIN sb' /\ sb'.ino = sb.ino + 1
  BY <1>2, HintOf DEF Hinted
<1>4. disk.sb.ino \in Int /\ sb.ino \in Int /\ disk.sb.ino <= sb.ino
  BY Bounds DEF Hinted, Under, Above
<1>5. Above(sb'.ino, ibmap', itable')
  BY <1>1, <1>2, <1>3, Taken DEF Hinted, Above
<1> QED
  BY <1>1, <1>3, <1>4, <1>5 DEF Steps, Hinted

LEMMA StillHint ==
    ASSUME Hinted, UNCHANGED <<sb, ibmap, itable, disk>>
    PROVE  Steps
  BY Bounds DEF Steps, Hinted, Under, Above

LEMMA RestartHint == ASSUME Hinted, Restart PROVE Steps
<1>1. /\ sb' = disk.sb /\ ibmap' = disk.ibmap /\ itable' = disk.itable /\ disk' = disk
  BY DEF Restart
<1>2. disk.sb.ino \in Int
  BY Bounds DEF Hinted, Under, Above
<1> QED
  BY <1>1, <1>2 DEF Steps, Hinted, Under

-----------------------------------------------------------------------------
(* Cuts.                                                                   *)

\* Of the clusters of a flush that begins with the super block, any prefix.
LEMMA TornUnder ==
    ASSUME Hinted, Steps, NEW order, Len(order) \in Nat, order[1] = "sb",
           NEW image \in Torn(order)
    PROVE  Under(image.disk)
<1>1. PICK k \in Nat : image.disk = [c \in DOMAIN disk |->
                  IF \E j \in 1..k : order[j] = c THEN disk'[c] ELSE disk[c]]
  <2>1. PICK k \in 0..(Len(order) - 1) :
           image = [disk |-> [c \in DOMAIN disk |->
                       IF \E j \in 1..k : order[j] = c THEN disk'[c] ELSE disk[c]],
                    area |-> area']
    BY DEF Torn
  <2>2. k \in Nat
    OBVIOUS
  <2> QED
    BY <2>1, <2>2
<1>2. Under(disk) /\ Under(disk') /\ disk.sb.ino <= disk'.sb.ino
  BY DEF Hinted, Steps
<1>3. CASE k = 0
  <2>1. DOMAIN image.disk = DOMAIN disk /\ \A c \in DOMAIN disk : image.disk[c] = disk[c]
    BY <1>1, <1>3
  <2> QED
    BY <1>2, <2>1 DEF Under
<1>4. CASE k > 0
  <2>1. 1 \in 1..k
    BY <1>4
  <2>2. DOMAIN image.disk = DOMAIN disk
    BY <1>1
  <2>3. /\ image.disk.sb = disk'.sb
        /\ image.disk.ibmap \in {disk.ibmap, disk'.ibmap}
        /\ image.disk.itable \in {disk.itable, disk'.itable}
    BY <1>1, <1>2, <2>1 DEF Under
  <2>4. disk.sb.ino \in Int /\ disk'.sb.ino \in Int
    BY <1>2, Bounds DEF Under, Above
  <2>5. Above(image.disk.sb.ino, image.disk.ibmap, image.disk.itable)
    <3>1. PICK h, g : h = disk'.sb.ino /\ g = disk.sb.ino
      OBVIOUS
    <3>2. Above(g, disk.ibmap, disk.itable) /\ Above(h, disk'.ibmap, disk'.itable)
      BY <1>2, <3>1 DEF Under
    <3>3. g \in Int /\ h \in Int /\ g <= h
      BY <1>2, <2>4, <3>1
    <3>4. \A bits \in {disk.ibmap, disk'.ibmap}, it \in {disk.itable, disk'.itable} :
             Above(h, bits, it)
      BY <3>2, <3>3, Bounds DEF Above, Inos
    <3> QED
      BY <2>3, <3>1, <3>4
  <2> QED
    BY <1>2, <2>2, <2>3, <2>5 DEF Under
<1> QED
  BY <1>3, <1>4

LEMMA OrdersBeginWithSb ==
    \A order \in {FlushOrder, CreateOrder, WriteOrder} : Len(order) \in Nat /\ order[1] = "sb"
<1>1. FlushOrder = <<"sb", "ibmap", "dbmap", "itable">>
  BY DEF FlushOrder
<1>2. CreateOrder = <<"sb", "ibmap", "itable">> /\ WriteOrder = <<"sb", "itable", "dbmap">>
  BY DEF CreateOrder, WriteOrder
<1> QED
  BY <1>1, <1>2

LEMMA HalfUnder == ASSUME Hinted, NEW a, NEW image \in Half(a) PROVE Under(image.disk)
  BY DEF Half, Hinted

\* The end of a call, cut or not.
LEMMA EndsOK == ASSUME Steps, Ends PROVE CutInv'
  BY DEF Steps, Ends, CutInv

LEMMA DiesOK ==
    ASSUME Steps, NEW images, Dies(images), \A image \in images : Under(image.disk)
    PROVE  CutInv'
<1>1. PICK image \in images : cut' = <<image>>
  BY DEF Dies
<1>2. cut'[1] = image
  BY <1>1
<1> QED
  BY <1>2 DEF Steps, CutInv

LEMMA InDirectoryKeeps ==
    ASSUME Hinted, NEW p \in NamedDirs, NEW n \in Names, InDirectory(p, n)
    PROVE  CutInv'
<1>1. CASE Mkdir(p, n) /\ Ends
  BY <1>1, MkdirHint, NoInodeHint, MkdirNoBlockHint, EndsOK DEF Mkdir
<1>2. CASE MkdirDone(p, n) /\ Dies(MkdirCuts(p, n))
  <2>1. Steps
    BY <1>2, MkdirHint
  <2>2. \A image \in MkdirCuts(p, n) : Under(image.disk)
    BY <2>1, TornUnder, HalfUnder, OrdersBeginWithSb DEF MkdirCuts
  <2> QED
    BY <1>2, <2>1, <2>2, DiesOK
<1>3. ASSUME Steps, NEW x PROVE \A image \in RemoveCuts(x) : Under(image.disk)
  BY <1>3, TornUnder, HalfUnder, OrdersBeginWithSb DEF RemoveCuts
<1>4. CASE Rmdir(p, n) /\ (Ends \/ Dies(RemoveCuts(Child(p, n))))
  BY <1>3, <1>4, RmdirHint, EndsOK, DiesOK
<1>5. CASE Unlink(p, n) /\ (Ends \/ Dies(RemoveCuts(Child(p, n))))
  BY <1>3, <1>5, UnlinkHint, EndsOK, DiesOK
<1>6. CASE Create(p, n) /\ Ends
  BY <1>6, CreateHint, NoInodeHint, EndsOK DEF Create
<1>7. CASE CreateDone(p, n) /\ Dies(Torn(CreateOrder))
  <2>1. Steps
    BY <1>7, CreateHint
  <2>2. \A image \in Torn(CreateOrder) : Under(image.disk)
    BY <2>1, TornUnder, OrdersBeginWithSb
  <2> QED
    BY <1>7, <2>1, <2>2, DiesOK
<1>8. CASE (Open(p, n) \/ \E m \in Names : RenameInPlace(p, n, m)) /\ Ends
  BY <1>8, StillHint, EndsOK DEF Open, RenameInPlace, mem
<1> QED
  BY <1>1, <1>2, <1>4, <1>5, <1>6, <1>7, <1>8 DEF InDirectory

LEMMA BetweenKeeps ==
    ASSUME Hinted, NEW p, NEW n, NEW t, NEW m, BetweenDirectories(p, n, t, m)
    PROVE  CutInv'
<1>1. Steps
  BY StillHint DEF BetweenDirectories, RenameAcross, RenameInto, MoveEntry, mem
<1>2. \A d : \A image \in MoveCuts(p, n, d) : Under(image.disk)
  BY HalfUnder DEF MoveCuts
<1>3. Ends \/ \E d : Dies(MoveCuts(p, n, d))
  BY DEF BetweenDirectories
<1> QED
  BY <1>1, <1>2, <1>3, EndsOK, DiesOK

LEMMA OnHandleKeeps == ASSUME Hinted, NEW f \in Fids, OnHandle(f) PROVE CutInv'
<1>1. CASE Release(f) /\ Ends
  BY <1>1, StillHint, EndsOK DEF Release, mem
<1>2. CASE WriteNoBlock(f) /\ Ends
  BY <1>2, StillHint, EndsOK DEF WriteNoBlock
<1>3. CASE Write(f) /\ (Ends \/ Dies(Torn(WriteOrder)))
  <2>1. Steps
    BY <1>3, WriteHint
  <2>2. \A image \in Torn(WriteOrder) : Under(image.disk)
    BY <2>1, TornUnder, OrdersBeginWithSb
  <2> QED
    BY <1>3, <2>1, <2>2, EndsOK, DiesOK
<1> QED
  BY <1>1, <1>2, <1>3 DEF OnHandle

LEMMA RemountKeeps == ASSUME CutInv, Remount PROVE CutInv'
<1>1. /\ Under(disk') /\ cut' = << >>
      /\ sb' = disk'.sb /\ ibmap' = disk'.ibmap /\ itable' = disk'.itable
  BY DEF Remount, CutInv
<1>2. disk'.sb.ino \in Int
  BY <1>1, Bounds DEF Under, Above
<1> QED
  BY <1>1, <1>2 DEF CutInv, Hinted, Under

LEMMA CutInvStep == CutInv /\ [CrashNext]_crashVars => CutInv'
<1> SUFFICES ASSUME CutInv, [CrashNext]_crashVars PROVE CutInv'
  OBVIOUS
<1>1. Hinted
  BY DEF CutInv
<1>2. CASE \E p \in NamedDirs, n \in Names : InDirectory(p, n)
  BY <1>1, <1>2, InDirectoryKeeps
<1>3. CASE \E p \in NamedDirs, n \in Names, t \in NamedDirs, m \in Names :
              BetweenDirectories(p, n, t, m)
  BY <1>1, <1>3, BetweenKeeps
<1>4. CASE \E f \in Fids : OnHandle(f)
  BY <1>1, <1>4, OnHandleKeeps
<1>5. CASE Restart /\ Ends
  BY <1>1, <1>5, RestartHint, EndsOK
<1>6. CASE Remount
  BY <1>6, RemountKeeps
<1>7. CASE UNCHANGED crashVars
  BY <1>7 DEF crashVars, vars, mem, CutInv, Hinted
<1> QED
  BY <1>2, <1>3, <1>4, <1>5, <1>6, <1>7 DEF CrashNext

(***************************************************************************)
(* However often handlers are cut between two of their writes, and whatever*)
(* prefix of their writes is on the device then, alloc_new_inode never     *)
(* gives out a number whose inode is in use.                               *)
(***************************************************************************)
THEOREM NumbersSurviveCuts == CrashSpec => []NumberFree
<1>1. CutInv => NumberFree
  <2> SUFFICES ASSUME CutInv, NextIno < NumInodes PROVE itable[NextIno].type = "NONE"
    BY DEF NumberFree
  <2>1. NextIno = sb.ino /\ sb.ino \in Inos
    BY FoundAtHint, Taken DEF CutInv
  <2> QED
    BY <2>1, Bounds DEF CutInv, Hinted, Above, Inos
<1> QED
  BY <1>1, HintedInit, CutInvStep, PTL DEF CrashSpec

-----------------------------------------------------------------------------
(* What is on the device however calls were cut.                           *)

\* An inode in use has the size of its type, and only the root has block 0.
NodeOK(i, x) == /\ x.type = "DIR" => x.size = DirSlots
                /\ x.size > 0 => x.blk \in Blocks /\ (i # Root => x.blk # 0)
                /\ x.type = "NONE" /\ i # 0 => x.size = 0

TableOK(it) == /\ it[0].type = "NONE"
               /\ it[Root].type = "DIR" /\ it[Root].blk = 0
               /\ \A i \in Inos : NodeOK(i, it[i])

\* "." and ".." are where mkdir writes them, and are never deleted.
CellOK(s, c) == /\ c.name = "." => s = 0 /\ c.flag = "USED"
                /\ c.name = ".." => s = 1 /\ c.flag = "USED"
                /\ c.flag = "USED" => c.name \in Names \cup {".", ".."}
                /\ c.flag = "USED" /\ c.name \in Names => c.ino > Root

AreaOK(a) == /\ a[0][0] = Entry(".", Root) /\ a[0][1].name = ".."
             /\ \A b \in Blocks, s \in BlockSlots : CellOK(s, a[b][s])

\* What a mount finds in order, if not sound.
Fit(d, a) == /\ d \in DiskType /\ a \in AreaType
             /\ TableOK(d.itable) /\ 0 \in d.dbmap
             /\ AreaOK(a)

\* A handle is of a file, or of a number that is not in use.
HandlesFit == \A f \in Fids : /\ file_table[f] < sb.ino
                              /\ itable[file_table[f]].type \in {"NONE", "FILE"}

Fine == Types /\ Stored /\ Hinted /\ Fit(disk, area) /\ HandlesFit

WholeInv == Fine /\ (cut # << >> => Fit(cut[1].disk, cut[1].area))

\* A cell that a handler writes as an entry: of a client's name, or deleted.
Plain(c) == /\ c \in Cell
            /\ c.name \notin {".", ".."}
            /\ c.flag = "USED" => c.name \in Names /\ c.ino > Root

-----------------------------------------------------------------------------
(* Tables and blocks.                                                      *)

LEMMA Sizes == /\ 0 \in Inos /\ Root \in Inos /\ 0 \in Blocks /\ 0 \in BlockSlots
               /\ 1 \in BlockSlots /\ 0 \in Slots /\ 1 \in Slots
               /\ NumInodes \in Nat /\ NumBlocks \in Nat /\ DirSlots \in Nat
               /\ DirSlots > 2 /\ DirSlots <= NumInodes
  BY SizeAssumption DEF Inos, Blocks, BlockSlots, Slots, Root, NumReserved

LEMMA ClientNames == ASSUME NEW n \in Names PROVE n # "" /\ n # "." /\ n # ".."
  BY NamesAssumption

LEMMA TableSet ==
    ASSUME NEW it \in [Inos -> InodeType], TableOK(it), NEW j \in Inos \ {Root},
           NEW x, NodeOK(j, x), j = 0 => x.type = "NONE"
    PROVE  TableOK([it EXCEPT ![j] = x])
<1>1. \A i \in Inos : [it EXCEPT ![j] = x][i] = IF i = j THEN x ELSE it[i]
  OBVIOUS
<1> QED
  BY <1>1, Sizes DEF TableOK

LEMMA TableLinks ==
    ASSUME NEW it \in [Inos -> InodeType], TableOK(it), NEW p \in Inos
    PROVE  TableOK(inc_link(it, p)) /\ TableOK(dec_link(it, p))
<1>1. \A i \in Inos : NodeOK(i, inc_link(it, p)[i]) /\ NodeOK(i, dec_link(it, p)[i])
  BY LinkTypes DEF TableOK, NodeOK
<1> QED
  BY <1>1, LinkTypes, Sizes DEF TableOK

LEMMA NewNodes ==
    /\ \A i \in Inos : NodeOK(i, ZeroInode) /\ NodeOK(i, FileInode)
    /\ \A i \in Inos, b \in Blocks \ {0} : NodeOK(i, DirInode(b))
<1>1. ZeroInode.type = "NONE" /\ ZeroInode.size = 0
  BY DEF ZeroInode
<1>2. FileInode.type = "FILE" /\ FileInode.size = 0
  BY DEF FileInode
<1>3. \A b : /\ DirInode(b).type = "DIR" /\ DirInode(b).size = DirSlots
             /\ DirInode(b).blk = b
  BY DEF DirInode
<1> QED
  BY <1>1, <1>2, <1>3, Sizes DEF NodeOK

(***************************************************************************)
(* Writing an entry, to a slot that is not the dots of the root.           *)
(***************************************************************************)
LEMMA SlotWritten ==
    ASSUME NEW a \in AreaType, AreaOK(a), NEW b \in Blocks, NEW s \in 0..DirSlots,
           NEW c, Plain(c), b = 0 => s \notin {0, 1}
    PROVE  WriteSlot(a, b, s, c) \in AreaType /\ AreaOK(WriteSlot(a, b, s, c))
<1>1. WriteSlot(a, b, s, c) \in AreaType
  <2>1. b \in Int /\ s \in Int
    BY Sizes DEF Blocks
  <2> QED
    BY <2>1, WriteSlotType DEF Plain
<1>2. \A t \in BlockSlots : CellOK(t, c)
  BY DEF Plain, CellOK
<1>3. ASSUME NEW k \in Blocks, NEW t \in BlockSlots, k = 0 => t \notin {0, 1}
      PROVE  AreaOK([a EXCEPT ![k][t] = c])
  <2>1. \A l \in Blocks, u \in BlockSlots :
           [a EXCEPT ![k][t] = c][l][u] = IF l = k /\ u = t THEN c ELSE a[l][u]
    BY DEF AreaType
  <2> QED
    BY <1>2, <1>3, <2>1, Sizes DEF AreaOK
<1>4. CASE s < NumInodes
  <2>1. s \in BlockSlots
    BY <1>4, Sizes DEF BlockSlots
  <2> QED
    BY <1>1, <1>3, <1>4, <2>1 DEF WriteSlot
<1>5. CASE ~(s < NumInodes) /\ b + 1 < NumBlocks
  <2>1. b + 1 \in Blocks /\ b + 1 # 0
    BY <1>5, Sizes DEF Blocks
  <2> QED
    BY <1>1, <1>3, <1>5, <2>1, Sizes DEF WriteSlot
<1>6. CASE ~(s < NumInodes) /\ ~(b + 1 < NumBlocks)
  BY <1>1, <1>6 DEF WriteSlot
<1> QED
  BY <1>4, <1>5, <1>6

LEMMA BlockWritten ==
    ASSUME NEW a \in AreaType, AreaOK(a), NEW b \in Blocks \ {0},
           NEW k \in [BlockSlots -> Cell], \A s \in BlockSlots : CellOK(s, k[s])
    PROVE  [a EXCEPT ![b] = k] \in AreaType /\ AreaOK([a EXCEPT ![b] = k])
<1>1. [a EXCEPT ![b] = k] \in AreaType
  BY DEF AreaType
<1>2. \A l \in Blocks : [a EXCEPT ![b] = k][l] = IF l = b THEN k ELSE a[l]
  BY DEF AreaType
<1> QED
  BY <1>1, <1>2, Sizes DEF AreaOK

LEMMA BlocksOK ==
    /\ \A s \in BlockSlots : CellOK(s, ZeroBlock[s])
    /\ \A s \in BlockSlots : CellOK(s, [ZeroBlock EXCEPT ![0] = DataSlot][s])
    /\ \A i, p : \A s \in BlockSlots : /\ CellOK(s, NewDirBlock(i, p)[s])
                                       /\ NewDirBlock(i, p)[s].name \notin Names
    /\ \A i, p : /\ NewDirBlock(i, p)[0] = Entry(".", i)
                 /\ NewDirBlock(i, p)[1] = Entry("..", p)
    /\ Plain(DataSlot)
<1>1. \A s : CellOK(s, EmptySlot) /\ CellOK(s, DataSlot)
  BY DEF CellOK, EmptySlot, DataSlot
<1>2. \A i : CellOK(0, Entry(".", i)) /\ CellOK(1, Entry("..", i))
  BY NamesAssumption DEF CellOK, Entry
<1>3. \A s \in BlockSlots : ZeroBlock[s] = EmptySlot
  BY DEF ZeroBlock
<1>4. \A s \in BlockSlots :
         [ZeroBlock EXCEPT ![0] = DataSlot][s] \in {EmptySlot, DataSlot}
  BY DEF ZeroBlock
<1>5. \A i, p : \A s \in BlockSlots :
         NewDirBlock(i, p)[s] = IF s = 0 THEN Entry(".", i)
                                ELSE IF s = 1 THEN Entry("..", p) ELSE EmptySlot
  BY DEF NewDirBlock, ZeroBlock
<1>6. EmptySlot.name \notin Names /\ \A i : Entry(".", i).name \notin Names
                                         /\ Entry("..", i).name \notin Names
  BY NamesAssumption DEF EmptySlot, Entry
<1>7. Plain(DataSlot)
  BY Sizes DEF Plain, DataSlot, Cell
<1> QED
  BY <1>1, <1>2, <1>3, <1>4, <1>5, <1>6, <1>7, Sizes

-----------------------------------------------------------------------------
(* The slots that lookups find and new entries take.                       *)

\* The first two slots of directory d still have the names mkdir gave them.
Dotted(d) == Slot(d, 0).name = "." /\ Slot(d, 1).name = ".."

LEMMA DirBlk ==
    ASSUME Fine, NEW d \in Dirs
    PROVE  /\ d \in Inos /\ itable[d].blk \in Blocks /\ itable[d].size = DirSlots
           /\ area \in AreaType /\ AreaOK(area) /\ itable \in [Inos -> InodeType]
           /\ TableOK(itable)
           /\ itable[d].blk = 0 => Dotted(d)
           /\ \A s \in BlockSlots : CellOK(s, Slot(d, s))
<1>1. /\ d \in Inos /\ itable[d].blk \in Blocks /\ area \in AreaType /\ AreaOK(area)
      /\ itable \in [Inos -> InodeType] /\ TableOK(itable)
  BY DEF Fine, Fit, Stored, Types, TypeOK, DirBlocks, Dirs
<1>2. itable[d].size = DirSlots
  BY <1>1 DEF TableOK, NodeOK, Dirs
<1>3. area[0][0].name = "." /\ area[0][1].name = ".."
  BY <1>1 DEF AreaOK, Entry
<1> QED
  BY <1>1, <1>2, <1>3 DEF Dotted, Slot, AreaOK

LEMMA PastDots ==
    ASSUME Fine, NEW d \in Dirs, Dotted(d)
    PROVE  /\ FreeSlot(d) \notin {0, 1}
           /\ \A n \in Names : Found(d, n) => LookupSlot(d, n) \notin {0, 1}
<1>1. Slot(d, 0).flag = "USED" /\ Slot(d, 1).flag = "USED"
  BY DirBlk, Sizes DEF CellOK, Dotted
<1>2. FreeSlot(d) \notin {0, 1}
  BY <1>1, FreeSlotFinds, Sizes
<1>3. ASSUME NEW n \in Names, Found(d, n) PROVE LookupSlot(d, n) \notin {0, 1}
  <2>1. PICK s : s = LookupSlot(d, n) /\ Slot(d, s).name = n
    BY <1>3, LookupFinds
  <2>2. s # 0 /\ s # 1
    BY <2>1, ClientNames DEF Dotted
  <2> QED
    BY <2>1, <2>2
<1> QED
  BY <1>2, <1>3

LEMMA LookupCell ==
    ASSUME Fine, NEW p \in Dirs, NEW n \in Names, Found(p, n)
    PROVE  LET s == LookupSlot(p, n)
               c == Slot(p, s)
           IN  /\ s \in Slots /\ s \in BlockSlots /\ s < NumInodes /\ s \in 0..DirSlots
               /\ c.flag = "USED" /\ c.name = n /\ c.ino = Child(p, n)
               /\ Child(p, n) \in Inos /\ Child(p, n) > Root
               /\ Plain(c)
               /\ Plain([c EXCEPT !.flag = "DELETED"])
               /\ [c EXCEPT !.flag = "DELETED"].flag = "DELETED"
<1> DEFINE s == LookupSlot(p, n)
           c == Slot(p, s)
<1>1. s \in Slots /\ c.flag = "USED" /\ c.name = n /\ c.ino = Child(p, n)
  BY LookupFinds DEF Child
<1>2. s \in BlockSlots /\ s < NumInodes /\ s \in 0..DirSlots
  BY <1>1, Sizes DEF Slots, BlockSlots
<1>3. c \in Cell /\ CellOK(s, c)
  BY <1>1, <1>2, DirBlk, SlotType DEF Fine
<1>4. c.ino \in Inos /\ c.ino > Root
  BY <1>1, <1>3 DEF CellOK, Cell
<1>5. Plain(c)
  BY <1>1, <1>3, <1>4, ClientNames DEF Plain
<1>6. /\ [c EXCEPT !.flag = "DELETED"] \in Cell
      /\ [c EXCEPT !.flag = "DELETED"].flag = "DELETED"
      /\ [c EXCEPT !.flag = "DELETED"].name = n
  BY <1>1, <1>3, CellTypes DEF Cell
<1>7. Plain([c EXCEPT !.flag = "DELETED"])
  BY <1>6, ClientNames DEF Plain
<1> QED
  BY <1>1, <1>2, <1>4, <1>5, <1>6, <1>7

(***************************************************************************)
(* Adding, changing and deleting entries keeps the area in order.          *)
(***************************************************************************)
LEMMA EntryWritten ==
    ASSUME Fine, NEW p \in Dirs, NEW c, Plain(c)
    PROVE  LET a == WriteSlot(area, itable[p].blk, FreeSlot(p), c)
           IN  a \in AreaType /\ AreaOK(a)
<1>1. FreeSlot(p) \in 0..DirSlots
  BY FreeSlotFinds
<1>2. itable[p].blk = 0 => FreeSlot(p) \notin {0, 1}
  BY DirBlk, PastDots
<1> QED
  BY <1>1, <1>2, DirBlk, SlotWritten

LEMMA EntryChanged ==
    ASSUME Fine, NEW a \in AreaType, AreaOK(a), NEW p \in Dirs, NEW n \in Names,
           Found(p, n)
    PROVE  /\ DeleteSlot(a, p, LookupSlot(p, n)) \in AreaType
           /\ AreaOK(DeleteSlot(a, p, LookupSlot(p, n)))
           /\ \A c : Plain(c) =>
                 AreaOK(WriteSlot(a, itable[p].blk, LookupSlot(p, n), c))
<1>1. itable[p].blk = 0 => LookupSlot(p, n) \notin {0, 1}
  BY DirBlk, PastDots
<1>2. LookupSlot(p, n) \in 0..DirSlots /\ itable[p].blk \in Blocks
  BY DirBlk, LookupCell
<1>3. ASSUME NEW c, Plain(c)
      PROVE  /\ WriteSlot(a, itable[p].blk, LookupSlot(p, n), c) \in AreaType
             /\ AreaOK(WriteSlot(a, itable[p].blk, LookupSlot(p, n), c))
  BY <1>1, <1>2, <1>3, SlotWritten
<1> QED
  BY <1>3, LookupCell DEF DeleteSlot

LEMMA EntryPlain ==
    ASSUME NEW n \in Names, NEW i \in Inos, i > Root
    PROVE  Plain(Entry(n, i))
  BY ClientNames, CellTypes DEF Plain, Entry

-----------------------------------------------------------------------------
(* Every step of the file system leaves the device fit.                    *)

\* What a step has to show of the buffers: the device follows them.
FineNext == TableOK(itable)' /\ (0 \in dbmap)' /\ AreaOK(area)' /\ HandlesFit'

LEMMA HintKept ==
    ASSUME Fine
    PROVE  /\ sb.ino \in NumReserved..NumInodes /\ NextIno = sb.ino
           /\ "ino" \in DOMAIN sb /\ sb \in SbType
           /\ NextBlk < NumBlocks => NextBlk \in Blocks \ {0} /\ NextBlk \notin dbmap
           /\ \A i \in Inos : itable[i].type # "NONE" => i < sb.ino
           /\ 0 \in dbmap /\ disk.itable = itable /\ disk.dbmap = dbmap
           /\ AreaOK(area) /\ area \in AreaType
           /\ TableOK(itable) /\ itable \in [Inos -> InodeType]
           /\ file_table \in [Fids -> Inos]
<1>1. Hinted /\ 0 \in dbmap /\ Types
  BY DEF Fine, Stored, Fit
<1> QED
  BY <1>1, FoundAtHint, InUse, NextIsFree DEF Fine, Stored, Fit, Hinted, Above, Types, TypeOK

\* The handles that stay open.
LEMMA HandlesStay ==
    ASSUME Fine, file_table' = file_table, sb'.ino \in Int, sb.ino <= sb'.ino,
           \A j \in Inos : j < sb.ino /\ itable[j].type \in {"NONE", "FILE"}
                              => itable'[j].type \in {"NONE", "FILE"}
    PROVE  HandlesFit'
<1>1. sb.ino \in Int
  BY HintKept
<1>2. \A f \in Fids : /\ file_table[f] \in Inos /\ file_table[f] \in Int
                      /\ file_table[f] < sb.ino
                      /\ itable[file_table[f]].type \in {"NONE", "FILE"}
  BY HintKept DEF Fine, HandlesFit, Inos
<1> QED
  BY <1>1, <1>2 DEF HandlesFit

LEMMA MkdirFine ==
    ASSUME Fine, NEW p \in Dirs, NEW n \in Names, MkdirDone(p, n)
    PROVE  FineNext
<1>1. PICK i, b : i = NextIno /\ b = NextBlk
  OBVIOUS
<1>2. /\ i = sb.ino /\ i \in Inos /\ i > Root /\ b \in Blocks \ {0}
  BY <1>1, HintKept, Sizes DEF MkdirDone, Inos, NumReserved, Root
<1>3. sb' = [dec_free_blocks(take_ino(sb, i)) EXCEPT !.blk = b]
  BY <1>1 DEF MkdirDone
<1>4. sb'.ino = i + 1
  BY <1>3, HintKept, HintOf
<1> DEFINE it == [itable EXCEPT ![i] = DirInode(b)]
<1>5. it \in [Inos -> InodeType] /\ TableOK(it) /\ p \in Inos
  <2>1. i \in Inos \ {Root} /\ i # 0
    BY <1>2, Sizes DEF Root
  <2> QED
    BY <1>2, <2>1, TableSet, NewNodes, HintKept, InodeTypes, DirBlk
<1>6. itable' = inc_link(it, p)
  BY <1>1 DEF MkdirDone
<1>7. TableOK(itable')
  BY <1>5, <1>6, TableLinks
<1>8. HandlesFit'
  <2>1. \A j \in Inos : itable'[j].type = it[j].type
    BY <1>5, <1>6, LinkTypes
  <2>2. \A j \in Inos : j # i => it[j] = itable[j]
    BY HintKept
  <2>3. sb.ino \in Int
    BY <1>2, HintKept
  <2>4. \A j \in Inos : j < sb.ino => itable'[j].type = itable[j].type
    BY <1>2, <2>1, <2>2, <2>3
  <2>5. file_table' = file_table
    BY DEF MkdirDone
  <2> QED
    BY <1>2, <1>4, <2>3, <2>4, <2>5, HandlesStay
<1>9. AreaOK(area')
  <2>1. PICK a : /\ a = WriteSlot(area, itable[p].blk, FreeSlot(p), Entry(n, i))
                 /\ a \in AreaType /\ AreaOK(a)
    BY <1>2, EntryPlain, EntryWritten
  <2>2. area' = [a EXCEPT ![b] = NewDirBlock(i, p)]
    BY <1>1, <2>1 DEF MkdirDone
  <2> QED
    BY <1>2, <1>5, <2>1, <2>2, BlockWritten, BlocksOK, CellTypes
<1>10. 0 \in dbmap'
  BY HintKept DEF MkdirDone
<1> QED
  BY <1>7, <1>8, <1>9, <1>10 DEF FineNext

LEMMA CreateFine ==
    ASSUME Fine, NEW p \in Dirs, NEW n \in Names, CreateDone(p, n)
    PROVE  FineNext
<1>1. PICK i : i = NextIno
  OBVIOUS
<1>2. i = sb.ino /\ i \in Inos /\ i > Root
  BY <1>1, HintKept, Sizes DEF CreateDone, Inos, NumReserved, Root
<1>3. sb' = dec_free_inodes(take_ino(sb, i))
  BY <1>1 DEF CreateDone
<1>4. sb'.ino = i + 1
  BY <1>3, HintKept, HintOf
<1>5. itable' = [itable EXCEPT ![i] = FileInode]
  BY <1>1 DEF CreateDone
<1>6. TableOK(itable')
  <2>1. i \in Inos \ {Root} /\ i # 0
    BY <1>2, Sizes DEF Root
  <2> QED
    BY <1>2, <1>5, <2>1, TableSet, NewNodes, HintKept
<1>7. HandlesFit'
  <2>1. \A f \in Fids : file_table'[f] \in {file_table[f], i}
    BY <1>1, HintKept DEF CreateDone, OpenFid
  <2>2. \A f \in Fids : /\ file_table[f] \in Inos /\ file_table[f] < i
                        /\ itable[file_table[f]].type \in {"NONE", "FILE"}
    BY <1>2, HintKept DEF Fine, HandlesFit
  <2>3. FileInode.type = "FILE"
    BY DEF FileInode
  <2>4. \A j \in Inos : itable'[j] = IF j = i THEN FileInode ELSE itable[j]
    BY <1>2, <1>5, HintKept
  <2>5. ASSUME NEW f \in Fids
        PROVE  file_table'[f] < sb'.ino /\ itable'[file_table'[f]].type \in {"NONE", "FILE"}
    <3>1. CASE file_table'[f] = i
      BY <1>2, <1>4, <2>3, <2>4, <3>1 DEF Inos
    <3>2. CASE file_table'[f] = file_table[f]
      BY <1>2, <1>4, <2>2, <2>4, <3>2 DEF Inos
    <3> QED
      BY <2>1, <3>1, <3>2
  <2> QED
    BY <2>5 DEF HandlesFit
<1>8. AreaOK(area')
  BY <1>1, <1>2, EntryPlain, EntryWritten DEF CreateDone
<1>9. 0 \in dbmap'
  BY HintKept DEF CreateDone
<1> QED
  BY <1>6, <1>7, <1>8, <1>9 DEF FineNext

LEMMA RmdirFine ==
    ASSUME Fine, NEW p \in Dirs, NEW n \in Names, Rmdir(p, n)
    PROVE  FineNext /\ LET a == [area EXCEPT ![itable[Child(p, n)].blk] = ZeroBlock]
                       IN  a \in AreaType /\ AreaOK(a)
<1>1. PICK x : x = Child(p, n) /\ x \in Dirs /\ x \in Inos /\ x > Root /\ Found(p, n)
  BY LookupCell DEF Rmdir
<1>2. x \in Inos \ {Root} /\ x # 0
  BY <1>1, Sizes DEF Root
<1>3. itable[x].blk \in Blocks \ {0}
  BY <1>1, <1>2, DirBlk, Sizes DEF TableOK, NodeOK
<1>4. sb' = inc_free_blocks(inc_free_inodes(sb))
  BY DEF Rmdir
<1>5. sb'.ino = sb.ino
  BY <1>4, HintKept, HintOf
<1> DEFINE it == [itable EXCEPT ![x] = ZeroInode]
           a == [area EXCEPT ![itable[x].blk] = ZeroBlock]
<1>6. it \in [Inos -> InodeType] /\ TableOK(it) /\ p \in Inos
  BY <1>2, TableSet, NewNodes, HintKept, InodeTypes, DirBlk
<1>7. itable' = dec_link(it, p)
  BY <1>1 DEF Rmdir
<1>8. TableOK(itable')
  BY <1>6, <1>7, TableLinks
<1>9. HandlesFit'
  <2>1. \A j \in Inos : itable'[j].type = it[j].type
    BY <1>6, <1>7, LinkTypes
  <2>2. \A j \in Inos : it[j] = itable[j] \/ it[j].type = "NONE"
    BY <1>1, HintKept DEF ZeroInode
  <2>3. sb.ino \in Int /\ sb.ino <= sb.ino
    BY HintKept
  <2>4. file_table' = file_table
    BY DEF Rmdir
  <2> QED
    BY <1>5, <2>1, <2>2, <2>3, <2>4, HandlesStay
<1>10. a \in AreaType /\ AreaOK(a)
  BY <1>3, HintKept, BlockWritten, BlocksOK, CellTypes
<1>11. area' = DeleteSlot(a, p, LookupSlot(p, n))
  BY <1>1 DEF Rmdir
<1>12. AreaOK(area')
  BY <1>1, <1>10, <1>11, EntryChanged
<1>13. 0 \in dbmap'
  BY <1>1, <1>3, HintKept DEF Rmdir
<1> QED
  BY <1>1, <1>8, <1>9, <1>10, <1>12, <1>13 DEF FineNext

LEMMA UnlinkFine ==
    ASSUME Fine, NEW p \in Dirs, NEW n \in Names, Unlink(p, n)
    PROVE  /\ FineNext
           /\ itable[Child(p, n)].size > 0 =>
                 LET a == [area EXCEPT ![itable[Child(p, n)].blk] = ZeroBlock]
                 IN  a \in AreaType /\ AreaOK(a)
<1>1. PICK x : x = Child(p, n) /\ x \in Files /\ x \in Inos /\ x > Root /\ Found(p, n)
  BY LookupCell DEF Unlink
<1>2. x \in Inos \ {Root} /\ x # 0
  BY <1>1, Sizes DEF Root
<1>3. itable[x].size > 0 => itable[x].blk \in Blocks \ {0}
  BY <1>2, HintKept DEF TableOK, NodeOK
<1>4. itable[x].size \in {0, 1, DirSlots}
  BY <1>1, HintKept DEF InodeType
<1> DEFINE a == [area EXCEPT ![itable[x].blk] = ZeroBlock]
           e == LookupSlot(p, n)
<1>5. \/ /\ itable[x].size = 0
         /\ sb' = inc_free_inodes(sb) /\ dbmap' = dbmap
         /\ area' = DeleteSlot(area, p, e)
      \/ /\ itable[x].size > 0
         /\ sb' = inc_free_inodes(inc_free_blocks(sb)) /\ dbmap' = dbmap \ {itable[x].blk}
         /\ area' = DeleteSlot(a, p, e)
  BY <1>1, <1>4, Sizes DEF Unlink
<1>6. sb'.ino = sb.ino
  BY <1>5, HintKept, HintOf
<1>7. itable' = [itable EXCEPT ![x] = ZeroInode] /\ file_table' = file_table
  BY <1>1 DEF Unlink
<1>8. TableOK(itable')
  BY <1>2, <1>7, TableSet, NewNodes, HintKept
<1>9. HandlesFit'
  <2>1. \A j \in Inos : itable'[j] = itable[j] \/ itable'[j].type = "NONE"
    BY <1>1, <1>7, HintKept DEF ZeroInode
  <2>2. sb.ino \in Int /\ sb.ino <= sb.ino
    BY HintKept
  <2> QED
    BY <1>6, <1>7, <2>1, <2>2, HandlesStay
<1>10. itable[x].size > 0 => a \in AreaType /\ AreaOK(a)
  BY <1>3, HintKept, BlockWritten, BlocksOK, CellTypes
<1>11. AreaOK(area')
  BY <1>1, <1>5, <1>10, HintKept, EntryChanged
<1>12. 0 \in dbmap'
  BY <1>3, <1>5, HintKept
<1> QED
  BY <1>1, <1>8, <1>9, <1>10, <1>11, <1>12 DEF FineNext

\* What a write does to the table is one of the two cases of WriteEffect.
LEMMA WriteFine ==
    ASSUME Fine, NEW f \in Fids, Write(f)
    PROVE  FineNext
<1>1. PICK i : /\ i = file_table[f] /\ i \in Inos /\ i # 0 /\ i < sb.ino
               /\ itable[i].type \in {"NONE", "FILE"}
  BY HintKept DEF Fine, HandlesFit, Write
<1>2. PICK home : /\ home = WriteHome(f) /\ home \in Inos \ {Root}
                  /\ home = 0 => itable[i].type = "NONE"
                  /\ home # 0 => home = i
  BY <1>1, HintKept, Sizes DEF WriteHome, TableOK, Root
<1>3. PICK nd \in InodeType :
         /\ itable' = [itable EXCEPT ![home] = nd]
         /\ nd.type = itable[i].type /\ nd.size = 1
         /\ \/ /\ itable[i].size = 0 /\ NextBlk < NumBlocks
               /\ nd.blk = NextBlk /\ dbmap' = dbmap \cup {NextBlk}
               /\ sb' = dec_free_blocks(sb)
            \/ /\ itable[i].size > 0 /\ nd.blk = itable[i].blk
               /\ sb' = sb /\ dbmap' = dbmap
  BY <1>1, <1>2, WriteEffect DEF Fine
<1>4. itable[i].size > 0 => /\ itable[i].blk \in Blocks \ {0}
                            /\ itable[i].type = "FILE" /\ home = i
  BY <1>1, <1>2, HintKept DEF TableOK, NodeOK, Root, WriteHome
<1>5. NodeOK(home, nd)
  BY <1>1, <1>2, <1>3, <1>4, HintKept DEF NodeOK, WriteHome
<1>6. TableOK(itable')
  BY <1>2, <1>3, <1>5, HintKept, TableSet
<1>7. sb'.ino = sb.ino
  BY <1>3, HintKept, HintOf
<1>8. HandlesFit'
  <2>1. \A j \in Inos : itable'[j] = itable[j] \/ itable'[j].type \in {"NONE", "FILE"}
    BY <1>1, <1>2, <1>3, HintKept
  <2>2. sb.ino \in Int /\ sb.ino <= sb.ino
    BY HintKept
  <2>3. file_table' = file_table
    BY DEF Write
  <2> QED
    BY <1>7, <2>1, <2>2, <2>3, HandlesStay
<1>9. AreaOK(area')
  <2>1. CASE itable[i].size = 0
    <3>1. area' = WriteSlot(area, NextBlk, 0, DataSlot) /\ NextBlk \in Blocks \ {0}
      BY <1>1, <1>3, <2>1, HintKept DEF Write
    <3> QED
      BY <3>1, HintKept, SlotWritten, BlocksOK, Sizes
  <2>2. CASE itable[i].size > 0
    <3>1. area' = [area EXCEPT ![itable[i].blk] = [ZeroBlock EXCEPT ![0] = DataSlot]]
      BY <1>1, <2>2 DEF Write
    <3> QED
      BY <1>4, <2>2, <3>1, HintKept, BlockWritten, BlocksOK, CellTypes
  <2> QED
    BY <1>3, <2>1, <2>2
<1>10. 0 \in dbmap'
  BY <1>3, HintKept
<1> QED
  BY <1>6, <1>8, <1>9, <1>10 DEF FineNext

LEMMA OpenFine ==
    ASSUME Fine, NEW p \in Dirs, NEW n \in Names, Open(p, n)
    PROVE  FineNext
<1>1. PICK i : /\ i = Child(p, n) /\ i \in Inos /\ itable[i].type = "FILE"
               /\ file_table' = OpenFid(i) /\ UNCHANGED <<mem, area>>
  BY DEF Open, Files
<1>2. \A f \in Fids : file_table'[f] \in {file_table[f], i}
  BY <1>1, HintKept DEF OpenFid
<1>3. i < sb.ino
  BY <1>1, HintKept
<1> QED
  BY <1>1, <1>2, <1>3, HintKept DEF FineNext, HandlesFit, Fine, mem

\* rename, within a directory or between two.
LEMMA RenameFine ==
    ASSUME Fine, NEW p \in Dirs, NEW n \in Names,
           \/ \E m \in Names : RenameInPlace(p, n, m)
           \/ Found(p, n) /\ \E t \in Dirs : MoveEntry(p, n, t)
    PROVE  FineNext
<1>1. Found(p, n) /\ UNCHANGED <<mem, file_table>>
  BY DEF RenameInPlace, MoveEntry
<1>2. ASSUME NEW m \in Names, RenameInPlace(p, n, m) PROVE AreaOK(area')
  <2>1. PICK c : c = Slot(p, LookupSlot(p, n)) /\ c \in Cell /\ c.ino > Root
    BY <1>1, LookupCell DEF Plain
  <2>2. [c EXCEPT !.name = m] \in Cell /\ [c EXCEPT !.name = m].name = m
        /\ [c EXCEPT !.name = m].ino = c.ino
    BY <2>1, CellTypes DEF Cell
  <2>3. Plain([c EXCEPT !.name = m])
    BY <2>1, <2>2, ClientNames DEF Plain
  <2> QED
    BY <1>1, <1>2, <2>1, <2>3, HintKept, EntryChanged DEF RenameInPlace
<1>3. ASSUME NEW t \in Dirs, MoveEntry(p, n, t) PROVE AreaOK(area')
  <2>1. PICK a : /\ a \in AreaType /\ AreaOK(a)
                 /\ area' = DeleteSlot(a, p, LookupSlot(p, n))
    BY <1>1, <1>3, LookupCell, EntryWritten, HintKept DEF MoveEntry
  <2> QED
    BY <1>1, <2>1, EntryChanged
<1>4. HandlesFit'
  BY <1>1 DEF Fine, HandlesFit, mem
<1> QED
  BY <1>1, <1>2, <1>3, <1>4, HintKept DEF FineNext, mem

LEMMA StillFine ==
    ASSUME Fine, StillStep \/ MkdirNoBlock \/ \E f \in Fids : Release(f)
    PROVE  FineNext
<1>1. UNCHANGED <<itable, area>> /\ dbmap' = dbmap
  BY HintKept DEF StillStep, NoInode, vars, mem, WriteNoBlock, MkdirNoBlock, Release
<1>2. CASE StillStep
  <2>1. UNCHANGED <<sb, file_table>>
    BY <1>2 DEF StillStep, NoInode, vars, mem, WriteNoBlock
  <2> QED
    BY <1>1, <2>1, HintKept DEF FineNext, Fine, HandlesFit
<1>3. CASE MkdirNoBlock
  <2>1. PICK i : i = NextIno /\ i = sb.ino /\ sb' = take_ino(sb, i)
    BY <1>3, HintKept DEF MkdirNoBlock
  <2>2. take_ino(sb, i).ino = i + 1 /\ sb.ino \in Int
    <3>1. "ino" \in DOMAIN sb /\ sb.ino \in Int
      BY HintKept
    <3>2. take_ino(sb, i).ino = i + 1
      BY <3>1, HintOf
    <3> QED
      BY <3>1, <3>2
  <2>3. file_table' = file_table
    BY <1>3 DEF MkdirNoBlock
  <2>4. HandlesFit'
    BY <1>1, <2>1, <2>2, <2>3, HandlesStay
  <2> QED
    BY <1>1, <2>4, HintKept DEF FineNext
<1>4. ASSUME NEW f \in Fids, Release(f) PROVE FineNext
  <2>1. UNCHANGED sb /\ file_table' = [file_table EXCEPT ![f] = 0]
    BY <1>4 DEF Release, mem
  <2>2. \A g \in Fids : file_table'[g] \in {file_table[g], 0}
    BY <2>1, HintKept
  <2>3. itable[0].type = "NONE" /\ 0 < sb.ino
    BY HintKept, Sizes DEF TableOK, NumReserved
  <2> QED
    BY <1>1, <2>1, <2>2, <2>3, HintKept DEF FineNext, Fine, HandlesFit
<1> QED
  BY <1>2, <1>3, <1>4

\* Nothing is open after a mount.
LEMMA MountedFine ==
    ASSUME Hinted', Fit(disk, area)', itable' = disk'.itable, dbmap' = disk'.dbmap,
           file_table' = [f \in Fids |-> 0]
    PROVE  FineNext
<1>1. 0 < sb'.ino
  BY Bounds DEF Hinted, Above
<1>2. itable'[0].type = "NONE"
  BY DEF Fit, TableOK
<1> QED
  BY <1>1, <1>2 DEF FineNext, HandlesFit, Fit

LEMMA FineStep == ASSUME Fine, Hinted', [Next]_vars PROVE Fine'
<1>1. Types' /\ Stored'
  BY TypesStep, StoredStep DEF Fine
<1>2. FineNext
  <2>1. CASE MkdirStep \/ CreateStep \/ RmdirStep \/ UnlinkStep \/ OpenStep
    BY <2>1, MkdirFine, CreateFine, RmdirFine, UnlinkFine, OpenFine
       DEF MkdirStep, CreateStep, RmdirStep, UnlinkStep, OpenStep
  <2>2. CASE InPlaceStep \/ MoveStep
    BY <2>2, RenameFine DEF InPlaceStep, MoveStep
  <2>3. CASE HandleStep \/ StillStep \/ MkdirNoBlock
    BY <2>3, StillFine, WriteFine DEF HandleStep
  <2>4. CASE Restart
    <3>1. UNCHANGED <<disk, area>> /\ Fit(disk, area)
      BY <2>4 DEF Restart, Fine
    <3> QED
      BY <2>4, <3>1, MountedFine DEF Restart
  <2> QED
    BY <2>1, <2>2, <2>3, <2>4, StepCases
<1>3. Fit(disk, area)'
  BY <1>1, <1>2 DEF FineNext, Fit, Stored, Types, TypeOK, DiskType, AreaType
<1> QED
  BY <1>1, <1>2, <1>3 DEF Fine, FineNext

-----------------------------------------------------------------------------
(* What is there after a cut.                                              *)

LEMMA TornIs ==
    ASSUME disk \in DiskType, disk' \in DiskType, NEW order, NEW image \in Torn(order)
    PROVE  /\ image.area = area'
           /\ image.disk \in DiskType
           /\ \E k \in 0..(Len(order) - 1) : \A c \in {"sb", "ibmap", "dbmap", "itable"} :
                 image.disk[c] = IF \E j \in 1..k : order[j] = c THEN disk'[c] ELSE disk[c]
<1>1. PICK k \in 0..(Len(order) - 1) :
         image = [disk |-> [c \in DOMAIN disk |->
                     IF \E j \in 1..k : order[j] = c THEN disk'[c] ELSE disk[c]],
                  area |-> area']
  BY DEF Torn
<1>2. DOMAIN disk = {"sb", "ibmap", "dbmap", "itable"}
  BY DEF DiskType
<1>3. /\ image.area = area'
      /\ image.disk = [c \in {"sb", "ibmap", "dbmap", "itable"} |->
                          IF \E j \in 1..k : order[j] = c THEN disk'[c] ELSE disk[c]]
  BY <1>1, <1>2
<1>4. /\ image.disk.sb \in {disk.sb, disk'.sb}
      /\ image.disk.ibmap \in {disk.ibmap, disk'.ibmap}
      /\ image.disk.dbmap \in {disk.dbmap, disk'.dbmap}
      /\ image.disk.itable \in {disk.itable, disk'.itable}
  BY <1>3
<1>5. image.disk = [sb |-> image.disk.sb, ibmap |-> image.disk.ibmap,
                    dbmap |-> image.disk.dbmap, itable |-> image.disk.itable]
  BY <1>3
<1>6. /\ disk.sb \in SbType /\ disk.ibmap \in SUBSET Inos
      /\ disk.dbmap \in SUBSET Blocks /\ disk.itable \in [Inos -> InodeType]
      /\ disk'.sb \in SbType /\ disk'.ibmap \in SUBSET Inos
      /\ disk'.dbmap \in SUBSET Blocks /\ disk'.itable \in [Inos -> InodeType]
  BY DEF DiskType
<1>7. image.disk \in DiskType
  BY <1>4, <1>5, <1>6 DEF DiskType
<1> QED
  BY <1>3, <1>7

(***************************************************************************)
(* The inode table is the last of the clusters of mkdir, rmdir, unlink and *)
(* create, the block bitmap is the last of those of a write.               *)
(***************************************************************************)
LEMMA Prefixes ==
    ASSUME disk \in DiskType, disk' \in DiskType
    PROVE  /\ \A image \in Torn(FlushOrder) :
                 /\ image.disk.itable = disk.itable
                 /\ image.disk.dbmap \in {disk.dbmap, disk'.dbmap}
           /\ \A image \in Torn(CreateOrder) :
                 image.disk.itable = disk.itable /\ image.disk.dbmap = disk.dbmap
           /\ \A image \in Torn(WriteOrder) :
                 /\ image.disk.itable \in {disk.itable, disk'.itable}
                 /\ image.disk.dbmap = disk.dbmap
<1>1. ASSUME NEW image \in Torn(FlushOrder)
      PROVE  /\ image.disk.itable = disk.itable
             /\ image.disk.dbmap \in {disk.dbmap, disk'.dbmap}
  <2>1. FlushOrder = <<"sb", "ibmap", "dbmap", "itable">>
    BY DEF FlushOrder
  <2>2. PICK k \in 0..(Len(FlushOrder) - 1) : \A c \in {"sb", "ibmap", "dbmap", "itable"} :
           image.disk[c] = IF \E j \in 1..k : FlushOrder[j] = c THEN disk'[c] ELSE disk[c]
    BY TornIs
  <2>3. ~ \E j \in 1..k : FlushOrder[j] = "itable"
    BY <2>1
  <2> QED
    BY <2>2, <2>3
<1>2. ASSUME NEW image \in Torn(CreateOrder)
      PROVE  image.disk.itable = disk.itable /\ image.disk.dbmap = disk.dbmap
  <2>1. CreateOrder = <<"sb", "ibmap", "itable">>
    BY DEF CreateOrder
  <2>2. PICK k \in 0..(Len(CreateOrder) - 1) : \A c \in {"sb", "ibmap", "dbmap", "itable"} :
           image.disk[c] = IF \E j \in 1..k : CreateOrder[j] = c THEN disk'[c] ELSE disk[c]
    BY TornIs
  <2>3. ~ \E j \in 1..k : CreateOrder[j] = "itable" \/ CreateOrder[j] = "dbmap"
    BY <2>1
  <2> QED
    BY <2>2, <2>3
<1>3. ASSUME NEW image \in Torn(WriteOrder)
      PROVE  /\ image.disk.itable \in {disk.itable, disk'.itable}
             /\ image.disk.dbmap = disk.dbmap
  <2>1. WriteOrder = <<"sb", "itable", "dbmap">>
    BY DEF WriteOrder
  <2>2. PICK k \in 0..(Len(WriteOrder) - 1) : \A c \in {"sb", "ibmap", "dbmap", "itable"} :
           image.disk[c] = IF \E j \in 1..k : WriteOrder[j] = c THEN disk'[c] ELSE disk[c]
    BY TornIs
  <2>3. ~ \E j \in 1..k : WriteOrder[j] = "dbmap"
    BY <2>1
  <2> QED
    BY <2>2, <2>3
<1> QED
  BY <1>1, <1>2, <1>3

LEMMA TornFit ==
    ASSUME Fine, Fine', NEW image,
           image \in Torn(FlushOrder) \cup Torn(CreateOrder) \cup Torn(WriteOrder)
    PROVE  Fit(image.disk, image.area)
<1>1. /\ disk \in DiskType /\ TableOK(disk.itable) /\ 0 \in disk.dbmap
      /\ disk' \in DiskType /\ TableOK(disk'.itable) /\ 0 \in disk'.dbmap
      /\ area' \in AreaType /\ AreaOK(area')
  BY DEF Fine, Fit
<1>2. /\ image.area = area' /\ image.disk \in DiskType
      /\ image.disk.itable \in {disk.itable, disk'.itable}
      /\ image.disk.dbmap \in {disk.dbmap, disk'.dbmap}
  BY <1>1, TornIs, Prefixes
<1> QED
  BY <1>1, <1>2 DEF Fit

LEMMA HalfFit ==
    ASSUME Fine, NEW a \in AreaType, AreaOK(a), NEW image \in Half(a)
    PROVE  Fit(image.disk, image.area)
<1>1. image.disk = disk /\ image.area = a
  BY DEF Half
<1> QED
  BY <1>1 DEF Fine, Fit

\* Every step but the mount after a cut is a step of the file system.
LEMMA CutSteps ==
    ASSUME CrashNext
    PROVE  Remount \/ (cut = << >> /\ Next)
<1>1. ASSUME NEW p \in NamedDirs, NEW n \in Names, InDirectory(p, n) PROVE Next
  BY <1>1 DEF InDirectory, Next, Mkdir, Create
<1>2. ASSUME NEW p \in NamedDirs, NEW n \in Names, NEW t \in NamedDirs, NEW m \in Names,
             BetweenDirectories(p, n, t, m)
      PROVE  Next
  BY <1>2 DEF BetweenDirectories, Next
<1>3. ASSUME NEW f \in Fids, OnHandle(f) PROVE Next
  BY <1>3 DEF OnHandle, Next
<1>4. Restart => Next
  BY DEF Next
<1> QED
  BY <1>1, <1>2, <1>3, <1>4 DEF CrashNext

-----------------------------------------------------------------------------
(* The calls that can be cut.                                              *)

MkdirCut == \E p \in NamedDirs, n \in Names :
               ~Found(p, n) /\ MkdirDone(p, n) /\ Dies(MkdirCuts(p, n))
RmdirCut == \E p \in NamedDirs, n \in Names :
               Rmdir(p, n) /\ Dies(RemoveCuts(Child(p, n)))
UnlinkCut == \E p \in NamedDirs, n \in Names :
               Unlink(p, n) /\ Dies(RemoveCuts(Child(p, n)))
CreateCut == \E p \in NamedDirs, n \in Names :
               ~Found(p, n) /\ CreateDone(p, n) /\ Dies(Torn(CreateOrder))
WriteCut == \E f \in Fids : Write(f) /\ Dies(Torn(WriteOrder))

\* The directory t that an entry goes to is named, as the one it leaves is.
MoveCut == \E p, t \in NamedDirs, n \in Names :
              /\ Found(p, n) /\ Valid(p, n) /\ OneNameEach
              /\ MoveEntry(p, n, t) /\ Dies(MoveCuts(p, n, t))

-----------------------------------------------------------------------------
(* Who names whom.                                                         *)

\* Slot s of directory d names i, in the table it and the area a.
Calls(it, a, d, s, i) ==
    /\ d \in Inos /\ s \in Slots /\ it[d].type = "DIR"
    /\ a[it[d].blk][s].flag = "USED"
    /\ a[it[d].blk][s].name \in Names
    /\ a[it[d].blk][s].ino = i

LEMMA NamesAre ==
    ASSUME NEW it, NEW a, NEW i
    PROVE  /\ NamesOf(it, a, i) \subseteq Inos \X Slots
           /\ \A d, s : <<d, s>> \in NamesOf(it, a, i) <=> Calls(it, a, d, s, i)
           /\ NamesOf(it, a, i) # {} <=> \E d, s : Calls(it, a, d, s, i)
<1>1. NamesOf(it, a, i) \subseteq Inos \X Slots
  BY DEF NamesOf
<1>2. \A d, s : <<d, s>> \in NamesOf(it, a, i) <=> Calls(it, a, d, s, i)
  BY DEF NamesOf, Calls
<1>3. ASSUME NamesOf(it, a, i) # {} PROVE \E d, s : Calls(it, a, d, s, i)
  <2>1. PICK d \in Inos, s \in Slots : <<d, s>> \in NamesOf(it, a, i)
    BY <1>1, <1>3
  <2> QED
    BY <1>2, <2>1
<1>4. (\E d, s : Calls(it, a, d, s, i)) => NamesOf(it, a, i) # {}
  BY <1>2
<1> QED
  BY <1>1, <1>2, <1>3, <1>4

LEMMA NamedAre ==
    ASSUME NEW d, NEW a, NEW i
    PROVE  i \in NamedIn(d, a) <=> /\ i \in Inos /\ d.itable[i].type # "NONE"
                                   /\ \E k, s : Calls(d.itable, a, k, s, i)
  BY NamesAre DEF NamedIn

LEMMA FiniteNames == IsFiniteSet(Inos) /\ IsFiniteSet(Slots) /\ IsFiniteSet(Inos \X Slots)
                     /\ IsFiniteSet(Inos \X Inos)
<1>1. 0 \in Int /\ NumInodes - 1 \in Int /\ DirSlots - 1 \in Int
  BY Sizes
<1>2. IsFiniteSet(Inos) /\ IsFiniteSet(Slots)
  BY <1>1, FS_Interval DEF Inos, Slots
<1> QED
  BY <1>2, FS_Product

\* With one name each, two entries for one inode are the same entry.
LEMMA OneName ==
    ASSUME OneNameEach, NEW i \in Inos, NEW d, NEW s, NEW k, NEW t,
           Calls(itable, area, d, s, i), Calls(itable, area, k, t, i)
    PROVE  d = k /\ s = t
<1>1. PICK S : S = NamesOf(itable, area, i) /\ Cardinality(S) <= 1
  BY DEF OneNameEach
<1>2. <<d, s>> \in S /\ <<k, t>> \in S /\ IsFiniteSet(S)
  BY <1>1, NamesAre, FiniteNames, FS_Subset
<1>3. /\ IsFiniteSet(S \ {<<d, s>>})
      /\ Cardinality(S \ {<<d, s>>}) = Cardinality(S) - 1
  BY <1>2, FS_RemoveElement
<1>4. Cardinality(S \ {<<d, s>>}) = 0
  BY <1>1, <1>2, <1>3, FS_CardinalityType
<1>5. S \ {<<d, s>>} = {}
  BY <1>3, <1>4, FS_EmptySet
<1>6. <<k, t>> = <<d, s>>
  BY <1>2, <1>5
<1> QED
  BY <1>6

(***************************************************************************)
(* A directory of as many slots as the table has inodes is never full: two *)
(* of them are for "." and "..", three numbers are reserved.               *)
(***************************************************************************)
LEMMA NeverFull ==
    ASSUME Fine, OneNameEach, NEW d \in Dirs
    PROVE  FreeSlot(d) < NumInodes
<1> SUFFICES ASSUME ~(FreeSlot(d) < NumInodes) PROVE FALSE
  OBVIOUS
<1>1. FreeSlot(d) = DirSlots /\ DirSlots = NumInodes
  BY FreeSlotFinds, Sizes
<1> DEFINE R == 2..(NumInodes - 1)
           S == 3..(NumInodes - 1)
           g == [s \in R |-> Slot(d, s).ino]
<1>2. ASSUME NEW s \in R
      PROVE  g[s] \in S /\ g[s] \in Inos /\ Calls(itable, area, d, s, g[s])
  <2>1. s \in Slots /\ s \in BlockSlots /\ s # 0 /\ s # 1
    BY <1>1 DEF Slots, BlockSlots
  <2>2. Slot(d, s).flag = "USED" /\ CellOK(s, Slot(d, s)) /\ Slot(d, s) \in Cell
    BY <1>1, <2>1, FreeSlotFinds, DirBlk, SlotType DEF Fine
  <2>3. Slot(d, s).name \in Names /\ Slot(d, s).ino > 2 /\ Slot(d, s).ino \in Inos
    BY <2>1, <2>2 DEF CellOK, Cell, Root
  <2> QED
    BY <2>1, <2>2, <2>3 DEF Calls, Slot, Dirs, Inos
<1>3. g \in Injection(R, S)
  <2>1. g \in [R -> S]
    BY <1>2
  <2>2. ASSUME NEW s \in R, NEW t \in R, g[s] = g[t] PROVE s = t
    BY <1>2, <2>2, OneName
  <2> HIDE DEF g
  <2> QED
    BY <2>1, <2>2 DEF Injection, IsInjective
<1>4. IsFiniteSet(S) /\ Cardinality(S) = (NumInodes - 1) - 3 + 1
  <2>1. 3 \in Int /\ NumInodes - 1 \in Int /\ ~(3 > NumInodes - 1)
    BY Bounds
  <2> QED
    BY <2>1, FS_Interval
<1>5. Cardinality(R) = (NumInodes - 1) - 2 + 1
  <2>1. 2 \in Int /\ NumInodes - 1 \in Int /\ ~(2 > NumInodes - 1)
    BY Bounds
  <2> QED
    BY <2>1, FS_Interval
<1>6. Cardinality(R) <= Cardinality(S)
  <2> HIDE DEF g, R, S
  <2> QED
    BY <1>3, <1>4, FS_Injection
<1> QED
  BY <1>4, <1>5, <1>6, Bounds

(***************************************************************************)
(* The directory a path leads to is the root or has a name, and a          *)
(* directory found in it is such a one too.                                *)
(***************************************************************************)
LEMMA LookupCalls ==
    ASSUME Fine, NEW p \in Dirs, NEW n \in Names, Found(p, n)
    PROVE  Calls(itable, area, p, LookupSlot(p, n), Child(p, n))
<1>1. p \in Inos /\ itable[p].type = "DIR"
  BY DEF Dirs
<1>2. PICK s : s = LookupSlot(p, n)
  OBVIOUS
<1>3. /\ s \in Slots /\ Slot(p, s).flag = "USED"
      /\ Slot(p, s).name = n /\ Slot(p, s).ino = Child(p, n)
  BY <1>2, LookupCell
<1> QED
  BY <1>1, <1>2, <1>3 DEF Calls, Slot

LEMMA NamedPaths ==
    ASSUME Fine
    PROVE  /\ NamedDirs \subseteq Dirs
           /\ \A t \in NamedDirs, m \in Names :
                 Found(t, m) /\ Child(t, m) \in Dirs => Child(t, m) \in NamedDirs
           /\ \A d \in NamedDirs : d = Root \/ d \in NamedIn(disk, area)
<1>1. PICK W : W = {<<p[1], Child(p[1], p[2])>> :
                       p \in {q \in Dirs \X Names : Found(q[1], q[2])}}
  OBVIOUS
<1>2. ASSUME NEW e \in W
      PROVE  \E p \in Dirs, n \in Names : Found(p, n) /\ e = <<p, Child(p, n)>>
  BY <1>1
<1>3. W \subseteq Inos \X Inos
  <2> SUFFICES ASSUME NEW e \in W PROVE e \in Inos \X Inos
    OBVIOUS
  <2>1. PICK p \in Dirs, n \in Names : Found(p, n) /\ e = <<p, Child(p, n)>>
    BY <1>2
  <2>2. p \in Inos /\ Child(p, n) \in Inos
    BY <2>1, DirBlk, LookupCell
  <2> QED
    BY <2>1, <2>2
<1>4. IsFiniteSet(W)
  BY <1>3, FiniteNames, FS_Subset
<1>5. PICK C : C = Walk({Root}) /\ C = Closure({Root}, W)
  BY <1>1 DEF Walk
<1>6. /\ {Root} \subseteq C /\ ClosedUnder(C, W)
      /\ \A X : {Root} \subseteq X /\ ClosedUnder(X, W) => C \subseteq X
  BY <1>4, <1>5, ClosureLeast
<1>7. NamedDirs = C \cap Dirs
  BY <1>5 DEF NamedDirs
<1>8. ASSUME NEW t \in NamedDirs, NEW m \in Names, Found(t, m), Child(t, m) \in Dirs
      PROVE  Child(t, m) \in NamedDirs
  <2>1. <<t, Child(t, m)>> \in W
    <3>1. t \in Dirs
      BY <1>7
    <3>2. PICK q : q = <<t, m>>
      OBVIOUS
    <3>3. q \in Dirs \X Names /\ q[1] = t /\ q[2] = m
      BY <3>1, <3>2
    <3> QED
      BY <1>1, <1>8, <3>3
  <2>2. Child(t, m) \in C
    BY <1>6, <1>7, <2>1 DEF ClosedUnder
  <2> QED
    BY <1>7, <1>8, <2>2
<1>9. ASSUME NEW d \in NamedDirs PROVE d = Root \/ d \in NamedIn(disk, area)
  <2> DEFINE X == {Root} \cup {i \in Inos : \E k, s : Calls(itable, area, k, s, i)}
  <2>1. ClosedUnder(X, W)
    <3>1. ASSUME NEW e \in W PROVE e[2] \in X
      <4>1. PICK p \in Dirs, n \in Names : Found(p, n) /\ e = <<p, Child(p, n)>>
        BY <1>2
      <4>2. /\ Child(p, n) \in Inos
            /\ Calls(itable, area, p, LookupSlot(p, n), Child(p, n))
        BY <4>1, LookupCell, LookupCalls
      <4>3. e[2] = Child(p, n)
        BY <4>1
      <4> QED
        BY <4>2, <4>3
    <3> QED
      BY <3>1 DEF ClosedUnder
  <2>2. {Root} \subseteq X
    OBVIOUS
  <2>3. C \subseteq X
    <3> HIDE DEF X
    <3> QED
      BY <1>6, <2>1, <2>2
  <2>4. d \in X /\ d \in Dirs
    BY <1>7, <2>3
  <2>5. disk.itable = itable
    BY HintKept
  <2> QED
    BY <2>4, <2>5, NamedAre DEF Dirs
<1> QED
  BY <1>7, <1>8, <1>9

-----------------------------------------------------------------------------
(* What the calls that are cut change.                                     *)

LEMMA CutCases ==
    ASSUME Fine, CrashNext, IsCut
    PROVE  MkdirCut \/ RmdirCut \/ UnlinkCut \/ CreateCut \/ WriteCut \/ MoveCut
<1>1. ~Ends /\ ~Remount
  BY DEF Ends, Remount, IsCut
<1>2. ASSUME NEW p \in NamedDirs, NEW n \in Names, InDirectory(p, n)
      PROVE  MkdirCut \/ RmdirCut \/ UnlinkCut \/ CreateCut
  BY <1>1, <1>2 DEF InDirectory, MkdirCut, RmdirCut, UnlinkCut, CreateCut
<1>3. ASSUME NEW p \in NamedDirs, NEW n \in Names, NEW t \in NamedDirs, NEW m \in Names,
             BetweenDirectories(p, n, t, m)
      PROVE  MoveCut
  <2>1. Valid(p, n) /\ OneNameEach
    BY <1>3 DEF BetweenDirectories
  <2>2. CASE RenameAcross(p, n, t, m) /\ Dies(MoveCuts(p, n, t))
    BY <2>1, <2>2 DEF RenameAcross, MoveCut
  <2>3. CASE RenameInto(p, n, t, m) /\ Dies(MoveCuts(p, n, Child(t, m)))
    <3>1. Child(t, m) \in NamedDirs
      BY <2>3, NamedPaths DEF RenameInto
    <3>2. Found(p, n) /\ MoveEntry(p, n, Child(t, m))
      BY <2>3 DEF RenameInto
    <3> QED
      BY <2>1, <2>3, <3>1, <3>2 DEF MoveCut
  <2> QED
    BY <1>1, <1>3, <2>2, <2>3 DEF BetweenDirectories
<1>4. ASSUME NEW f \in Fids, OnHandle(f) PROVE WriteCut
  BY <1>1, <1>4 DEF OnHandle, WriteCut
<1> QED
  BY <1>1, <1>2, <1>3, <1>4 DEF CrashNext

\* In the table of disk' no inode but i has another type, size or block.
OnlyNode(i) == \A j \in Inos : j # i => /\ disk'.itable[j].type = disk.itable[j].type
                                        /\ disk'.itable[j].size = disk.itable[j].size
                                        /\ disk'.itable[j].blk = disk.itable[j].blk

LEMMA MadeNode ==
    ASSUME Fine, Fine', NEW p \in Dirs, NEW n \in Names, MkdirDone(p, n) \/ CreateDone(p, n)
    PROVE  /\ NextIno \in Inos /\ disk.itable[NextIno].type = "NONE"
           /\ OnlyNode(NextIno)
           /\ MkdirDone(p, n) => /\ disk'.itable[NextIno].type = "DIR"
                                 /\ disk'.itable[NextIno].blk = NextBlk
                                 /\ NextBlk \in Blocks \ {0} /\ NextBlk \notin disk.dbmap
           /\ CreateDone(p, n) => disk'.itable[NextIno].type = "FILE"
<1>1. PICK i, b : i = NextIno /\ b = NextBlk
  OBVIOUS
<1>2. disk.itable = itable /\ disk'.itable = itable' /\ itable \in [Inos -> InodeType]
  BY HintKept DEF Fine, Stored
<1>3. i = sb.ino /\ i \in Inos
  <2>1. i < NumInodes
    BY <1>1 DEF MkdirDone, CreateDone
  <2> QED
    BY <1>1, <2>1, HintKept, Sizes DEF Inos, NumReserved
<1>4. itable[i].type = "NONE"
  <2>1. sb.ino \in Int
    BY HintKept
  <2> QED
    BY <1>3, <2>1, HintKept
<1>5. CASE MkdirDone(p, n)
  <2> DEFINE it == [itable EXCEPT ![i] = DirInode(b)]
  <2>1. b \in Blocks \ {0} /\ b \notin dbmap /\ disk.dbmap = dbmap
    BY <1>1, <1>5, HintKept DEF MkdirDone
  <2>2. it \in [Inos -> InodeType] /\ p \in Inos
    BY <1>2, <1>3, <2>1, InodeTypes, DirBlk
  <2>3. itable' = inc_link(it, p)
    BY <1>1, <1>5 DEF MkdirDone
  <2>4. \A j \in Inos : /\ itable'[j].type = it[j].type /\ itable'[j].size = it[j].size
                        /\ itable'[j].blk = it[j].blk
    BY <2>2, <2>3, LinkTypes
  <2>5. it[i].type = "DIR" /\ it[i].blk = b /\ \A j \in Inos : j # i => it[j] = itable[j]
    BY <1>2, <1>3 DEF DirInode
  <2>6. ~CreateDone(p, n)
    <3>1. DirInode(b).type # FileInode.type
      BY DEF DirInode, FileInode
    <3>2. itable'[i].type = "DIR"
      BY <1>3, <2>4, <2>5
    <3>3. CreateDone(p, n) => itable'[i] = FileInode
      BY <1>1, <1>2, <1>3 DEF CreateDone
    <3> QED
      BY <3>1, <3>2, <3>3 DEF DirInode
  <2> QED
    BY <1>1, <1>2, <1>3, <1>4, <2>1, <2>4, <2>5, <2>6 DEF OnlyNode
<1>6. CASE CreateDone(p, n) /\ ~MkdirDone(p, n)
  <2>1. itable' = [itable EXCEPT ![i] = FileInode]
    BY <1>1, <1>6 DEF CreateDone
  <2>2. itable'[i].type = "FILE"
    BY <1>2, <1>3, <2>1 DEF FileInode
  <2> QED
    BY <1>1, <1>2, <1>3, <1>4, <1>6, <2>1, <2>2 DEF OnlyNode
<1> QED
  BY <1>5, <1>6

LEMMA GoneNode ==
    ASSUME Fine, Fine', NEW p \in Dirs, NEW n \in Names, Rmdir(p, n) \/ Unlink(p, n)
    PROVE  /\ Child(p, n) \in Inos /\ Found(p, n)
           /\ disk.itable[Child(p, n)].type # "NONE"
           /\ disk'.itable[Child(p, n)].type = "NONE"
           /\ OnlyNode(Child(p, n))
<1>1. Found(p, n) /\ Child(p, n) \in Dirs \cup Files
  BY DEF Rmdir, Unlink
<1>2. PICK x : x = Child(p, n) /\ x \in Inos
  BY <1>1 DEF Dirs, Files
<1>3. disk.itable = itable /\ disk'.itable = itable' /\ itable \in [Inos -> InodeType]
  BY HintKept DEF Fine, Stored
<1>4. itable[x].type # "NONE"
  BY <1>1, <1>2 DEF Dirs, Files
<1> DEFINE it == [itable EXCEPT ![x] = ZeroInode]
<1>5. it \in [Inos -> InodeType] /\ p \in Inos /\ it[x].type = "NONE"
      /\ \A j \in Inos : j # x => it[j] = itable[j]
  BY <1>2, <1>3, InodeTypes, DirBlk DEF ZeroInode
<1>6. itable' = it \/ itable' = dec_link(it, p)
  BY <1>2 DEF Rmdir, Unlink
<1>7. \A j \in Inos : /\ itable'[j].type = it[j].type /\ itable'[j].size = it[j].size
                      /\ itable'[j].blk = it[j].blk
  <2>1. CASE itable' = it
    BY <2>1
  <2>2. CASE itable' = dec_link(it, p)
    BY <1>5, <2>2, LinkTypes
  <2> QED
    BY <1>6, <2>1, <2>2
<1> QED
  BY <1>1, <1>2, <1>3, <1>4, <1>5, <1>7 DEF OnlyNode

(***************************************************************************)
(* A write changes no directory and no type: the inode of a handle is not  *)
(* a directory, and what is written to entry 0 is of type 0.               *)
(***************************************************************************)
LEMMA WroteNode ==
    ASSUME Fine, Fine', NEW f \in Fids, Write(f)
    PROVE  /\ \A j \in Inos : disk'.itable[j].type = disk.itable[j].type
           /\ \A j \in Inos : disk.itable[j].type = "DIR" => disk'.itable[j] = disk.itable[j]
           /\ \/ itable[file_table[f]].size = 0 /\ NextBlk \in Blocks \ disk.dbmap
                 /\ area' = WriteSlot(area, NextBlk, 0, DataSlot)
              \/ /\ itable[file_table[f]].size > 0 /\ file_table[f] \in Held
                 /\ disk'.dbmap = disk.dbmap
                 /\ \A j \in Inos : /\ disk'.itable[j].blk = disk.itable[j].blk
                                    /\ disk'.itable[j].size > 0 => disk.itable[j].size > 0
                 /\ area' = [area EXCEPT ![itable[file_table[f]].blk] =
                                [ZeroBlock EXCEPT ![0] = DataSlot]]
<1>1. PICK i : /\ i = file_table[f] /\ i \in Inos /\ i # 0
               /\ itable[i].type \in {"NONE", "FILE"}
  BY HintKept DEF Fine, HandlesFit, Write
<1>2. PICK home : /\ home = WriteHome(f) /\ home \in Inos
                  /\ home = 0 => itable[i].type = "NONE"
                  /\ home # 0 => home = i
  BY <1>1, HintKept, Sizes DEF WriteHome, TableOK, Root
<1>3. PICK nd \in InodeType :
         /\ itable' = [itable EXCEPT ![home] = nd]
         /\ nd.type = itable[i].type /\ nd.size = 1
         /\ \/ /\ itable[i].size = 0 /\ NextBlk < NumBlocks
            \/ /\ itable[i].size > 0 /\ nd.blk = itable[i].blk /\ dbmap' = dbmap
  BY <1>1, <1>2, WriteEffect DEF Fine
<1>4. disk.itable = itable /\ disk'.itable = itable' /\ itable \in [Inos -> InodeType]
      /\ disk.dbmap = dbmap /\ disk'.dbmap = dbmap' /\ TableOK(itable)
  BY HintKept DEF Fine, Stored
<1>5. \A j \in Inos : itable'[j] = IF j = home THEN nd ELSE itable[j]
  BY <1>2, <1>3, <1>4
<1>6. itable[home].type = itable[i].type
  BY <1>1, <1>2, <1>4 DEF TableOK
<1>7. /\ \A j \in Inos : itable'[j].type = itable[j].type
      /\ \A j \in Inos : itable[j].type = "DIR" => itable'[j] = itable[j]
  BY <1>1, <1>3, <1>5, <1>6
<1>8. CASE itable[i].size = 0
  <2>1. area' = WriteSlot(area, NextBlk, 0, DataSlot)
    BY <1>1, <1>8 DEF Write
  <2> QED
    BY <1>1, <1>3, <1>4, <1>7, <1>8, <2>1, HintKept
<1>9. CASE itable[i].size > 0
  <2>1. area' = [area EXCEPT ![itable[i].blk] = [ZeroBlock EXCEPT ![0] = DataSlot]]
    BY <1>1, <1>9 DEF Write
  <2>2. itable[i].type = "FILE" /\ home = i
    BY <1>1, <1>2, <1>4, <1>9 DEF TableOK, NodeOK, WriteHome
  <2>3. i \in Held
    BY <1>1, <2>2 DEF Held
  <2> QED
    BY <1>1, <1>3, <1>4, <1>5, <1>7, <1>9, <2>1, <2>2, <2>3
<1> QED
  BY <1>3, <1>8, <1>9

-----------------------------------------------------------------------------
(* What the writes to the area change.                                     *)

LEMMA SlotEffect ==
    ASSUME NEW a \in AreaType, NEW b \in Blocks, NEW s \in BlockSlots, NEW c
    PROVE  \A k \in Blocks, t \in BlockSlots :
              WriteSlot(a, b, s, c)[k][t] = IF k = b /\ t = s THEN c ELSE a[k][t]
<1>1. WriteSlot(a, b, s, c) = [a EXCEPT ![b][s] = c]
  <2>1. s < NumInodes
    BY Sizes DEF BlockSlots
  <2> QED
    BY <2>1 DEF WriteSlot
<1> QED
  BY <1>1 DEF AreaType

LEMMA BlockEffect ==
    ASSUME NEW a \in AreaType, NEW b \in Blocks, NEW c
    PROVE  \A k \in Blocks : [a EXCEPT ![b] = c][k] = IF k = b THEN c ELSE a[k]
  BY DEF AreaType

\* An entry that is there after one was deleted was there before.
LEMMA DeleteEffect ==
    ASSUME Fine, NEW a \in AreaType, NEW p \in Dirs, NEW n \in Names, Found(p, n)
    PROVE  LET new == DeleteSlot(a, p, LookupSlot(p, n))
           IN  \A k \in Blocks, t \in BlockSlots :
                  /\ ~(k = itable[p].blk /\ t = LookupSlot(p, n)) => new[k][t] = a[k][t]
                  /\ new[k][t].flag = "USED" => /\ new[k][t] = a[k][t]
                                                /\ ~(k = itable[p].blk /\ t = LookupSlot(p, n))
<1>1. PICK s, c : s = LookupSlot(p, n) /\ c = [Slot(p, s) EXCEPT !.flag = "DELETED"]
  OBVIOUS
<1>2. s \in BlockSlots /\ c.flag = "DELETED" /\ itable[p].blk \in Blocks
  BY <1>1, LookupCell, DirBlk
<1>3. PICK new : new = DeleteSlot(a, p, s) /\ new = WriteSlot(a, itable[p].blk, s, c)
  BY <1>1 DEF DeleteSlot
<1>4. \A k \in Blocks, t \in BlockSlots :
         new[k][t] = IF k = itable[p].blk /\ t = s THEN c ELSE a[k][t]
  BY <1>2, <1>3, SlotEffect
<1>5. \A k \in Blocks, t \in BlockSlots :
         /\ ~(k = itable[p].blk /\ t = s) => new[k][t] = a[k][t]
         /\ new[k][t].flag = "USED" => /\ new[k][t] = a[k][t]
                                       /\ ~(k = itable[p].blk /\ t = s)
  BY <1>2, <1>4
<1> QED
  BY <1>1, <1>3, <1>5

\* The same table and the same cell name the same inode.
LEMMA CallsSame ==
    ASSUME NEW it, NEW jt, NEW a, NEW o, NEW d, NEW s, NEW i, Calls(it, a, d, s, i),
           jt[d].type = it[d].type, jt[d].blk = it[d].blk,
           o[it[d].blk][s] = a[it[d].blk][s]
    PROVE  Calls(jt, o, d, s, i)
  BY DEF Calls

LEMMA CallPlace ==
    ASSUME NEW it, TableOK(it), NEW a, NEW d, NEW s, NEW i, Calls(it, a, d, s, i)
    PROVE  /\ d \in Inos /\ s \in Slots /\ s \in BlockSlots /\ it[d].blk \in Blocks
           /\ it[d].type = "DIR" /\ it[d].size = DirSlots
           /\ a[it[d].blk][s].flag = "USED" /\ a[it[d].blk][s].name \in Names
           /\ a[it[d].blk][s].ino = i
  BY SlotsInBlock, Sizes DEF Calls, TableOK, NodeOK

-----------------------------------------------------------------------------
(* Names are kept.                                                         *)

\* What has a name before and after has one in the image.
Keeps(image) == NamedIn(disk, area) \cap NamedIn(disk', area')
                    \subseteq NamedIn(image.disk, image.area)

\* It is enough that an entry of the end is one in the image.
LEMMA KeepsIf ==
    ASSUME NEW image, image.disk.itable \in {disk.itable, disk'.itable},
           \A d, s, i : i \in Inos /\ Calls(disk'.itable, area', d, s, i)
                           => Calls(image.disk.itable, image.area, d, s, i)
    PROVE  Keeps(image)
<1> SUFFICES ASSUME NEW i \in NamedIn(disk, area), i \in NamedIn(disk', area')
             PROVE  i \in NamedIn(image.disk, image.area)
  BY DEF Keeps
<1>1. i \in Inos /\ image.disk.itable[i].type # "NONE"
  BY NamedAre
<1>2. PICK d, s : Calls(disk'.itable, area', d, s, i)
  BY NamedAre
<1> QED
  BY <1>1, <1>2, NamedAre

LEMMA MkdirKeeps ==
    ASSUME Fine, Fine', NEW p \in Dirs, NEW n \in Names, MkdirDone(p, n),
           NEW image \in MkdirCuts(p, n)
    PROVE  Keeps(image)
<1>1. PICK a, b, k : /\ a = WriteSlot(area, itable[p].blk, FreeSlot(p), Entry(n, NextIno))
                     /\ b = NextBlk /\ k = NextIno
  OBVIOUS
<1>2. k \in Inos /\ OnlyNode(k) /\ disk'.itable[k].blk = b /\ b \in Blocks
  BY <1>1, MadeNode
<1>3. a \in AreaType
  <2>1. k > Root
    BY <1>1, HintKept, Sizes DEF NumReserved, Root
  <2> QED
    BY <1>1, <1>2, <2>1, EntryPlain, EntryWritten
<1>4. area' = [a EXCEPT ![b] = NewDirBlock(k, p)]
  BY <1>1 DEF MkdirDone
<1>5. ASSUME NEW d, NEW s, NEW i, Calls(disk'.itable, area', d, s, i)
      PROVE  Calls(disk.itable, a, d, s, i) /\ Calls(disk.itable, area', d, s, i)
  <2>1. /\ d \in Inos /\ s \in BlockSlots /\ disk'.itable[d].blk \in Blocks
        /\ area'[disk'.itable[d].blk][s].name \in Names
    BY <1>5, CallPlace DEF Fine, Fit
  <2>2. disk'.itable[d].blk # b
    <3>1. NewDirBlock(k, p)[s].name \notin Names
      BY <2>1, BlocksOK
    <3>2. area'[b] = NewDirBlock(k, p)
      BY <1>2, <1>3, <1>4 DEF AreaType
    <3> QED
      BY <2>1, <3>1, <3>2
  <2>3. d # k
    BY <1>2, <2>2
  <2>4. area'[disk'.itable[d].blk] = a[disk'.itable[d].blk]
    BY <1>2, <1>3, <1>4, <2>1, <2>2, BlockEffect
  <2>5. disk.itable[d].type = disk'.itable[d].type /\ disk.itable[d].blk = disk'.itable[d].blk
    BY <1>2, <2>1, <2>3 DEF OnlyNode
  <2> QED
    BY <1>5, <2>4, <2>5, CallsSame
<1>6. CASE image \in Half(a)
  <2>1. image.disk = disk /\ image.area = a
    BY <1>6 DEF Half
  <2> QED
    BY <1>5, <2>1, KeepsIf
<1>7. CASE image \in Torn(FlushOrder)
  <2>1. image.disk.itable = disk.itable /\ image.area = area'
    BY <1>7, TornIs, Prefixes DEF Fine, Fit
  <2> QED
    BY <1>5, <2>1, KeepsIf
<1> QED
  BY <1>1, <1>6, <1>7 DEF MkdirCuts

LEMMA CreateKeeps ==
    ASSUME Fine, Fine', NEW p \in Dirs, NEW n \in Names, CreateDone(p, n),
           NEW image \in Torn(CreateOrder)
    PROVE  Keeps(image)
<1>1. PICK k : k = NextIno /\ OnlyNode(k) /\ disk'.itable[k].type = "FILE"
  BY MadeNode
<1>2. image.disk.itable = disk.itable /\ image.area = area'
  BY TornIs, Prefixes DEF Fine, Fit
<1>3. ASSUME NEW d, NEW s, NEW i, Calls(disk'.itable, area', d, s, i)
      PROVE  Calls(disk.itable, area', d, s, i)
  <2>1. d \in Inos /\ disk'.itable[d].type = "DIR"
    BY <1>3 DEF Calls
  <2>2. disk.itable[d].type = disk'.itable[d].type /\ disk.itable[d].blk = disk'.itable[d].blk
    BY <1>1, <2>1 DEF OnlyNode
  <2> QED
    BY <1>3, <2>2, CallsSame
<1> QED
  BY <1>2, <1>3, KeepsIf

\* The area that rmdir and unlink delete the entry from.
LEMMA Zeroed ==
    ASSUME Fine, NEW p \in Dirs, NEW n \in Names, Rmdir(p, n) \/ Unlink(p, n)
    PROVE  LET x == Child(p, n)
               z == [area EXCEPT ![itable[x].blk] = ZeroBlock]
           IN  \/ /\ itable[x].size > 0 /\ itable[x].blk \in Blocks
                  /\ z \in AreaType /\ AreaOK(z)
                  /\ area' = DeleteSlot(z, p, LookupSlot(p, n))
                  /\ dbmap' = dbmap \ {itable[x].blk}
               \/ /\ itable[x].size = 0 /\ dbmap' = dbmap
                  /\ area' = DeleteSlot(area, p, LookupSlot(p, n))
<1>1. PICK x : x = Child(p, n) /\ x \in Inos /\ itable[x].size \in {0, 1, DirSlots}
  <2>1. Child(p, n) \in Inos
    BY DEF Rmdir, Unlink, Dirs, Files
  <2> QED
    BY <2>1, HintKept DEF InodeType
<1>2. itable[x].size > 0 => itable[x].blk \in Blocks
  BY <1>1, HintKept DEF TableOK, NodeOK
<1>3. CASE Rmdir(p, n)
  <2>1. itable[x].size > 0
    BY <1>1, <1>3, DirBlk, Sizes DEF Rmdir
  <2> QED
    BY <1>1, <1>2, <1>3, <2>1, RmdirFine DEF Rmdir
<1>4. CASE Unlink(p, n) /\ itable[x].size > 0
  <2>1. /\ area' = DeleteSlot([area EXCEPT ![itable[x].blk] = ZeroBlock], p, LookupSlot(p, n))
        /\ dbmap' = dbmap \ {itable[x].blk}
    BY <1>1, <1>4 DEF Unlink
  <2> QED
    BY <1>1, <1>2, <1>4, <2>1, UnlinkFine
<1>5. CASE Unlink(p, n) /\ itable[x].size = 0
  BY <1>1, <1>5 DEF Unlink
<1> QED
  BY <1>1, <1>3, <1>4, <1>5, Sizes

LEMMA RemoveKeeps ==
    ASSUME Fine, Fine', NEW p \in Dirs, NEW n \in Names, Rmdir(p, n) \/ Unlink(p, n),
           NEW image \in RemoveCuts(Child(p, n))
    PROVE  Keeps(image)
<1>1. PICK x, z : x = Child(p, n) /\ z = [area EXCEPT ![itable[x].blk] = ZeroBlock]
  OBVIOUS
<1>2. x \in Inos /\ Found(p, n) /\ OnlyNode(x) /\ disk'.itable[x].type = "NONE"
  BY <1>1, GoneNode
<1>3. PICK a \in AreaType : /\ area' = DeleteSlot(a, p, LookupSlot(p, n))
                            /\ itable[x].size > 0 => a = z
  <2>1. CASE itable[x].size > 0
    BY <1>1, <2>1, Zeroed
  <2>2. CASE itable[x].size = 0
    <3>1. area' = DeleteSlot(area, p, LookupSlot(p, n))
      BY <1>1, <2>2, Zeroed
    <3>2. area \in AreaType
      BY HintKept
    <3> QED
      BY <2>2, <3>1, <3>2
  <2> QED
    BY <1>1, <2>1, <2>2, Zeroed
<1>4. ASSUME NEW d, NEW s, NEW i, Calls(disk'.itable, area', d, s, i)
      PROVE  Calls(disk.itable, a, d, s, i) /\ Calls(disk.itable, area', d, s, i)
  <2>1. /\ d \in Inos /\ s \in BlockSlots /\ disk'.itable[d].blk \in Blocks
        /\ disk'.itable[d].type = "DIR" /\ area'[disk'.itable[d].blk][s].flag = "USED"
    BY <1>4, CallPlace DEF Fine, Fit
  <2>2. d # x
    BY <1>2, <2>1
  <2>3. area'[disk'.itable[d].blk][s] = a[disk'.itable[d].blk][s]
    BY <1>2, <1>3, <2>1, DeleteEffect
  <2>4. disk.itable[d].type = disk'.itable[d].type /\ disk.itable[d].blk = disk'.itable[d].blk
    BY <1>2, <2>1, <2>2 DEF OnlyNode
  <2> QED
    BY <1>4, <2>3, <2>4, CallsSame
<1>5. CASE itable[x].size > 0 /\ image \in Half(z)
  <2>1. image.disk = disk /\ image.area = a
    BY <1>3, <1>5 DEF Half
  <2> QED
    BY <1>4, <2>1, KeepsIf
<1>6. CASE image \in Torn(FlushOrder)
  <2>1. image.disk.itable = disk.itable /\ image.area = area'
    BY <1>6, TornIs, Prefixes DEF Fine, Fit
  <2> QED
    BY <1>4, <2>1, KeepsIf
<1> QED
  BY <1>1, <1>5, <1>6 DEF RemoveCuts

LEMMA WriteKeeps ==
    ASSUME Fine, Fine', NEW f \in Fids, Write(f), NEW image \in Torn(WriteOrder)
    PROVE  Keeps(image)
<1>1. image.disk.itable \in {disk.itable, disk'.itable} /\ image.area = area'
  BY TornIs, Prefixes DEF Fine, Fit
<1>2. ASSUME NEW d, NEW s, NEW i, Calls(disk'.itable, area', d, s, i)
      PROVE  Calls(disk.itable, area', d, s, i)
  <2>1. d \in Inos /\ disk'.itable[d].type = "DIR"
    BY <1>2 DEF Calls
  <2>2. disk.itable[d] = disk'.itable[d]
    BY <2>1, WroteNode
  <2> QED
    BY <1>2, <2>2, CallsSame
<1> QED
  BY <1>1, <1>2, KeepsIf

\* rename writes the new entry first.
LEMMA Copied ==
    ASSUME Fine, NEW p \in Dirs, NEW t \in Dirs, NEW n \in Names, Found(p, n),
           MoveEntry(p, n, t), NEW image \in MoveCuts(p, n, t)
    PROVE  LET a == WriteSlot(area, itable[t].blk, FreeSlot(t), Slot(p, LookupSlot(p, n)))
           IN  /\ a \in AreaType /\ AreaOK(a) /\ FreeSlot(t) \in Slots
               /\ area' = DeleteSlot(a, p, LookupSlot(p, n))
               /\ image \in Half(a) /\ image.disk = disk /\ image.area = a
<1>1. PICK c, a : /\ c = Slot(p, LookupSlot(p, n)) /\ Plain(c)
                  /\ a = WriteSlot(area, itable[t].blk, FreeSlot(t), c)
  BY LookupCell
<1>2. FreeSlot(t) < DirSlots /\ image \in Half(a)
  BY <1>1 DEF MoveCuts
<1>3. a \in AreaType /\ AreaOK(a)
  BY <1>1, EntryWritten
<1>4. area' = DeleteSlot(a, p, LookupSlot(p, n))
  BY <1>1, <1>2 DEF MoveEntry
<1>5. FreeSlot(t) \in Slots
  BY <1>2, FreeSlotFinds
<1> QED
  BY <1>1, <1>2, <1>3, <1>4, <1>5 DEF Half

LEMMA MoveKeeps ==
    ASSUME Fine, Fine', NEW p \in Dirs, NEW t \in Dirs, NEW n \in Names, Found(p, n),
           MoveEntry(p, n, t), NEW image \in MoveCuts(p, n, t)
    PROVE  Keeps(image)
<1>1. PICK a \in AreaType : /\ area' = DeleteSlot(a, p, LookupSlot(p, n))
                            /\ image.disk = disk /\ image.area = a
  BY Copied
<1>2. disk' = disk
  BY DEF MoveEntry
<1>3. ASSUME NEW d, NEW s, NEW i, Calls(disk'.itable, area', d, s, i)
      PROVE  Calls(disk.itable, a, d, s, i)
  <2>1. /\ s \in BlockSlots /\ disk'.itable[d].blk \in Blocks
        /\ area'[disk'.itable[d].blk][s].flag = "USED"
    BY <1>3, CallPlace DEF Fine, Fit
  <2>2. area'[disk'.itable[d].blk][s] = a[disk'.itable[d].blk][s]
    BY <1>1, <2>1, DeleteEffect
  <2> QED
    BY <1>2, <1>3, <2>2, CallsSame
<1> QED
  BY <1>1, <1>3, KeepsIf

-----------------------------------------------------------------------------
(* On a sound device: the bits and the dots of what has a name.            *)

\* What has a name in the image had one before.
Shrinks(image) == NamedIn(image.disk, image.area) \subseteq NamedIn(disk, area)

HasName(it, a, i) == \E d, s : Calls(it, a, d, s, i)

LEMMA ShrinksIf ==
    ASSUME NEW image,
           \A i \in Inos : image.disk.itable[i].type # "NONE" => disk.itable[i].type # "NONE",
           \A i \in Inos : disk.itable[i].type # "NONE" /\ HasName(image.disk.itable, image.area, i)
                              => HasName(disk.itable, area, i)
    PROVE  Shrinks(image)
<1> SUFFICES ASSUME NEW i \in NamedIn(image.disk, image.area)
             PROVE  i \in NamedIn(disk, area)
  BY DEF Shrinks
<1>1. i \in Inos /\ disk.itable[i].type # "NONE"
  BY NamedAre
<1>2. HasName(image.disk.itable, image.area, i)
  BY NamedAre DEF HasName
<1>3. HasName(disk.itable, area, i)
  BY <1>1, <1>2
<1> QED
  BY <1>1, <1>3, NamedAre DEF HasName

LEMMA MarkedIf ==
    ASSUME NEW image, Shrinks(image), Marked(disk, area),
           image.disk.dbmap = disk.dbmap,
           \A i \in Inos : /\ image.disk.itable[i].blk = disk.itable[i].blk
                           /\ image.disk.itable[i].size > 0 => disk.itable[i].size > 0
    PROVE  Marked(image.disk, image.area)
<1>1. \A i \in NamedIn(image.disk, image.area) : i \in NamedIn(disk, area) /\ i \in Inos
  BY NamedAre DEF Shrinks
<1> QED
  BY <1>1 DEF Marked

LEMMA DotsIf ==
    ASSUME NEW image, Shrinks(image), Dots(disk, area),
           \A i \in NamedIn(disk, area) :
              image.disk.itable[i].type = "DIR" =>
                 /\ disk.itable[i].type = "DIR"
                 /\ image.disk.itable[i].blk = disk.itable[i].blk
                 /\ \A s \in {0, 1} : image.area[disk.itable[i].blk][s]
                                         = area[disk.itable[i].blk][s]
    PROVE  Dots(image.disk, image.area)
<1> SUFFICES ASSUME NEW i \in NamedIn(image.disk, image.area),
                    image.disk.itable[i].type = "DIR"
             PROVE  HasDots(image.disk, image.area, i)
  BY DEF Dots
<1>1. i \in NamedIn(disk, area)
  BY DEF Shrinks
<1>2. HasDots(disk, area, i)
  BY <1>1 DEF Dots
<1> QED
  BY <1>1, <1>2 DEF HasDots

\* A named directory of a device in order: its block is marked and dotted.
LEMMA NamedDir ==
    ASSUME Fine, NEW i \in NamedIn(disk, area), disk.itable[i].type = "DIR"
    PROVE  /\ i \in Dirs /\ i \in Inos /\ disk.itable[i].blk \in Blocks
           /\ itable[i].blk = disk.itable[i].blk /\ itable[i].size > 0
           /\ Marked(disk, area) => disk.itable[i].blk \in disk.dbmap
<1>1. i \in Inos /\ disk.itable = itable
  BY NamedAre, HintKept
<1>2. i \in Dirs
  BY <1>1 DEF Dirs
<1>3. itable[i].size > 0
  BY <1>2, DirBlk, Sizes
<1> QED
  BY <1>1, <1>2, <1>3, DirBlk DEF Marked

LEMMA PathDotted ==
    ASSUME Fine, Dots(disk, area), NEW p \in NamedDirs
    PROVE  Dotted(p)
<1>1. p \in Dirs /\ disk.itable = itable
  BY NamedPaths, HintKept
<1>2. CASE p = Root
  BY <1>1, <1>2, DirBlk, HintKept DEF TableOK
<1>3. CASE p \in NamedIn(disk, area)
  <2>1. disk.itable[p].type = "DIR"
    BY <1>1 DEF Dirs
  <2>2. HasDots(disk, area, p)
    BY <1>3, <2>1 DEF Dots
  <2>3. Entry(".", p).name = "."
    BY DEF Entry
  <2> QED
    BY <1>1, <2>2, <2>3 DEF HasDots, Dotted, Slot
<1> QED
  BY <1>2, <1>3, NamedPaths

(***************************************************************************)
(* An entry c more in directory p.                                         *)
(***************************************************************************)
LEMMA EntryAdded ==
    ASSUME Fine, OneNameEach, NEW p \in Dirs, NEW c
    PROVE  LET a == WriteSlot(area, itable[p].blk, FreeSlot(p), c)
           IN  /\ \A d, s, i : Calls(disk.itable, a, d, s, i)
                                  => Calls(disk.itable, area, d, s, i) \/ i = c.ino
               /\ Dotted(p) => \A b \in Blocks, s \in {0, 1} : a[b][s] = area[b][s]
<1>1. PICK a : a = WriteSlot(area, itable[p].blk, FreeSlot(p), c)
  OBVIOUS
<1>2. FreeSlot(p) \in BlockSlots /\ itable[p].blk \in Blocks
  BY NeverFull, FreeSlotFinds, DirBlk, Sizes DEF BlockSlots
<1>3. \A b \in Blocks, s \in BlockSlots :
         a[b][s] = IF b = itable[p].blk /\ s = FreeSlot(p) THEN c ELSE area[b][s]
  BY <1>1, <1>2, HintKept, SlotEffect
<1>4. ASSUME NEW d, NEW s, NEW i, Calls(disk.itable, a, d, s, i)
      PROVE  Calls(disk.itable, area, d, s, i) \/ i = c.ino
  <2>1. /\ s \in BlockSlots /\ disk.itable[d].blk \in Blocks
        /\ a[disk.itable[d].blk][s].ino = i
    BY <1>4, CallPlace DEF Fine, Fit
  <2>2. a[disk.itable[d].blk][s] = c \/ a[disk.itable[d].blk][s] = area[disk.itable[d].blk][s]
    BY <1>3, <2>1
  <2> QED
    BY <1>4, <2>1, <2>2, CallsSame
<1>5. ASSUME Dotted(p) PROVE \A b \in Blocks, s \in {0, 1} : a[b][s] = area[b][s]
  <2>1. FreeSlot(p) \notin {0, 1}
    BY <1>5, PastDots
  <2> QED
    BY <1>3, <2>1, Sizes
<1> QED
  BY <1>1, <1>4, <1>5

\* What the cut of a call keeps on a sound device.
InOrder(image) == /\ Marked(image.disk, image.area)
                  /\ Dots(disk, area) => Dots(image.disk, image.area)

LEMMA MkdirOrder ==
    ASSUME Fine, Fine', Sound, NEW p \in NamedDirs, NEW n \in Names, MkdirDone(p, n),
           NEW image \in MkdirCuts(p, n)
    PROVE  InOrder(image)
<1>1. PICK a, b, k : /\ a = WriteSlot(area, itable[p].blk, FreeSlot(p), Entry(n, NextIno))
                     /\ b = NextBlk /\ k = NextIno
  OBVIOUS
<1>2. p \in Dirs /\ k \in Inos /\ disk.itable[k].type = "NONE" /\ b \in Blocks
      /\ b \notin disk.dbmap
  BY <1>1, NamedPaths, MadeNode
<1>3. OneNameEach /\ Marked(disk, area)
  BY DEF Sound
<1>4. a \in AreaType
  <2>1. k > Root
    BY <1>1, HintKept, Sizes DEF NumReserved, Root
  <2> QED
    BY <1>1, <1>2, <2>1, EntryPlain, EntryWritten
<1>5. ASSUME NEW d, NEW s, NEW i, Calls(disk.itable, a, d, s, i), i # k
      PROVE  Calls(disk.itable, area, d, s, i)
  <2>1. Entry(n, k).ino = k
    BY DEF Entry
  <2> QED
    BY <1>1, <1>2, <1>3, <1>5, <2>1, EntryAdded
<1>6. Dots(disk, area) => \A l \in Blocks, s \in {0, 1} : a[l][s] = area[l][s]
  <2> SUFFICES ASSUME Dots(disk, area) PROVE \A l \in Blocks, s \in {0, 1} : a[l][s] = area[l][s]
    OBVIOUS
  <2>1. Dotted(p) /\ p \in Dirs
    BY <1>2, PathDotted
  <2> QED
    BY <1>1, <1>3, <2>1, EntryAdded
<1>7. CASE image \in Half(a)
  <2>1. image.disk = disk /\ image.area = a
    BY <1>7 DEF Half
  <2>2. Shrinks(image)
    <3>1. \A d, s, i : disk.itable[i].type # "NONE" /\ Calls(disk.itable, a, d, s, i)
                          => Calls(disk.itable, area, d, s, i)
      BY <1>2, <1>5
    <3>2. \A i \in Inos : image.disk.itable[i].type # "NONE" => disk.itable[i].type # "NONE"
      BY <2>1
    <3>3. ASSUME NEW i \in Inos, disk.itable[i].type # "NONE",
                 HasName(image.disk.itable, image.area, i)
          PROVE  HasName(disk.itable, area, i)
      BY <2>1, <3>1, <3>3 DEF HasName
    <3> QED
      BY <3>2, <3>3, ShrinksIf
  <2>3. Marked(image.disk, image.area)
    BY <1>3, <2>1, <2>2, MarkedIf
  <2>4. Dots(disk, area) => Dots(image.disk, image.area)
    BY <1>6, <2>1, <2>2, NamedDir, DotsIf
  <2> QED
    BY <2>3, <2>4 DEF InOrder
<1>8. CASE image \in Torn(FlushOrder)
  <2>1. /\ image.disk.itable = disk.itable /\ image.area = area'
        /\ image.disk.dbmap \in {disk.dbmap, disk'.dbmap}
    BY <1>8, TornIs, Prefixes DEF Fine, Fit
  <2>2. area' = [a EXCEPT ![b] = NewDirBlock(k, p)]
    BY <1>1 DEF MkdirDone
  <2>3. \A l \in Blocks : area'[l] = IF l = b THEN NewDirBlock(k, p) ELSE a[l]
    BY <1>2, <1>4, <2>2, BlockEffect
  <2>4. ASSUME NEW d, NEW s, NEW i, Calls(disk.itable, area', d, s, i), i # k
        PROVE  Calls(disk.itable, area, d, s, i)
    <3>1. /\ s \in BlockSlots /\ disk.itable[d].blk \in Blocks
          /\ area'[disk.itable[d].blk][s].name \in Names
      BY <2>4, CallPlace DEF Fine, Fit
    <3>2. disk.itable[d].blk # b
      BY <2>3, <3>1, BlocksOK
    <3>3. area'[disk.itable[d].blk][s] = a[disk.itable[d].blk][s]
      BY <2>3, <3>1, <3>2
    <3>4. Calls(disk.itable, a, d, s, i)
      BY <2>4, <3>3, CallsSame
    <3> QED
      BY <1>5, <2>4, <3>4
  <2>5. Shrinks(image)
    <3>1. \A d, s, i : disk.itable[i].type # "NONE" /\ Calls(disk.itable, area', d, s, i)
                          => Calls(disk.itable, area, d, s, i)
      BY <1>2, <2>4
    <3>2. \A i \in Inos : image.disk.itable[i].type # "NONE" => disk.itable[i].type # "NONE"
      BY <2>1
    <3>3. ASSUME NEW i \in Inos, disk.itable[i].type # "NONE",
                 HasName(image.disk.itable, image.area, i)
          PROVE  HasName(disk.itable, area, i)
      BY <2>1, <3>1, <3>3 DEF HasName
    <3> QED
      BY <3>2, <3>3, ShrinksIf
  <2>6. Marked(image.disk, image.area)
    <3>1. dbmap \subseteq dbmap' /\ disk.dbmap = dbmap /\ disk'.dbmap = dbmap'
      BY HintKept DEF MkdirDone, Fine, Stored
    <3> QED
      BY <1>3, <2>1, <2>5, <3>1 DEF Marked, Shrinks
  <2>7. Dots(disk, area) => Dots(image.disk, image.area)
    BY <1>2, <1>3, <1>6, <2>1, <2>3, <2>5, NamedDir, DotsIf
  <2> QED
    BY <2>6, <2>7 DEF InOrder
<1> QED
  BY <1>1, <1>7, <1>8 DEF MkdirCuts

LEMMA CreateOrdered ==
    ASSUME Fine, Fine', Sound, NEW p \in NamedDirs, NEW n \in Names, CreateDone(p, n),
           NEW image \in Torn(CreateOrder)
    PROVE  InOrder(image)
<1>1. PICK k : k = NextIno /\ disk.itable[k].type = "NONE"
  BY NamedPaths, MadeNode
<1>2. p \in Dirs /\ OneNameEach /\ Marked(disk, area)
  BY NamedPaths DEF Sound
<1>3. /\ image.disk.itable = disk.itable /\ image.disk.dbmap = disk.dbmap
      /\ image.area = WriteSlot(area, itable[p].blk, FreeSlot(p), Entry(n, k))
  BY <1>1, TornIs, Prefixes DEF Fine, Fit, CreateDone
<1>4. ASSUME NEW d, NEW s, NEW i, Calls(disk.itable, image.area, d, s, i), i # k
      PROVE  Calls(disk.itable, area, d, s, i)
  <2>1. Entry(n, k).ino = k
    BY DEF Entry
  <2> QED
    BY <1>2, <1>3, <1>4, <2>1, EntryAdded
<1>5. Dots(disk, area) => \A l \in Blocks, s \in {0, 1} : image.area[l][s] = area[l][s]
  <2> SUFFICES ASSUME Dots(disk, area)
               PROVE  \A l \in Blocks, s \in {0, 1} : image.area[l][s] = area[l][s]
    OBVIOUS
  <2>1. Dotted(p) /\ p \in Dirs
    BY <1>2, PathDotted
  <2>2. PICK a : a = WriteSlot(area, itable[p].blk, FreeSlot(p), Entry(n, k))
    OBVIOUS
  <2>3. \A l \in Blocks, s \in {0, 1} : a[l][s] = area[l][s]
    BY <1>2, <2>1, <2>2, EntryAdded
  <2> QED
    BY <1>3, <2>2, <2>3
<1>6. Shrinks(image)
  <2>1. \A d, s, i : disk.itable[i].type # "NONE" /\ Calls(disk.itable, image.area, d, s, i)
                        => Calls(disk.itable, area, d, s, i)
    BY <1>1, <1>4
  <2>2. \A i \in Inos : image.disk.itable[i].type # "NONE" => disk.itable[i].type # "NONE"
    BY <1>3
  <2>3. ASSUME NEW i \in Inos, disk.itable[i].type # "NONE",
               HasName(image.disk.itable, image.area, i)
        PROVE  HasName(disk.itable, area, i)
    BY <1>3, <2>1, <2>3 DEF HasName
  <2> QED
    BY <2>2, <2>3, ShrinksIf
<1>7. Marked(image.disk, image.area)
  BY <1>2, <1>3, <1>6, MarkedIf
<1>8. Dots(disk, area) => Dots(image.disk, image.area)
  BY <1>3, <1>5, <1>6, NamedDir, DotsIf
<1> QED
  BY <1>7, <1>8 DEF InOrder

LEMMA MoveOrdered ==
    ASSUME Fine, Sound, NEW p \in NamedDirs, NEW t \in NamedDirs, NEW n \in Names,
           Found(p, n), Valid(p, n), MoveEntry(p, n, t), NEW image \in MoveCuts(p, n, t)
    PROVE  InOrder(image)
<1>1. p \in Dirs /\ t \in Dirs /\ OneNameEach /\ Marked(disk, area)
  BY NamedPaths DEF Sound
<1>2. PICK c : c = Slot(p, LookupSlot(p, n))
  OBVIOUS
<1>3. /\ c.ino = Child(p, n)
      /\ image.disk = disk
      /\ image.area = WriteSlot(area, itable[t].blk, FreeSlot(t), c)
  <2>1. c.ino = Child(p, n)
    BY <1>1, <1>2, LookupCell
  <2>2. image.disk = disk
    BY <1>1, Copied
  <2>3. image.area = WriteSlot(area, itable[t].blk, FreeSlot(t), c)
    BY <1>1, <1>2, Copied
  <2> QED
    BY <2>1, <2>2, <2>3
<1>4. ASSUME NEW d, NEW s, NEW i, Calls(disk.itable, image.area, d, s, i)
      PROVE  \E k, u : Calls(disk.itable, area, k, u, i)
  <2>1. Calls(disk.itable, area, d, s, i) \/ i = Child(p, n)
    BY <1>1, <1>2, <1>3, <1>4, EntryAdded
  <2>2. Calls(disk.itable, area, p, LookupSlot(p, n), Child(p, n))
    BY <1>1, LookupCalls, HintKept
  <2> QED
    BY <2>1, <2>2
<1>5. Dots(disk, area) => \A l \in Blocks, s \in {0, 1} : image.area[l][s] = area[l][s]
  <2> SUFFICES ASSUME Dots(disk, area)
               PROVE  \A l \in Blocks, s \in {0, 1} : image.area[l][s] = area[l][s]
    OBVIOUS
  <2>1. Dotted(t) /\ t \in Dirs
    BY <1>1, PathDotted
  <2> QED
    BY <1>1, <1>3, <2>1, EntryAdded
<1>6. Shrinks(image)
  <2>1. \A d, s, i : Calls(disk.itable, image.area, d, s, i)
                        => \E k, u : Calls(disk.itable, area, k, u, i)
    BY <1>4
  <2>2. \A i \in Inos : image.disk.itable[i].type # "NONE" => disk.itable[i].type # "NONE"
    BY <1>3
  <2>3. ASSUME NEW i \in Inos, disk.itable[i].type # "NONE",
               HasName(image.disk.itable, image.area, i)
        PROVE  HasName(disk.itable, area, i)
    BY <1>3, <2>1, <2>3 DEF HasName
  <2> QED
    BY <2>2, <2>3, ShrinksIf
<1>7. Marked(image.disk, image.area)
  BY <1>1, <1>3, <1>6, MarkedIf
<1>8. Dots(disk, area) => Dots(image.disk, image.area)
  BY <1>3, <1>5, <1>6, NamedDir, DotsIf
<1> QED
  BY <1>7, <1>8 DEF InOrder

LEMMA UnlinkOrder ==
    ASSUME Fine, Fine', Sound, NEW p \in NamedDirs, NEW n \in Names,
           Rmdir(p, n) \/ Unlink(p, n), NEW image \in RemoveCuts(Child(p, n))
    PROVE  /\ Marked(image.disk, image.area)
           /\ Unlink(p, n) /\ Dots(disk, area) => Dots(image.disk, image.area)
<1>1. PICK x, z : x = Child(p, n) /\ z = [area EXCEPT ![itable[x].blk] = ZeroBlock]
  OBVIOUS
<1>2. p \in Dirs /\ OneNameEach /\ Marked(disk, area) /\ disk.itable = itable
      /\ disk.dbmap = dbmap /\ disk'.dbmap = dbmap' /\ area \in AreaType
  BY NamedPaths, HintKept DEF Sound, Fine, Stored
<1>3. /\ x \in Inos /\ Found(p, n) /\ disk.itable[x].type # "NONE"
      /\ Calls(disk.itable, area, p, LookupSlot(p, n), x)
  BY <1>1, <1>2, GoneNode, LookupCalls
<1>4. x \in NamedIn(disk, area)
  BY <1>3, NamedAre
\* The area before the entry is deleted: no used slot is new, and only the
\* block of x has changed.
<1>5. PICK a \in AreaType :
         /\ area' = DeleteSlot(a, p, LookupSlot(p, n))
         /\ dbmap' = dbmap \/ dbmap' = dbmap \ {itable[x].blk}
         /\ itable[x].size > 0 => a = z
         /\ itable[x].size = 0 => dbmap' = dbmap
         /\ \A k \in Blocks, s \in BlockSlots : a[k][s].flag = "USED" => a[k][s] = area[k][s]
         /\ \A k \in Blocks : (itable[x].size > 0 => k # itable[x].blk) => a[k] = area[k]
         /\ itable[x].size > 0 \/ itable[x].size = 0
  <2>1. CASE itable[x].size = 0
    <3>1. area' = DeleteSlot(area, p, LookupSlot(p, n)) /\ dbmap' = dbmap
      BY <1>1, <2>1, Zeroed, <1>2
    <3> QED
      BY <1>2, <2>1, <3>1
  <2>2. CASE itable[x].size > 0
    <3>1. itable[x].size # 0
      BY <2>2
    <3>2. z \in AreaType /\ itable[x].blk \in Blocks
      BY <1>1, <1>2, <3>1, Zeroed
    <3>3. area' = DeleteSlot(z, p, LookupSlot(p, n))
      BY <1>1, <1>2, <3>1, Zeroed
    <3>4. dbmap' = dbmap \ {itable[x].blk}
      BY <1>1, <1>2, <3>1, Zeroed
    <3>5. \A k \in Blocks : z[k] = IF k = itable[x].blk THEN ZeroBlock ELSE area[k]
      BY <1>1, <1>2, <3>2 DEF AreaType
    <3>6. \A s \in BlockSlots : ZeroBlock[s].flag # "USED"
      BY DEF ZeroBlock, EmptySlot
    <3>7. \A k \in Blocks, s \in BlockSlots : z[k][s].flag = "USED" => z[k][s] = area[k][s]
      BY <3>5, <3>6
    <3> QED
      BY <2>2, <3>2, <3>3, <3>4, <3>5, <3>7
  <2> QED
    BY <1>1, <1>2, <2>1, <2>2, Zeroed
<1>6. ASSUME NEW i, HasName(disk.itable, a, i) PROVE HasName(disk.itable, area, i)
  <2>1. PICK d, s : Calls(disk.itable, a, d, s, i)
    BY <1>6 DEF HasName
  <2>2. /\ s \in BlockSlots /\ disk.itable[d].blk \in Blocks
        /\ a[disk.itable[d].blk][s].flag = "USED"
    BY <2>1, CallPlace DEF Fine, Fit
  <2>3. Calls(disk.itable, area, d, s, i)
    BY <1>5, <2>1, <2>2, CallsSame
  <2> QED
    BY <2>3 DEF HasName
\* No other entry has the name of x, so it has none left.
<1>7. ASSUME NEW i \in Inos, HasName(disk.itable, area', i)
      PROVE  HasName(disk.itable, area, i) /\ i # x
  <2>1. PICK d, s : Calls(disk.itable, area', d, s, i)
    BY <1>7 DEF HasName
  <2>2. PICK b : /\ b = disk.itable[d].blk /\ s \in BlockSlots /\ b \in Blocks
                 /\ area'[b][s].flag = "USED"
    BY <2>1, CallPlace DEF Fine, Fit
  <2>3. /\ area'[b][s] = a[b][s]
        /\ ~(b = itable[p].blk /\ s = LookupSlot(p, n))
    BY <1>2, <1>3, <1>5, <2>2, DeleteEffect
  <2>4. area'[b][s] = area[b][s]
    BY <1>5, <2>2, <2>3
  <2>5. Calls(disk.itable, area, d, s, i)
    BY <2>1, <2>2, <2>4, CallsSame
  <2>6. ASSUME i = x PROVE FALSE
    <3>1. d = p /\ s = LookupSlot(p, n)
      BY <1>2, <1>3, <2>5, <2>6, OneName
    <3> QED
      BY <1>2, <2>2, <2>3, <3>1
  <2> QED
    BY <2>5, <2>6 DEF HasName
<1>8. ASSUME Unlink(p, n), Dots(disk, area), NEW i \in NamedIn(disk, area),
             disk.itable[i].type = "DIR"
      PROVE  \A s \in {0, 1} : /\ a[disk.itable[i].blk][s] = area[disk.itable[i].blk][s]
                               /\ area'[disk.itable[i].blk][s] = area[disk.itable[i].blk][s]
  <2>1. /\ i \in Inos /\ disk.itable[i].blk \in Blocks /\ itable[i].size > 0
        /\ itable[i].blk = disk.itable[i].blk
    BY <1>8, NamedDir
  <2>2. i # x
    BY <1>1, <1>2, <1>8 DEF Unlink, Files
  <2>3. itable[x].size > 0 => itable[i].blk # itable[x].blk
    BY <1>4, <1>8, <2>1, <2>2 DEF Sound
  <2>4. a[disk.itable[i].blk] = area[disk.itable[i].blk]
    BY <1>5, <2>1, <2>3
  <2>5. LookupSlot(p, n) \notin {0, 1}
    BY <1>2, <1>3, <1>8, PathDotted, PastDots
  <2>6. \A s \in {0, 1} : area'[disk.itable[i].blk][s] = a[disk.itable[i].blk][s]
    BY <1>2, <1>3, <1>5, <2>1, <2>5, DeleteEffect, Sizes
  <2> QED
    BY <2>4, <2>6
<1>9. CASE image \in Half(z) /\ itable[x].size > 0
  <2>1. image.disk = disk /\ image.area = a
    BY <1>5, <1>9 DEF Half
  <2>2. Shrinks(image)
    BY <1>6, <2>1, ShrinksIf
  <2>3. Marked(image.disk, image.area)
    BY <1>2, <2>1, <2>2, MarkedIf
  <2>4. Unlink(p, n) /\ Dots(disk, area) => Dots(image.disk, image.area)
    BY <1>8, <2>1, <2>2, DotsIf
  <2> QED
    BY <2>3, <2>4
<1>10. CASE image \in Torn(FlushOrder)
  <2>1. /\ image.disk.itable = disk.itable /\ image.area = area'
        /\ image.disk.dbmap \in {disk.dbmap, disk'.dbmap}
    BY <1>10, TornIs, Prefixes DEF Fine, Fit
  <2>2. Shrinks(image)
    BY <1>7, <2>1, ShrinksIf
  <2>3. Marked(image.disk, image.area)
    <3> SUFFICES ASSUME NEW i \in NamedIn(image.disk, image.area), itable[i].size > 0
                 PROVE  itable[i].blk \in image.disk.dbmap
      BY <1>2, <2>1 DEF Marked
    <3>1. i \in NamedIn(disk, area) /\ i \in Inos /\ i # x
      BY <1>7, <2>1, <2>2, NamedAre DEF Shrinks, HasName
    <3>2. itable[i].blk \in dbmap
      BY <1>2, <3>1 DEF Marked
    <3>3. itable[x].size > 0 => itable[i].blk # itable[x].blk
      BY <1>4, <3>1 DEF Sound
    <3> QED
      BY <1>2, <1>5, <2>1, <3>2, <3>3
  <2>4. Unlink(p, n) /\ Dots(disk, area) => Dots(image.disk, image.area)
    BY <1>8, <2>1, <2>2, DotsIf
  <2> QED
    BY <2>3, <2>4
<1> QED
  BY <1>1, <1>9, <1>10 DEF RemoveCuts

LEMMA WriteOrdered ==
    ASSUME Fine, Fine', Sound, NEW f \in Fids, Write(f), NEW image \in Torn(WriteOrder)
    PROVE  /\ itable[file_table[f]].size > 0 => Marked(image.disk, image.area)
           /\ Dots(disk, area) => Dots(image.disk, image.area)
<1>1. PICK g : g = file_table[f]
  OBVIOUS
<1>2. /\ image.disk.itable \in {disk.itable, disk'.itable} /\ image.area = area'
      /\ image.disk.dbmap = disk.dbmap
  BY TornIs, Prefixes DEF Fine, Fit
<1>3. Marked(disk, area) /\ area \in AreaType /\ disk.itable = itable
  BY HintKept DEF Sound
\* Data is written to one block, which no named directory has.
<1>4. PICK b : /\ \A k \in Blocks, s \in BlockSlots :
                     /\ area'[k][s].flag = "USED" => area'[k][s] = area[k][s]
                     /\ k # b => area'[k][s] = area[k][s]
               /\ itable[g].size = 0 => b \notin disk.dbmap
               /\ itable[g].size > 0 => b = itable[g].blk
  <2>1. CASE /\ itable[g].size = 0 /\ NextBlk \in Blocks \ disk.dbmap
             /\ area' = WriteSlot(area, NextBlk, 0, DataSlot)
    <3>1. DataSlot.flag # "USED"
      BY DEF DataSlot
    <3>2. \A k \in Blocks, s \in BlockSlots :
             area'[k][s] = IF k = NextBlk /\ s = 0 THEN DataSlot ELSE area[k][s]
      BY <1>3, <2>1, SlotEffect, Sizes
    <3> QED
      BY <2>1, <3>1, <3>2
  <2>2. CASE /\ itable[g].size > 0
             /\ area' = [area EXCEPT ![itable[g].blk] = [ZeroBlock EXCEPT ![0] = DataSlot]]
    <3>1. \A s \in BlockSlots : [ZeroBlock EXCEPT ![0] = DataSlot][s].flag # "USED"
      BY DEF ZeroBlock, EmptySlot, DataSlot
    <3>2. \A k \in Blocks : area'[k] = IF k = itable[g].blk
                                       THEN [ZeroBlock EXCEPT ![0] = DataSlot] ELSE area[k]
      BY <1>3, <2>2 DEF AreaType
    <3> QED
      BY <2>2, <3>1, <3>2
  <2> QED
    BY <1>1, <2>1, <2>2, WroteNode
<1>5. Shrinks(image)
  <2>1. \A i \in Inos : image.disk.itable[i].type = disk.itable[i].type
    BY <1>2, WroteNode
  <2>2. \A i \in Inos : disk.itable[i].type = "DIR" => image.disk.itable[i] = disk.itable[i]
    BY <1>2, WroteNode
  <2>3. ASSUME NEW i \in Inos, HasName(image.disk.itable, area', i)
        PROVE  HasName(disk.itable, area, i)
    <3>1. PICK d, s : Calls(image.disk.itable, area', d, s, i)
      BY <2>3 DEF HasName
    <3>2. d \in Inos /\ image.disk.itable[d] = disk.itable[d]
      BY <2>1, <2>2, <3>1 DEF Calls
    <3>3. Calls(disk.itable, area', d, s, i)
      BY <3>1, <3>2, CallsSame
    <3>4. /\ s \in BlockSlots /\ disk.itable[d].blk \in Blocks
          /\ area'[disk.itable[d].blk][s].flag = "USED"
      BY <3>3, CallPlace DEF Fine, Fit
    <3>5. Calls(disk.itable, area, d, s, i)
      BY <1>4, <3>3, <3>4, CallsSame
    <3> QED
      BY <3>5 DEF HasName
  <2> QED
    BY <1>2, <2>1, <2>3, ShrinksIf
<1>6. ASSUME itable[g].size > 0 PROVE Marked(image.disk, image.area)
  <2>1. \A i \in Inos : /\ disk'.itable[i].blk = disk.itable[i].blk
                        /\ disk'.itable[i].size > 0 => disk.itable[i].size > 0
    BY <1>1, <1>6, WroteNode, HintKept
  <2>2. \A i \in Inos : /\ image.disk.itable[i].blk = disk.itable[i].blk
                        /\ image.disk.itable[i].size > 0 => disk.itable[i].size > 0
    BY <1>2, <2>1
  <2> QED
    BY <1>2, <1>3, <1>5, <2>2, MarkedIf
<1>7. ASSUME Dots(disk, area) PROVE Dots(image.disk, image.area)
  <2>1. ASSUME NEW i \in NamedIn(disk, area), image.disk.itable[i].type = "DIR"
        PROVE  /\ disk.itable[i].type = "DIR"
               /\ image.disk.itable[i].blk = disk.itable[i].blk
               /\ \A s \in {0, 1} : image.area[disk.itable[i].blk][s]
                                       = area[disk.itable[i].blk][s]
    <3>1. i \in Inos
      BY NamedAre
    <3>2. disk.itable[i].type = "DIR" /\ image.disk.itable[i] = disk.itable[i]
      BY <1>2, <2>1, <3>1, WroteNode
    <3>3. /\ disk.itable[i].blk \in Blocks /\ disk.itable[i].blk \in disk.dbmap
          /\ itable[i].size > 0
      BY <1>3, <3>2, NamedDir
    <3>4. itable[g].size > 0 => itable[i].blk # itable[g].blk
      <4>1. itable[g].size > 0 => g \in Held
        BY <1>1, WroteNode
      <4>2. g # i
        BY <1>1, <1>3, <3>2, HintKept DEF Fine, HandlesFit
      <4> QED
        BY <3>3, <4>1, <4>2 DEF Sound
    <3>5. disk.itable[i].blk # b
      BY <1>1, <1>3, <1>4, <3>3, <3>4, WroteNode
    <3> QED
      BY <1>2, <1>4, <3>2, <3>3, <3>5, Sizes
  <2> QED
    BY <1>5, <1>7, <2>1, DotsIf
<1> QED
  BY <1>1, <1>6, <1>7

-----------------------------------------------------------------------------
(* The device is fit wherever calls are cut.                               *)

LEMMA MkdirLeaves ==
    ASSUME Fine, Fine', NEW p \in NamedDirs, NEW n \in Names, MkdirDone(p, n),
           NEW image \in MkdirCuts(p, n)
    PROVE  Fit(image.disk, image.area)
<1>1. PICK a, k : /\ a = WriteSlot(area, itable[p].blk, FreeSlot(p), Entry(n, k))
                  /\ k = NextIno
  OBVIOUS
<1>2. p \in Dirs /\ k \in Inos
  BY <1>1, NamedPaths, MadeNode
<1>3. a \in AreaType /\ AreaOK(a)
  <2>1. k > Root
    BY <1>1, HintKept, Sizes DEF NumReserved, Root
  <2> QED
    BY <1>1, <1>2, <2>1, EntryPlain, EntryWritten
<1>4. image \in Half(a) \/ image \in Torn(FlushOrder)
  BY <1>1 DEF MkdirCuts
<1> QED
  BY <1>3, <1>4, HalfFit, TornFit

LEMMA RemoveLeaves ==
    ASSUME Fine, Fine', NEW p \in NamedDirs, NEW n \in Names,
           Rmdir(p, n) \/ Unlink(p, n), NEW image \in RemoveCuts(Child(p, n))
    PROVE  Fit(image.disk, image.area)
<1>1. PICK x, z : x = Child(p, n) /\ z = [area EXCEPT ![itable[x].blk] = ZeroBlock]
  OBVIOUS
<1>2. CASE image \in Half(z) /\ itable[x].size > 0
  <2>1. itable[x].size # 0 /\ p \in Dirs
    BY <1>2, NamedPaths
  <2>2. z \in AreaType /\ AreaOK(z)
    BY <1>1, <2>1, Zeroed
  <2> QED
    BY <1>2, <2>2, HalfFit
<1>3. CASE image \in Torn(FlushOrder)
  BY <1>3, TornFit
<1> QED
  BY <1>1, <1>2, <1>3 DEF RemoveCuts

LEMMA MoveLeaves ==
    ASSUME Fine, NEW p \in NamedDirs, NEW t \in NamedDirs, NEW n \in Names, Found(p, n),
           MoveEntry(p, n, t), NEW image \in MoveCuts(p, n, t)
    PROVE  Fit(image.disk, image.area)
<1>1. p \in Dirs /\ t \in Dirs
  BY NamedPaths
<1>2. PICK a : /\ a = WriteSlot(area, itable[t].blk, FreeSlot(t), Slot(p, LookupSlot(p, n)))
               /\ a \in AreaType /\ AreaOK(a) /\ image \in Half(a)
  BY <1>1, Copied
<1> QED
  BY <1>2, HalfFit

\* The device that a cut call leaves, and the call.
LEMMA CutLeaves ==
    ASSUME Fine, Fine', CrashNext, IsCut
    PROVE  Fit(cut'[1].disk, cut'[1].area)
<1>1. ASSUME NEW images, Dies(images), \A image \in images : Fit(image.disk, image.area)
      PROVE  Fit(cut'[1].disk, cut'[1].area)
  <2>1. PICK image \in images : cut' = <<image>>
    BY <1>1 DEF Dies
  <2>2. cut'[1] = image
    BY <2>1
  <2> QED
    BY <1>1, <2>2
<1>2. CASE MkdirCut
  BY <1>1, <1>2, MkdirLeaves DEF MkdirCut
<1>3. CASE RmdirCut
  BY <1>1, <1>3, RemoveLeaves DEF RmdirCut
<1>4. CASE UnlinkCut
  BY <1>1, <1>4, RemoveLeaves DEF UnlinkCut
<1>5. CASE CreateCut
  BY <1>1, <1>5, TornFit DEF CreateCut
<1>6. CASE WriteCut
  BY <1>1, <1>6, TornFit DEF WriteCut
<1>7. CASE MoveCut
  BY <1>1, <1>7, MoveLeaves DEF MoveCut
<1> QED
  BY <1>2, <1>3, <1>4, <1>5, <1>6, <1>7, CutCases

\* A mount of what fits.
LEMMA RemountFine == ASSUME WholeInv, Hinted', Remount PROVE Fine'
<1>1. /\ Fit(disk, area)' /\ sb' = disk'.sb /\ blk_hint' = disk'.sb.blk
      /\ ibmap' = disk'.ibmap /\ dbmap' = disk'.dbmap /\ itable' = disk'.itable
      /\ freed' = FALSE /\ file_table' = [f \in Fids |-> 0]
  BY DEF Remount, WholeInv
<1>2. Stored'
  BY <1>1 DEF Stored
<1>3. disk' \in DiskType /\ area' \in AreaType /\ TableOK(itable')
  BY <1>1 DEF Fit
<1>4. TypeOK'
  <2>1. /\ disk'.sb \in SbType /\ disk'.ibmap \subseteq Inos
        /\ disk'.dbmap \subseteq Blocks /\ disk'.itable \in [Inos -> InodeType]
    BY <1>3 DEF DiskType
  <2>2. disk'.sb.blk \in 0..NumBlocks
    BY <2>1 DEF SbType
  <2>3. [f \in Fids |-> 0] \in [Fids -> Inos]
    BY Sizes
  <2> QED
    BY <1>1, <1>3, <2>1, <2>2, <2>3 DEF TypeOK, DiskType, AreaType
<1>5. DirBlocks'
  <2>1. DirSlots > 0
    BY Sizes
  <2> QED
    BY <1>3, <2>1 DEF DirBlocks, TableOK, NodeOK
<1>6. FineNext
  BY <1>1, MountedFine
<1> QED
  BY <1>1, <1>2, <1>4, <1>5, <1>6 DEF Fine, Types, FineNext

LEMMA WholeInit == CrashInit => WholeInv
<1> SUFFICES ASSUME CrashInit PROVE WholeInv
  OBVIOUS
<1>1. Types /\ Stored /\ Hinted /\ cut = << >>
  BY TypesInit, StoredInit, HintedInit DEF CrashInit, CutInv
<1>2. /\ disk = FormatDisk /\ area = FormatArea /\ itable = FormatItable /\ dbmap = {0}
      /\ file_table = [f \in Fids |-> 0]
  BY DEF CrashInit, Init, Loaded, FormatDisk
<1>3. disk \in DiskType /\ area \in AreaType
  BY <1>1 DEF Types, TypeOK, DiskType, AreaType
<1>4. TableOK(FormatItable)
  <2>1. /\ \A i \in Inos : FormatItable[i] = IF i = Root THEN DirInode(0) ELSE ZeroInode
        /\ Root # 0 /\ ZeroInode.type = "NONE"
        /\ DirInode(0).type = "DIR" /\ DirInode(0).blk = 0 /\ DirInode(0).size = DirSlots
    BY DEF FormatItable, ZeroInode, DirInode, Root
  <2>2. NodeOK(Root, DirInode(0))
    BY <2>1, Sizes DEF NodeOK
  <2> QED
    BY <2>1, <2>2, NewNodes, Sizes DEF TableOK
<1>5. AreaOK(FormatArea)
  <2>1. \A b \in Blocks : FormatArea[b] = IF b = 0 THEN NewDirBlock(Root, Root)
                                          ELSE [s \in BlockSlots |-> DataSlot]
    BY DEF FormatArea
  <2>2. \A s \in BlockSlots : CellOK(s, DataSlot)
    BY DEF CellOK, DataSlot
  <2>3. FormatArea[0] = NewDirBlock(Root, Root)
    BY <2>1, Sizes
  <2>4. /\ NewDirBlock(Root, Root)[0] = Entry(".", Root)
        /\ NewDirBlock(Root, Root)[1].name = ".."
    <3>1. Entry("..", Root).name = ".."
      BY DEF Entry
    <3> QED
      BY <3>1, BlocksOK
  <2>5. \A b \in Blocks, s \in BlockSlots : CellOK(s, FormatArea[b][s])
    BY <2>1, <2>2, BlocksOK
  <2> QED
    BY <2>3, <2>4, <2>5 DEF AreaOK
<1>6. disk.itable = FormatItable /\ 0 \in disk.dbmap
  BY <1>2 DEF FormatDisk
<1>7. Fit(disk, area)
  BY <1>2, <1>3, <1>4, <1>5, <1>6 DEF Fit
<1>8. HandlesFit
  <2>1. 0 < sb.ino
    BY <1>1, Bounds DEF Hinted, Above
  <2> QED
    BY <1>2, <1>4, <2>1 DEF HandlesFit, TableOK
<1> QED
  BY <1>1, <1>7, <1>8 DEF WholeInv, Fine

\* A step of the file system ends, or is cut.
LEMMA EndsOrDies ==
    ASSUME CrashNext, ~Remount
    PROVE  cut' = << >> \/ IsCut
<1>1. ASSUME NEW images, Dies(images) PROVE IsCut
  <2>1. PICK image \in images : cut' = <<image>>
    BY <1>1 DEF Dies
  <2> QED
    BY <2>1 DEF IsCut
<1>2. Ends => cut' = << >>
  BY DEF Ends
<1>3. ASSUME NEW p \in NamedDirs, NEW n \in Names, InDirectory(p, n)
      PROVE  cut' = << >> \/ IsCut
  BY <1>1, <1>2, <1>3 DEF InDirectory
<1>4. ASSUME NEW p \in NamedDirs, NEW n \in Names, NEW t \in NamedDirs, NEW m \in Names,
             BetweenDirectories(p, n, t, m)
      PROVE  cut' = << >> \/ IsCut
  BY <1>1, <1>2, <1>4 DEF BetweenDirectories
<1>5. ASSUME NEW f \in Fids, OnHandle(f) PROVE cut' = << >> \/ IsCut
  BY <1>1, <1>2, <1>5 DEF OnHandle
<1> QED
  BY <1>2, <1>3, <1>4, <1>5 DEF CrashNext

LEMMA WholeStep == CutInv /\ WholeInv /\ [CrashNext]_crashVars => Fine' /\ WholeInv'
<1> SUFFICES ASSUME CutInv, WholeInv, [CrashNext]_crashVars PROVE Fine' /\ WholeInv'
  OBVIOUS
<1>1. Fine /\ Hinted'
  BY CutInvStep DEF WholeInv, CutInv
<1>2. CASE UNCHANGED crashVars
  <2>1. [Next]_vars
    BY <1>2 DEF crashVars
  <2>2. Fine'
    BY <1>1, <2>1, FineStep
  <2> QED
    BY <1>2, <2>2 DEF crashVars, WholeInv
<1>3. CASE CrashNext /\ Remount
  BY <1>1, <1>3, RemountFine DEF Remount, WholeInv
<1>4. CASE CrashNext /\ ~Remount
  <2>1. Next
    BY <1>4, CutSteps
  <2>2. Fine'
    BY <1>1, <2>1, FineStep
  <2>3. cut' = << >> \/ IsCut
    BY <1>4, EndsOrDies
  <2> QED
    BY <1>1, <1>4, <2>2, <2>3, CutLeaves DEF WholeInv
<1> QED
  BY <1>2, <1>3, <1>4

-----------------------------------------------------------------------------
(* What a cut call keeps.                                                  *)

LEMMA CutKeeps ==
    ASSUME Fine, Fine', CrashNext, IsCut
    PROVE  Keeps(cut'[1])
<1>1. ASSUME NEW images, Dies(images), \A image \in images : Keeps(image)
      PROVE  Keeps(cut'[1])
  <2>1. PICK image \in images : cut' = <<image>>
    BY <1>1 DEF Dies
  <2>2. cut'[1] = image
    BY <2>1
  <2> QED
    BY <1>1, <2>2
<1>2. CASE MkdirCut
  BY <1>1, <1>2, MkdirKeeps, NamedPaths DEF MkdirCut
<1>3. CASE RmdirCut
  BY <1>1, <1>3, RemoveKeeps, NamedPaths DEF RmdirCut
<1>4. CASE UnlinkCut
  BY <1>1, <1>4, RemoveKeeps, NamedPaths DEF UnlinkCut
<1>5. CASE CreateCut
  BY <1>1, <1>5, CreateKeeps, NamedPaths DEF CreateCut
<1>6. CASE WriteCut
  BY <1>1, <1>6, WriteKeeps DEF WriteCut
<1>7. CASE MoveCut
  BY <1>1, <1>7, MoveKeeps, NamedPaths DEF MoveCut
<1> QED
  BY <1>2, <1>3, <1>4, <1>5, <1>6, <1>7, CutCases

\* The cuts that leave a block unmarked, or a directory without its dots.
FirstWrite == \E f \in Fids : itable[file_table[f]].size = 0 /\ Write(f)
Removal == \E p \in NamedDirs, n \in Names : Rmdir(p, n)

Orderly(image) == /\ Marked(image.disk, image.area) \/ FirstWrite
                  /\ Dots(disk, area) => Dots(image.disk, image.area) \/ Removal

LEMMA CutOrderly ==
    ASSUME Fine, Fine', CrashNext, IsCut, Sound
    PROVE  Orderly(cut'[1])
<1>1. ASSUME NEW images, Dies(images), \A image \in images : Orderly(image)
      PROVE  Orderly(cut'[1])
  <2>1. PICK image \in images : cut' = <<image>>
    BY <1>1 DEF Dies
  <2>2. cut'[1] = image
    BY <2>1
  <2> QED
    BY <1>1, <2>2
<1>2. CASE MkdirCut
  BY <1>1, <1>2, MkdirOrder DEF MkdirCut, Orderly, InOrder
<1>3. CASE RmdirCut
  <2>1. PICK p \in NamedDirs, n \in Names : Rmdir(p, n) /\ Dies(RemoveCuts(Child(p, n)))
    BY <1>3 DEF RmdirCut
  <2>2. Removal
    BY <2>1 DEF Removal
  <2>3. \A image \in RemoveCuts(Child(p, n)) : Orderly(image)
    BY <2>1, <2>2, UnlinkOrder DEF Orderly
  <2> QED
    BY <1>1, <2>1, <2>3
<1>4. CASE UnlinkCut
  <2>1. PICK p \in NamedDirs, n \in Names : Unlink(p, n) /\ Dies(RemoveCuts(Child(p, n)))
    BY <1>4 DEF UnlinkCut
  <2>2. \A image \in RemoveCuts(Child(p, n)) : Orderly(image)
    BY <2>1, UnlinkOrder DEF Orderly
  <2> QED
    BY <1>1, <2>1, <2>2
<1>5. CASE CreateCut
  BY <1>1, <1>5, CreateOrdered DEF CreateCut, Orderly, InOrder
<1>6. CASE WriteCut
  <2>1. PICK f \in Fids : Write(f) /\ Dies(Torn(WriteOrder))
    BY <1>6 DEF WriteCut
  <2>2. itable[file_table[f]].size > 0 \/ itable[file_table[f]].size = 0
    <3>1. \A i \in Inos : itable[i].size \in {0, 1, DirSlots}
      BY HintKept DEF InodeType
    <3> QED
      BY <3>1, HintKept, Sizes
  <2>3. itable[file_table[f]].size = 0 => FirstWrite
    BY <2>1 DEF FirstWrite
  <2>4. \A image \in Torn(WriteOrder) : Orderly(image)
    BY <2>1, <2>2, <2>3, WriteOrdered DEF Orderly
  <2> QED
    BY <1>1, <2>1, <2>4
<1>7. CASE MoveCut
  BY <1>1, <1>7, MoveOrdered DEF MoveCut, Orderly, InOrder
<1> QED
  BY <1>2, <1>3, <1>4, <1>5, <1>6, <1>7, CutCases

\* Every cut call, on a device in any order and on a sound one.
LEMMA CutStep ==
    CutInv /\ WholeInv /\ [CrashNext]_crashVars =>
       [IsCut => Keeps(cut'[1]) /\ (Sound => Orderly(cut'[1]))]_crashVars
<1> SUFFICES ASSUME CutInv, WholeInv, CrashNext, IsCut
             PROVE  Keeps(cut'[1]) /\ (Sound => Orderly(cut'[1]))
  OBVIOUS
<1>1. Fine /\ Fine'
  BY WholeStep DEF WholeInv
<1> QED
  BY <1>1, CutKeeps, CutOrderly

(***************************************************************************)
(* Wherever a call is cut, and whatever earlier cuts have left, what has a *)
(* name before the call and has one after it has one on the device: no     *)
(* call deletes the only name of an inode before it writes another.        *)
(***************************************************************************)
THEOREM CutsKeepNames == CrashSpec => NamesKept
<1>1. CutInv /\ WholeInv /\ [CrashNext]_crashVars =>
        [IsCut => NamedIn(disk, area) \cap NamedIn(disk', area')
                     \subseteq NamedIn(cut'[1].disk, cut'[1].area)]_crashVars
  BY CutStep DEF Keeps
<1> QED
  BY <1>1, HintedInit, CutInvStep, WholeInit, WholeStep, PTL DEF CrashSpec, NamesKept

(***************************************************************************)
(* On a device where no inode has two names and no block two owners, the   *)
(* first write of a file is the only call whose cut leaves a block of a    *)
(* named inode unmarked.                                                   *)
(***************************************************************************)
THEOREM CutsKeepMarks == CrashSpec => MarkedKept
<1>1. CutInv /\ WholeInv /\ [CrashNext]_crashVars =>
        [IsCut /\ Sound =>
            \/ Marked(cut'[1].disk, cut'[1].area)
            \/ \E f \in Fids : itable[file_table[f]].size = 0 /\ Write(f)]_crashVars
  BY CutStep DEF Orderly, FirstWrite
<1> QED
  BY <1>1, HintedInit, CutInvStep, WholeInit, WholeStep, PTL DEF CrashSpec, MarkedKept

(***************************************************************************)
(* On such a device rmdir is the only call whose cut leaves a directory    *)
(* that has its name but not "." and "..".                                 *)
(***************************************************************************)
THEOREM CutsKeepDots == CrashSpec => DotsKept
<1>1. CutInv /\ WholeInv /\ [CrashNext]_crashVars =>
        [IsCut /\ Sound /\ Dots(disk, area) =>
            \/ Dots(cut'[1].disk, cut'[1].area)
            \/ \E p \in NamedDirs, n \in Names : Rmdir(p, n)]_crashVars
  BY CutStep DEF Orderly, Removal
<1> QED
  BY <1>1, HintedInit, CutInvStep, WholeInit, WholeStep, PTL DEF CrashSpec, DotsKept
=============================================================================
