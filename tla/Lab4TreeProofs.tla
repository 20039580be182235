--------------------------- MODULE Lab4TreeProofs ---------------------------
(***************************************************************************)
(* What the entries of the directories name: the last layers of the        *)
(* invariant of Lab4FS, on top of those of Lab4FSProofs, and the theorems  *)
(* that need them.  Tree relates entries and inodes one to one, Spanned    *)
(* says that the entries, seen as the links of a graph, reach them all.    *)
(* Every step is one of five kinds of change of the links, and each kind   *)
(* is an operation of Lab4Namespace.                                       *)
(***************************************************************************)
EXTENDS Lab4FSProofs

USE SizeAssumption DEF NumReserved, Root, StartOpenFile, NoBlock

\* "." and ".." keep the first two slots.
Dots == \A d \in Dirs : /\ Slot(d, 0).flag = "USED" /\ Slot(d, 0).name = "."
                        /\ Slot(d, 1).flag = "USED" /\ Slot(d, 1).name = ".."

TargetsLive == \A e \in Entries : Target(e) \in Live \ {Root}

OneEntry == \A e, o \in Entries : Target(e) = Target(o) => e = o

Named == \A i \in Live \ {Root} : \E e \in Entries : Target(e) = i

OneLink == \A i \in Files : itable[i].links = 1

Tree == Dots /\ TargetsLive /\ OneEntry /\ Named /\ OneLink

\* The entries as links of a namespace.
Link(d, n, i) == [dir |-> d, name |-> n, node |-> i]
LinkOf(e) == Link(e[1], Slot(e[1], e[2]).name, Target(e))
Links == {LinkOf(e) : e \in Entries}

-----------------------------------------------------------------------------
(* Facts about one state.                                                  *)

LEMMA DirBlk ==
    ASSUME Bound, NEW d \in Dirs
    PROVE  /\ d \in Inos /\ d \in Own(itable) /\ itable[d].blk \in Blocks
           /\ itable[d].blk \in dbmap
           /\ \A o \in Own(itable) : itable[o].blk = itable[d].blk => o = d
<1>1. d \in Inos /\ itable[d].blk \in Blocks
  BY DEF Dirs, Bound, Base, Types, DirBlocks
<1>2. d \in Own(itable)
  BY DEF Dirs, Bound, BlockUse, DirSizes, Own
<1> QED
  BY <1>1, <1>2 DEF Bound, BlockUse, Uses

(***************************************************************************)
(* A lookup of a client's name finds an entry, never "." or "..".          *)
(***************************************************************************)
LEMMA LookupEntry ==
    ASSUME Bound, Tree, NEW p \in Dirs, NEW n \in Names, Found(p, n)
    PROVE  LET e == <<p, LookupSlot(p, n)>>
           IN  /\ e \in Entries
               /\ Target(e) = Child(p, n)
               /\ Child(p, n) \in Live \ {Root}
<1> DEFINE s == LookupSlot(p, n)
<1>1. s \in Slots /\ Slot(p, s).flag = "USED" /\ Slot(p, s).name = n
  BY LookupFinds
<1>2. n # "." /\ n # ".."
  BY NamesAssumption
<1>3. s # 0 /\ s # 1
  BY <1>1, <1>2 DEF Tree, Dots
<1>4. <<p, s>> \in Entries
  BY <1>1, <1>3 DEF Entries, Slots
<1>5. Target(<<p, s>>) = Child(p, n)
  BY DEF Target, Child
<1> QED
  BY <1>4, <1>5 DEF Tree, TargetsLive

(***************************************************************************)
(* The slot a handler takes over is past "." and "..", and not an entry.   *)
(***************************************************************************)
LEMMA FreeSlotPastDots ==
    ASSUME Bound, Tree, NEW d \in Dirs, FreeSlot(d) < DirSlots
    PROVE  /\ FreeSlot(d) \in Slots /\ FreeSlot(d) > 1
           /\ <<d, FreeSlot(d)>> \notin Entries
<1>1. FreeSlot(d) \in Slots /\ Slot(d, FreeSlot(d)).flag # "USED"
  BY FreeSlotFinds
<1>2. FreeSlot(d) # 0 /\ FreeSlot(d) # 1
  BY <1>1 DEF Tree, Dots
<1> QED
  BY <1>1, <1>2 DEF Entries, Slots

LEMMA LiveRange ==
    ASSUME Bound, NEW i \in Live \ {Root}
    PROVE  i \in 3..(sb.ino - 1) /\ i \in ibmap
<1>1. i \in Inos /\ i \in disk.ibmap /\ i >= 2 /\ i # 2
  BY DEF Live, Bound, Base, Numbers, LiveKept
<1>2. i \in ibmap /\ i < sb.ino
  BY <1>1 DEF Bound, Base, Numbers, BitsKept
<1>3. sb.ino \in Int
  BY DEF Bound, Base, Types, TypeOK, SbType
<1> QED
  BY <1>1, <1>2, <1>3 DEF Inos

(***************************************************************************)
(* A directory with no free slot names DirSlots - 2 inodes: so many are    *)
(* among those it could name.                                              *)
(***************************************************************************)
LEMMA FullDir ==
    ASSUME Bound, Tree, NEW d \in Dirs, FreeSlot(d) = DirSlots,
           NEW S, S \subseteq 3..(sb.ino - 1),
           \A e \in Entries : e[1] = d => Target(e) \in S
    PROVE  IsFiniteSet(S) /\ DirSlots - 2 <= Cardinality(S)
<1> DEFINE R == 2..(DirSlots - 1)
           g == [s \in R |-> Slot(d, s).ino]
<1>1. sb.ino \in Int
  BY DEF Bound, Base, Types, TypeOK, SbType
<1>2. IsFiniteSet(S)
  <2>1. IsFiniteSet(3..(sb.ino - 1))
    <3>1. 3 \in Int /\ sb.ino - 1 \in Int
      BY <1>1
    <3> QED
      BY <3>1, FS_Interval
  <2> QED
    BY <2>1, FS_Subset
<1>3. \A s \in R : <<d, s>> \in Entries /\ Target(<<d, s>>) = g[s]
  <2>1. \A s \in Slots : Slot(d, s).flag = "USED"
    BY FreeSlotFinds
  <2>2. R \subseteq Slots /\ \A s \in R : s > 1
    BY DEF Slots
  <2> QED
    BY <2>1, <2>2 DEF Entries, Target
<1>4. g \in Injection(R, S)
  <2>1. g \in [R -> S]
    BY <1>3
  <2>2. \A s, t \in R : g[s] = g[t] => s = t
    <3> SUFFICES ASSUME NEW s \in R, NEW t \in R, g[s] = g[t] PROVE s = t
      OBVIOUS
    <3>1. <<d, s>> = <<d, t>>
      BY <1>3 DEF Tree, OneEntry
    <3> QED
      BY <3>1
  <2> HIDE DEF g
  <2> QED
    BY <2>1, <2>2 DEF Injection, IsInjective
<1>5. Cardinality(R) <= Cardinality(S)
  BY <1>2, <1>4, FS_Injection
<1>6. Cardinality(R) = DirSlots - 2
  <2>1. 2 \in Int /\ DirSlots - 1 \in Int /\ ~(2 > DirSlots - 1)
    OBVIOUS
  <2> QED
    BY <2>1, FS_Interval
<1> QED
  BY <1>2, <1>5, <1>6

LEMMA Room == ASSUME RoomForAll, Bound, Tree PROVE RoomToCreate
<1> SUFFICES ASSUME sb.ino < NumInodes, NEW d \in Dirs, FreeSlot(d) >= DirSlots
             PROVE  FALSE
  BY FreeSlotFinds DEF RoomToCreate
<1> DEFINE S == 3..(sb.ino - 1)
<1>1. sb.ino \in Int /\ sb.ino >= 3
  BY DEF Bound, Base, Types, TypeOK, SbType, Numbers, HintsKept
<1>2. \A e \in Entries : e[1] = d => Target(e) \in S
  BY LiveRange DEF Tree, TargetsLive
<1>3. FreeSlot(d) = DirSlots
  BY FreeSlotFinds
<1>4. DirSlots - 2 <= Cardinality(S)
  BY <1>2, <1>3, FullDir
<1>5. Cardinality(S) = IF 3 > sb.ino - 1 THEN 0 ELSE sb.ino - 1 - 3 + 1
  <2>1. 3 \in Int /\ sb.ino - 1 \in Int
    BY <1>1
  <2> QED
    BY <2>1, FS_Interval
<1> QED
  BY <1>1, <1>4, <1>5 DEF RoomForAll

(***************************************************************************)
(* A rename to another directory finds a slot there too.                   *)
(***************************************************************************)
LEMMA RoomToMove ==
    ASSUME RoomForAll, Bound, Tree, NEW p \in Dirs, NEW t \in Dirs, NEW n \in Names,
           Found(p, n), p # t
    PROVE  FreeSlot(t) < DirSlots
<1> SUFFICES ASSUME FreeSlot(t) >= DirSlots PROVE FALSE
  BY FreeSlotFinds
<1> DEFINE e0 == <<p, LookupSlot(p, n)>>
           x  == Child(p, n)
           S  == (3..(sb.ino - 1)) \ {x}
<1>1. sb.ino \in Int /\ sb.ino <= NumInodes
  BY DEF Bound, Base, Types, TypeOK, SbType
<1>2. e0 \in Entries /\ Target(e0) = x /\ x \in 3..(sb.ino - 1)
  BY LookupEntry, LiveRange
<1>3. \A e \in Entries : e[1] = t => Target(e) \in S
  <2> SUFFICES ASSUME NEW e \in Entries, e[1] = t PROVE Target(e) \in S
    OBVIOUS
  <2>1. e # e0
    OBVIOUS
  <2>2. Target(e) # x
    BY <1>2, <2>1 DEF Tree, OneEntry
  <2> QED
    BY <2>2, LiveRange DEF Tree, TargetsLive
<1>4. DirSlots - 2 <= Cardinality(S)
  <2>1. FreeSlot(t) = DirSlots /\ S \subseteq 3..(sb.ino - 1)
    BY FreeSlotFinds
  <2> HIDE DEF S
  <2> QED
    BY <1>3, <2>1, FullDir
<1>5. Cardinality(S) = sb.ino - 4
  <2> DEFINE N == 3..(sb.ino - 1)
  <2>1. 3 \in Int /\ sb.ino - 1 \in Int /\ ~(3 > sb.ino - 1)
    BY <1>1, <1>2
  <2>2. IsFiniteSet(N) /\ Cardinality(N) = sb.ino - 1 - 3 + 1
    BY <2>1, FS_Interval
  <2>3. Cardinality(N \ {x}) = Cardinality(N) - 1
    <3> HIDE DEF N
    <3> QED
      BY <1>2, <2>2, FS_RemoveElement DEF N
  <2> QED
    BY <1>1, <2>2, <2>3
<1> QED
  BY <1>1, <1>4, <1>5 DEF RoomForAll

-----------------------------------------------------------------------------
(* One entry more, one less, one elsewhere.                                *)

LEMMA GainEntry ==
    ASSUME Tree, NEW e0, NEW i, i \notin Live, i # Root,
           Entries' = Entries \cup {e0}, e0 \notin Entries,
           \A e \in Entries : Target(e)' = Target(e), Target(e0)' = i,
           Live' = Live \cup {i}
    PROVE  TargetsLive' /\ OneEntry' /\ Named'
<1>1. TargetsLive'
  BY DEF Tree, TargetsLive
<1>2. OneEntry'
  BY DEF Tree, TargetsLive, OneEntry
<1>3. Named'
  BY DEF Tree, Named
<1> QED
  BY <1>1, <1>2, <1>3

LEMMA LoseEntry ==
    ASSUME Tree, NEW e0 \in Entries,
           Entries' = Entries \ {e0},
           \A e \in Entries' : Target(e)' = Target(e),
           Live' = Live \ {Target(e0)}
    PROVE  TargetsLive' /\ OneEntry' /\ Named'
<1>1. TargetsLive'
  BY DEF Tree, TargetsLive, OneEntry
<1>2. OneEntry'
  BY DEF Tree, OneEntry
<1>3. Named'
  BY DEF Tree, Named
<1> QED
  BY <1>1, <1>2, <1>3

LEMMA ShiftEntry ==
    ASSUME Tree, NEW e0 \in Entries, NEW e1, e1 \notin Entries,
           Entries' = (Entries \ {e0}) \cup {e1},
           \A e \in Entries \ {e0} : Target(e)' = Target(e),
           Target(e1)' = Target(e0), Live' = Live
    PROVE  TargetsLive' /\ OneEntry' /\ Named'
<1>1. TargetsLive'
  BY DEF Tree, TargetsLive
<1>2. OneEntry'
  BY DEF Tree, OneEntry
<1>3. Named'
  BY DEF Tree, Named
<1> QED
  BY <1>1, <1>2, <1>3

LEMMA SameEntries ==
    ASSUME Tree, Entries' = Entries,
           \A e \in Entries : Target(e)' = Target(e), Live' = Live
    PROVE  TargetsLive' /\ OneEntry' /\ Named'
<1>1. TargetsLive'
  BY DEF Tree, TargetsLive
<1>2. OneEntry'
  BY DEF Tree, OneEntry
<1>3. Named'
  BY DEF Tree, Named
<1> QED
  BY <1>1, <1>2, <1>3

(***************************************************************************)
(* The same for the links.                                                 *)
(***************************************************************************)
LEMMA GainLink ==
    ASSUME NEW e0, NEW k, Entries' = Entries \cup {e0},
           \A e \in Entries : LinkOf(e)' = LinkOf(e), LinkOf(e0)' = k
    PROVE  Links' = Links \cup {k}
  BY DEF Links

LEMMA LinkEntries ==
    ASSUME Tree, NEW e \in Entries, NEW o \in Entries, LinkOf(e) = LinkOf(o)
    PROVE  e = o
<1>1. Target(e) = Target(o)
  BY DEF LinkOf, Link
<1> QED
  BY <1>1 DEF Tree, OneEntry

LEMMA LoseLink ==
    ASSUME Tree, NEW e0 \in Entries, Entries' = Entries \ {e0},
           \A e \in Entries' : LinkOf(e)' = LinkOf(e)
    PROVE  Links' = Links \ {LinkOf(e0)}
<1>1. \A e \in Entries : e # e0 => LinkOf(e) # LinkOf(e0)
  BY LinkEntries
<1> QED
  BY <1>1 DEF Links

LEMMA ShiftLink ==
    ASSUME Tree, NEW e0 \in Entries, NEW e1, NEW k,
           Entries' = (Entries \ {e0}) \cup {e1},
           \A e \in Entries \ {e0} : LinkOf(e)' = LinkOf(e), LinkOf(e1)' = k,
           e1 \notin Entries \/ e1 = e0
    PROVE  Links' = (Links \ {LinkOf(e0)}) \cup {k}
<1>1. \A e \in Entries : e # e0 => LinkOf(e) # LinkOf(e0)
  BY LinkEntries
<1> QED
  BY <1>1 DEF Links

(***************************************************************************)
(* Writing slot s of directory p changes that slot of that directory only. *)
(***************************************************************************)
LEMMA WriteSlotHere ==
    ASSUME Bound, NEW a \in AreaType, NEW p \in Dirs, NEW s \in Slots, NEW c
    PROVE  LET new == WriteSlot(a, itable[p].blk, s, c)
           IN  /\ new[itable[p].blk][s] = c
               /\ \A d \in Dirs, t \in Slots :
                     d # p \/ t # s => new[itable[d].blk][t] = a[itable[d].blk][t]
<1>1. s < NumInodes /\ s \in BlockSlots
  BY DEF Slots, BlockSlots
<1>2. \A d \in Dirs : /\ itable[d].blk \in Blocks
                      /\ itable[d].blk = itable[p].blk => d = p
  BY DirBlk
<1>3. WriteSlot(a, itable[p].blk, s, c) = [a EXCEPT ![itable[p].blk][s] = c]
  BY <1>1 DEF WriteSlot
<1> QED
  BY <1>1, <1>2, <1>3, SlotsInBlock DEF AreaType

LEMMA WriteBlockElsewhere ==
    ASSUME Bound, NEW a \in AreaType, NEW b, NEW c,
           NEW d \in Dirs, itable[d].blk # b
    PROVE  [a EXCEPT ![b] = c][itable[d].blk] = a[itable[d].blk]
  BY DirBlk DEF AreaType

\* The handlers change the types in the table one inode at a time.
Retyped(i, t) == \A j \in Inos : itable'[j].type = IF j = i THEN t ELSE itable[j].type
TypesSame == \A j \in Inos : itable'[j].type = itable[j].type

\* What the handlers do to the names.
Made(p, n, i, t)   == Retyped(i, t) /\ Links' = Links \cup {Link(p, n, i)}
Unmade(p, n, x)    == Retyped(x, "NONE") /\ Links' = Links \ {Link(p, n, x)}
Renamed(p, n, m, x) == TypesSame /\ Links' = (Links \ {Link(p, n, x)}) \cup {Link(p, m, x)}
Moved(p, n, t, x)  == TypesSame /\ Links' = (Links \ {Link(p, n, x)}) \cup {Link(t, n, x)}
NamesSame          == TypesSame /\ Links' = Links

LEMMA LiveChange ==
    ASSUME NEW i \in Inos, NEW t, Retyped(i, t)
    PROVE  /\ t # "NONE" => Live' = Live \cup {i}
           /\ t = "NONE" => Live' = Live \ {i}
           /\ t = "DIR" => Dirs' = Dirs \cup {i}
           /\ t # "DIR" => Dirs' = Dirs \ {i}
  BY DEF Retyped, Live, Dirs

-----------------------------------------------------------------------------
(* The steps that add an entry.                                            *)

\* mkdir and create put the entry of i into the slot of p they found free.
EntryAdded(p, n, i) ==
    \A d \in Dirs, t \in Slots :
        /\ d = p /\ t = FreeSlot(p) => Slot(d, t)' = Entry(n, i)
        /\ ~(d = p /\ t = FreeSlot(p)) => Slot(d, t)' = Slot(d, t)

LEMMA AddEntry ==
    ASSUME Bound, Tree, NEW p \in Dirs, NEW n, NEW i \in Inos, i \notin Live, i # Root,
           FreeSlot(p) < DirSlots, EntryAdded(p, n, i),
           \/ Retyped(i, "FILE")
           \/ /\ Retyped(i, "DIR")
              /\ \A s \in Slots : s > 1 => Slot(i, s)'.flag # "USED"
              /\ Slot(i, 0)'.flag = "USED" /\ Slot(i, 0)'.name = "."
              /\ Slot(i, 1)'.flag = "USED" /\ Slot(i, 1)'.name = ".."
    PROVE  /\ Dots' /\ TargetsLive' /\ OneEntry' /\ Named'
           /\ Links' = Links \cup {Link(p, n, i)}
<1>0. PICK s0 : s0 = FreeSlot(p)
  OBVIOUS
<1> DEFINE e0 == <<p, s0>>
<1>1. s0 \in Slots /\ s0 > 1 /\ e0 \notin Entries
  BY <1>0, FreeSlotPastDots
<1>2. i \notin Dirs /\ 0 \in Slots /\ 1 \in Slots
  BY DEF Dirs, Live, Slots
<1>3. Live' = Live \cup {i} /\ (Dirs' = Dirs \/ Dirs' = Dirs \cup {i})
  <2>1. CASE Retyped(i, "FILE")
    BY <2>1, <1>2, LiveChange
  <2>2. CASE Retyped(i, "DIR")
    BY <2>2, LiveChange
  <2> QED
    BY <2>1, <2>2
<1>4. \A d \in Dirs' : d \notin Dirs =>
         /\ d = i
         /\ \A s \in Slots : s > 1 => Slot(d, s)'.flag # "USED"
         /\ Slot(d, 0)'.flag = "USED" /\ Slot(d, 0)'.name = "."
         /\ Slot(d, 1)'.flag = "USED" /\ Slot(d, 1)'.name = ".."
  <2>1. CASE Retyped(i, "FILE")
    BY <2>1, <1>2, LiveChange
  <2>2. CASE Retyped(i, "DIR") /\ ~Retyped(i, "FILE")
    BY <2>2, <1>3
  <2> QED
    BY <2>1, <2>2
<1>5. Entries' = Entries \cup {e0}
  <2>1. \A d \in Dirs, t \in Slots :
           Slot(d, t)'.flag = "USED" <=> Slot(d, t).flag = "USED" \/ <<d, t>> = e0
    BY <1>0 DEF EntryAdded, Entry
  <2> QED
    BY <2>1, <1>1, <1>3, <1>4 DEF Entries
<1>6. \A e \in Entries : Slot(e[1], e[2])' = Slot(e[1], e[2])
  BY <1>0, <1>1 DEF Entries, EntryAdded
<1>7. Slot(p, s0)' = Entry(n, i)
  BY <1>0, <1>1 DEF EntryAdded
<1>8. TargetsLive' /\ OneEntry' /\ Named'
  <2>1. Target(e0)' = i /\ \A e \in Entries : Target(e)' = Target(e)
    BY <1>6, <1>7 DEF Target, Entry
  <2> QED
    BY <2>1, <1>1, <1>3, <1>5, GainEntry
<1>10. Links' = Links \cup {Link(p, n, i)}
  <2>1. /\ LinkOf(e0)' = Link(p, n, i)
        /\ \A e \in Entries : LinkOf(e)' = LinkOf(e)
    BY <1>6, <1>7 DEF LinkOf, Target, Entry
  <2> QED
    BY <2>1, <1>5, GainLink
<1>9. Dots'
  <2>1. \A d \in Dirs : Slot(d, 0)' = Slot(d, 0) /\ Slot(d, 1)' = Slot(d, 1)
    BY <1>0, <1>1, <1>2 DEF EntryAdded
  <2> QED
    BY <2>1, <1>4 DEF Tree, Dots
<1> QED
  BY <1>8, <1>9, <1>10

LEMMA DirBlockCells ==
    ASSUME NEW i, NEW p
    PROVE  /\ \A s \in Slots : s > 1 => NewDirBlock(i, p)[s].flag # "USED"
           /\ NewDirBlock(i, p)[0] = Entry(".", i) /\ NewDirBlock(i, p)[1] = Entry("..", p)
           /\ NewDirBlock(i, p)[0].flag = "USED" /\ NewDirBlock(i, p)[0].name = "."
           /\ NewDirBlock(i, p)[1].flag = "USED" /\ NewDirBlock(i, p)[1].name = ".."
<1>1. 0 \in Slots /\ 1 \in Slots
  BY DEF Slots
<1>2. \A s \in Slots : NewDirBlock(i, p)[s] = IF s = 0 THEN Entry(".", i)
                                              ELSE IF s = 1 THEN Entry("..", p)
                                              ELSE EmptySlot
  BY SlotsInBlock DEF NewDirBlock, ZeroBlock
<1>3. NewDirBlock(i, p)[0] = Entry(".", i) /\ NewDirBlock(i, p)[1] = Entry("..", p)
  BY <1>1, <1>2
<1>4. EmptySlot.flag # "USED"
  BY DEF EmptySlot
<1>5. \A s \in Slots : s > 1 => NewDirBlock(i, p)[s].flag # "USED"
  BY <1>2, <1>4
<1> QED
  BY <1>3, <1>5 DEF Entry

LEMMA MkdirTree ==
    ASSUME RoomForAll, Bound, Tree, NEW p \in Dirs, NEW n \in Names, MkdirDone(p, n)
    PROVE  Tree' /\ Made(p, n, NextIno, "DIR")
<1>0. PICK i, b, s0 : i = NextIno /\ b = NextBlk /\ s0 = FreeSlot(p)
  OBVIOUS
<1> DEFINE a == WriteSlot(area, itable[p].blk, s0, Entry(n, i))
           it == [itable EXCEPT ![i] = DirInode(b)]
<1>1. i \in Inos /\ itable[i].type = "NONE" /\ i = sb.ino /\ i < NumInodes
  BY <1>0, NextInoUnused, NextInoIsHint DEF MkdirDone, Bound, Base
<1>2. b \in Blocks /\ b \notin dbmap
  BY <1>0, NextIsFree DEF MkdirDone, Bound, Base
<1>3. s0 < DirSlots /\ s0 \in Slots /\ p \in Inos
  BY <1>0, <1>1, Room, FreeSlotPastDots DEF RoomToCreate, Dirs
<1>4. itable \in [Inos -> InodeType] /\ area \in AreaType
  BY DEF Bound, Base, Types, TypeOK, AreaType
<1>5. it \in [Inos -> InodeType] /\ itable' = inc_link(it, p)
  BY <1>0, <1>1, <1>2, <1>4, InodeTypes DEF MkdirDone
<1>6. \A j \in Inos : itable'[j].type = it[j].type /\ itable'[j].blk = it[j].blk
  BY <1>3, <1>5, LinkTypes
<1>7. Retyped(i, "DIR")
  BY <1>1, <1>4, <1>6 DEF Retyped, DirInode
<1>8. itable'[i].blk = b /\ \A d \in Dirs : itable'[d].blk = itable[d].blk
  BY <1>1, <1>4, <1>6 DEF DirInode, Dirs
<1>9. a \in AreaType /\ area' = [a EXCEPT ![b] = NewDirBlock(i, p)]
  <2>1. Entry(n, i) \in Cell /\ s0 \in 0..DirSlots
    BY <1>0, <1>1, CellTypes, FreeSlotFinds
  <2> QED
    BY <2>1, <1>0, <1>4, AreaTypes DEF MkdirDone, Bound, Base
<1>10. EntryAdded(p, n, i)
  <2>1. \A d \in Dirs : area'[itable[d].blk] = a[itable[d].blk]
    BY <1>2, <1>9, DirBlk, WriteBlockElsewhere
  <2>2. \A d \in Dirs, t \in Slots :
           a[itable[d].blk][t] = IF d = p /\ t = s0 THEN Entry(n, i) ELSE area[itable[d].blk][t]
    BY <1>3, <1>4, WriteSlotHere
  <2>3. \A d \in Dirs, t \in Slots :
           Slot(d, t)' = IF d = p /\ t = s0 THEN Entry(n, i) ELSE Slot(d, t)
    BY <2>1, <2>2, <1>8 DEF Slot
  <2> QED
    BY <2>3, <1>0 DEF EntryAdded
<1>11. \A s \in Slots : Slot(i, s)' = NewDirBlock(i, p)[s]
  BY <1>2, <1>8, <1>9 DEF Slot, AreaType
<1>12. /\ \A s \in Slots : s > 1 => NewDirBlock(i, p)[s].flag # "USED"
       /\ NewDirBlock(i, p)[0].flag = "USED" /\ NewDirBlock(i, p)[0].name = "."
       /\ NewDirBlock(i, p)[1].flag = "USED" /\ NewDirBlock(i, p)[1].name = ".."
  BY DirBlockCells
<1>13. Dots' /\ TargetsLive' /\ OneEntry' /\ Named' /\ Links' = Links \cup {Link(p, n, i)}
  <2>1. i \notin Live /\ i # Root /\ 0 \in Slots /\ 1 \in Slots
    BY <1>1 DEF Live, Slots, Bound, Base, Numbers, HintsKept, Types, TypeOK, SbType
  <2> QED
    BY <2>1, <1>0, <1>1, <1>3, <1>7, <1>10, <1>11, <1>12, AddEntry
<1>14. OneLink'
  <2>1. \A j \in Files' : j # i /\ j # p /\ j \in Files
    BY <1>1, <1>7 DEF Files, Dirs, Retyped
  <2>2. \A j \in Inos : j # p => itable'[j] = it[j]
    BY <1>5 DEF inc_link
  <2> QED
    BY <2>1, <2>2, <1>4 DEF Tree, OneLink, Files
<1> QED
  BY <1>0, <1>7, <1>13, <1>14 DEF Tree, Made

LEMMA CreateTree ==
    ASSUME RoomForAll, Bound, Tree, NEW p \in Dirs, NEW n \in Names, CreateDone(p, n)
    PROVE  Tree' /\ Made(p, n, NextIno, "FILE")
<1>0. PICK i, s0 : i = NextIno /\ s0 = FreeSlot(p)
  OBVIOUS
<1>1. i \in Inos /\ itable[i].type = "NONE" /\ i = sb.ino /\ i < NumInodes
  BY <1>0, NextInoUnused, NextInoIsHint DEF CreateDone, Bound, Base
<1>2. s0 < DirSlots /\ s0 \in Slots /\ p \in Inos
  BY <1>0, <1>1, Room, FreeSlotPastDots DEF RoomToCreate, Dirs
<1>3. itable \in [Inos -> InodeType] /\ area \in AreaType
  BY DEF Bound, Base, Types, TypeOK, AreaType
<1>4. itable' = [itable EXCEPT ![i] = FileInode]
  BY <1>0 DEF CreateDone
<1>5. Retyped(i, "FILE")
  BY <1>1, <1>3, <1>4 DEF Retyped, FileInode
<1>6. \A d \in Dirs : itable'[d].blk = itable[d].blk
  BY <1>1, <1>3, <1>4 DEF Dirs
<1>7. EntryAdded(p, n, i)
  <2>1. \A d \in Dirs, t \in Slots : area'[itable[d].blk][t] =
           IF d = p /\ t = s0 THEN Entry(n, i) ELSE area[itable[d].blk][t]
    BY <1>0, <1>2, <1>3, WriteSlotHere DEF CreateDone
  <2>2. \A d \in Dirs, t \in Slots :
           Slot(d, t)' = IF d = p /\ t = s0 THEN Entry(n, i) ELSE Slot(d, t)
    BY <2>1, <1>6 DEF Slot
  <2> QED
    BY <2>2, <1>0 DEF EntryAdded
<1>8. Dots' /\ TargetsLive' /\ OneEntry' /\ Named' /\ Links' = Links \cup {Link(p, n, i)}
  <2>1. i \notin Live /\ i # Root
    BY <1>1 DEF Live, Bound, Base, Numbers, HintsKept, Types, TypeOK, SbType
  <2> QED
    BY <2>1, <1>0, <1>1, <1>2, <1>5, <1>7, AddEntry
<1>9. OneLink'
  BY <1>1, <1>3, <1>4 DEF Tree, OneLink, Files, FileInode
<1> QED
  BY <1>0, <1>5, <1>8, <1>9 DEF Tree, Made

-----------------------------------------------------------------------------
(* The steps that remove an entry.                                         *)

(***************************************************************************)
(* Flagging the looked-up entry leaves all other slots alone.              *)
(***************************************************************************)
LEMMA DeleteSlotHere ==
    ASSUME Bound, NEW a \in AreaType, NEW p \in Dirs, NEW s \in Slots
    PROVE  LET new == DeleteSlot(a, p, s)
           IN  /\ new[itable[p].blk][s].flag # "USED"
               /\ \A d \in Dirs, t \in Slots :
                     d # p \/ t # s => new[itable[d].blk][t] = a[itable[d].blk][t]
<1>1. Slot(p, s) \in Cell
  BY SlotType DEF Bound, Base
<1>2. PICK c : c = [Slot(p, s) EXCEPT !.flag = "DELETED"]
  OBVIOUS
<1>3. c.flag # "USED"
  BY <1>1, <1>2 DEF Cell
<1>4. PICK new : new = WriteSlot(a, itable[p].blk, s, c)
  OBVIOUS
<1>5. /\ new[itable[p].blk][s] = c
      /\ \A d \in Dirs, t \in Slots :
            d # p \/ t # s => new[itable[d].blk][t] = a[itable[d].blk][t]
  BY <1>4, WriteSlotHere
<1>6. DeleteSlot(a, p, s) = new
  BY <1>2, <1>4 DEF DeleteSlot
<1> QED
  BY <1>3, <1>5, <1>6

\* rmdir and unlink flag the entry e0 and nothing else that remains.
EntryDropped(p, s) ==
    \A d \in Dirs, t \in Slots :
        d \in Dirs' => /\ d = p /\ t = s => Slot(d, t)'.flag # "USED"
                       /\ ~(d = p /\ t = s) => Slot(d, t)' = Slot(d, t)

LEMMA DropEntry ==
    ASSUME Bound, Tree, NEW p \in Dirs, NEW n \in Names, Found(p, n),
           NEW x, x = Child(p, n), NEW s, s = LookupSlot(p, n),
           EntryDropped(p, s), Retyped(x, "NONE"),
           \A t \in Slots : t > 1 => <<x, t>> \notin Entries
    PROVE  /\ Dots' /\ TargetsLive' /\ OneEntry' /\ Named'
           /\ Links' = Links \ {Link(p, n, x)}
<1> DEFINE e0 == <<p, s>>
<1>1. e0 \in Entries /\ Target(e0) = x /\ x \in Live
  BY LookupEntry
<1>2. x \in Inos /\ s \in Slots /\ s > 1
  BY <1>1 DEF Live, Entries
<1>3. Live' = Live \ {x} /\ Dirs' = Dirs \ {x}
  BY <1>2, LiveChange
<1>4. p # x
  BY <1>1, <1>2
<1>5. Entries' = Entries \ {e0}
  <2>1. \A d \in Dirs', t \in Slots :
           Slot(d, t)'.flag = "USED" <=> Slot(d, t).flag = "USED" /\ <<d, t>> # e0
    BY <1>3 DEF EntryDropped
  <2>2. \A e \in Entries : e[1] # x
    BY DEF Entries
  <2> QED
    BY <2>1, <2>2, <1>3 DEF Entries
<1>6. \A e \in Entries' : Target(e)' = Target(e) /\ LinkOf(e)' = LinkOf(e)
  <2> SUFFICES ASSUME NEW e \in Entries'
               PROVE  Target(e)' = Target(e) /\ LinkOf(e)' = LinkOf(e)
    OBVIOUS
  <2>1. e[1] \in Dirs' /\ e[2] \in Slots /\ e # e0 /\ e = <<e[1], e[2]>>
    BY <1>5 DEF Entries
  <2>2. Slot(e[1], e[2])' = Slot(e[1], e[2])
    BY <2>1, <1>3 DEF EntryDropped
  <2> QED
    BY <2>2 DEF Target, LinkOf
<1>7. TargetsLive' /\ OneEntry' /\ Named'
  BY <1>1, <1>3, <1>5, <1>6, LoseEntry
<1>8. Dots'
  <2>1. \A d \in Dirs' : d \in Dirs /\ Slot(d, 0)' = Slot(d, 0) /\ Slot(d, 1)' = Slot(d, 1)
    BY <1>2, <1>3 DEF EntryDropped, Slots
  <2> QED
    BY <2>1 DEF Tree, Dots
<1>9. LinkOf(e0) = Link(p, n, x)
  BY <1>1, LookupFinds DEF LinkOf
<1>10. Links' = Links \ {Link(p, n, x)}
  BY <1>1, <1>5, <1>6, <1>9, LoseLink
<1> QED
  BY <1>7, <1>8, <1>10

LEMMA RmdirTree ==
    ASSUME Bound, Tree, NEW p \in Dirs, NEW n \in Names, Rmdir(p, n)
    PROVE  Tree' /\ Unmade(p, n, Child(p, n))
<1>0. PICK x, s : x = Child(p, n) /\ s = LookupSlot(p, n)
  OBVIOUS
<1>11. PICK z : z = [area EXCEPT ![itable[x].blk] = ZeroBlock]
  OBVIOUS
<1> DEFINE it == [itable EXCEPT ![x] = ZeroInode]
<1>1. /\ Found(p, n) /\ x \in Dirs /\ x \in Inos /\ p \in Inos
      /\ itable \in [Inos -> InodeType] /\ area \in AreaType
  BY <1>0 DEF Rmdir, Dirs, Bound, Base, Types, TypeOK, AreaType
<1>2. s \in Slots
  BY <1>0, <1>1, LookupFinds
<1>3. it \in [Inos -> InodeType] /\ itable' = dec_link(it, p)
  BY <1>0, <1>1, InodeTypes DEF Rmdir
<1>4. \A j \in Inos : itable'[j].type = it[j].type /\ itable'[j].blk = it[j].blk
  BY <1>1, <1>3, LinkTypes
<1>5. Retyped(x, "NONE")
  BY <1>1, <1>4 DEF Retyped, ZeroInode
<1>6. \A d \in Dirs' : d \in Dirs /\ d # x /\ itable'[d].blk = itable[d].blk
  BY <1>1, <1>4, <1>5 DEF Retyped, Dirs
<1>7. \A t \in Slots : t > 1 => <<x, t>> \notin Entries
  <2>1. UsedSlots(x) \subseteq {0, 1}
    BY <1>0 DEF Rmdir, Deletable
  <2> QED
    BY <2>1 DEF Entries, UsedSlots
<1>8. EntryDropped(p, s)
  <2>1. z \in AreaType /\ area' = DeleteSlot(z, p, s)
    BY <1>0, <1>11, <1>1, CellTypes DEF Rmdir, AreaType
  <2>2. \A d \in Dirs : d # x => z[itable[d].blk] = area[itable[d].blk]
    <3>1. \A d \in Dirs : d # x => itable[d].blk # itable[x].blk
      BY <1>1, DirBlk
    <3> QED
      BY <1>11, <1>1, <3>1, WriteBlockElsewhere
  <2>3. /\ area'[itable[p].blk][s].flag # "USED"
        /\ \A d \in Dirs, t \in Slots :
              d # p \/ t # s => area'[itable[d].blk][t] = z[itable[d].blk][t]
    BY <1>2, <2>1, DeleteSlotHere
  <2> QED
    BY <1>6, <2>2, <2>3 DEF EntryDropped, Slot
<1>9. Dots' /\ TargetsLive' /\ OneEntry' /\ Named' /\ Links' = Links \ {Link(p, n, x)}
  BY <1>0, <1>1, <1>5, <1>7, <1>8, DropEntry
<1>10. OneLink'
  <2>1. \A j \in Files' : j # x /\ j # p /\ j \in Files
    BY <1>1, <1>5 DEF Files, Dirs, Retyped
  <2>2. \A j \in Inos : j # p => itable'[j] = it[j]
    BY <1>3 DEF dec_link
  <2> QED
    BY <2>1, <2>2, <1>1 DEF Tree, OneLink, Files
<1> QED
  BY <1>0, <1>5, <1>9, <1>10 DEF Tree, Unmade

LEMMA UnlinkTree ==
    ASSUME Bound, Tree, NEW p \in Dirs, NEW n \in Names, Unlink(p, n)
    PROVE  Tree' /\ Unmade(p, n, Child(p, n))
<1>0. PICK x, s : x = Child(p, n) /\ s = LookupSlot(p, n)
  OBVIOUS
<1>10. PICK z : z = [area EXCEPT ![itable[x].blk] = ZeroBlock]
  OBVIOUS
<1>1. /\ Found(p, n) /\ x \in Files /\ x \in Inos /\ x \notin Dirs /\ p \in Inos
      /\ itable \in [Inos -> InodeType] /\ area \in AreaType
  BY <1>0 DEF Unlink, Files, Dirs, Bound, Base, Types, TypeOK, AreaType
<1>2. s \in Slots
  BY <1>0, <1>1, LookupFinds
<1>3. itable' = [itable EXCEPT ![x] = ZeroInode]
  BY <1>0 DEF Unlink
<1>4. Retyped(x, "NONE")
  BY <1>1, <1>3 DEF Retyped, ZeroInode
<1>5. \A d \in Dirs : itable'[d].blk = itable[d].blk
  BY <1>1, <1>3 DEF Dirs
<1>6. \A t \in Slots : t > 1 => <<x, t>> \notin Entries
  BY <1>1 DEF Entries
<1>7. EntryDropped(p, s)
  <2>1. CASE itable[x].size = 0
    <3>1. area' = DeleteSlot(area, p, s)
      BY <1>0, <2>1 DEF Unlink
    <3>2. /\ area'[itable[p].blk][s].flag # "USED"
          /\ \A d \in Dirs, t \in Slots :
                d # p \/ t # s => area'[itable[d].blk][t] = area[itable[d].blk][t]
      BY <1>1, <1>2, <3>1, DeleteSlotHere
    <3> QED
      BY <1>5, <3>2 DEF EntryDropped, Slot
  <2>2. CASE itable[x].size # 0
    <3>1. x \in Own(itable)
      BY <1>1, <2>2 DEF Own, Files, InodeType
    <3>2. z \in AreaType /\ area' = DeleteSlot(z, p, s)
      BY <1>0, <1>10, <1>1, <2>2, CellTypes DEF Unlink, AreaType
    <3>3. \A d \in Dirs : z[itable[d].blk] = area[itable[d].blk]
      <4>1. \A d \in Dirs : itable[d].blk # itable[x].blk
        BY <1>1, <3>1, DirBlk
      <4> QED
        BY <1>10, <1>1, <4>1, WriteBlockElsewhere
    <3>4. /\ area'[itable[p].blk][s].flag # "USED"
          /\ \A d \in Dirs, t \in Slots :
                d # p \/ t # s => area'[itable[d].blk][t] = z[itable[d].blk][t]
      BY <1>2, <3>2, DeleteSlotHere
    <3> QED
      BY <1>5, <3>3, <3>4 DEF EntryDropped, Slot
  <2> QED
    BY <2>1, <2>2
<1>8. Dots' /\ TargetsLive' /\ OneEntry' /\ Named' /\ Links' = Links \ {Link(p, n, x)}
  BY <1>0, <1>1, <1>4, <1>6, <1>7, DropEntry
<1>9. OneLink'
  BY <1>1, <1>3 DEF Tree, OneLink, Files, ZeroInode
<1> QED
  BY <1>0, <1>4, <1>8, <1>9 DEF Tree, Unmade

-----------------------------------------------------------------------------
(* The steps that keep the number of entries.                              *)

LEMMA InPlaceTree ==
    ASSUME Bound, Tree, NEW p \in Dirs, NEW n \in Names, NEW m \in Names,
           RenameInPlace(p, n, m)
    PROVE  Tree' /\ Renamed(p, n, m, Child(p, n))
<1>0. PICK s, c : s = LookupSlot(p, n) /\ c = [Slot(p, s) EXCEPT !.name = m]
  OBVIOUS
<1>1. s \in Slots /\ <<p, s>> \in Entries /\ s > 1 /\ area \in AreaType
  BY <1>0, LookupFinds, LookupEntry
     DEF RenameInPlace, Entries, Bound, Base, Types, TypeOK, AreaType
<1>2. c.flag = Slot(p, s).flag /\ c.ino = Slot(p, s).ino /\ c.name = m
  <2>1. Slot(p, s) \in Cell
    BY <1>1, SlotType DEF Bound, Base
  <2> QED
    BY <1>0, <2>1 DEF Cell
<1>3. itable' = itable /\ area' = WriteSlot(area, itable[p].blk, s, c)
  BY <1>0 DEF RenameInPlace, mem
<1>4. /\ area'[itable[p].blk][s] = c
      /\ \A d \in Dirs, t \in Slots :
            d # p \/ t # s => area'[itable[d].blk][t] = area[itable[d].blk][t]
  BY <1>1, <1>3, WriteSlotHere
<1>5. Dirs' = Dirs /\ Live' = Live /\ Files' = Files
  BY <1>3 DEF Dirs, Live, Files
<1>6. \A d \in Dirs, t \in Slots :
         /\ Slot(d, t)'.flag = Slot(d, t).flag
         /\ Slot(d, t)'.ino = Slot(d, t).ino
         /\ t # s => Slot(d, t)' = Slot(d, t)
  BY <1>2, <1>3, <1>4 DEF Slot
<1>7. Entries' = Entries /\ \A e \in Entries : Target(e)' = Target(e)
  BY <1>5, <1>6 DEF Entries, Target
<1>8. Dots'
  <2>1. \A d \in Dirs : Slot(d, 0)' = Slot(d, 0) /\ Slot(d, 1)' = Slot(d, 1)
    BY <1>1, <1>6 DEF Slots
  <2> QED
    BY <2>1, <1>5 DEF Tree, Dots
<1>9. Links' = (Links \ {Link(p, n, Child(p, n))}) \cup {Link(p, m, Child(p, n))}
  <2>1. \A e \in Entries \ {<<p, s>>} : LinkOf(e)' = LinkOf(e)
    <3> SUFFICES ASSUME NEW e \in Entries \ {<<p, s>>} PROVE LinkOf(e)' = LinkOf(e)
      OBVIOUS
    <3>1. e[1] \in Dirs /\ e[2] \in Slots /\ (e[1] # p \/ e[2] # s)
      BY DEF Entries
    <3>2. Slot(e[1], e[2])' = Slot(e[1], e[2])
      BY <3>1, <1>3, <1>4 DEF Slot
    <3> QED
      BY <3>2 DEF LinkOf, Target
  <2>2. LinkOf(<<p, s>>) = Link(p, n, Child(p, n))
    BY <1>0, LookupFinds, LookupEntry DEF RenameInPlace, LinkOf
  <2>3. Slot(p, s)' = c
    BY <1>3, <1>4 DEF Slot
  <2>4. LinkOf(<<p, s>>)' = Link(p, m, Child(p, n))
    BY <2>3, <1>0, <1>2 DEF LinkOf, Target, Child
  <2>5. Entries' = (Entries \ {<<p, s>>}) \cup {<<p, s>>}
    BY <1>1, <1>7
  <2> QED
    BY <2>1, <2>2, <2>4, <2>5, <1>1, ShiftLink
<1> QED
  BY <1>3, <1>5, <1>7, <1>8, <1>9, SameEntries DEF Tree, OneLink, Renamed, TypesSame

LEMMA MoveTree ==
    ASSUME RoomForAll, Bound, Tree, NEW p \in Dirs, NEW t \in Dirs, NEW n \in Names,
           p # t, Found(p, n), MoveEntry(p, n, t)
    PROVE  Tree' /\ Moved(p, n, t, Child(p, n))
<1>0. PICK s, f, c : s = LookupSlot(p, n) /\ f = FreeSlot(t) /\ c = Slot(p, s)
  OBVIOUS
<1> DEFINE e0 == <<p, s>>
           e1 == <<t, f>>
<1>1. /\ s \in Slots /\ e0 \in Entries /\ s > 1 /\ area \in AreaType
      /\ c.flag = "USED" /\ c \in Cell /\ c.ino = Target(e0)
  BY <1>0, LookupFinds, LookupEntry, SlotType
     DEF Entries, Bound, Base, Types, TypeOK, AreaType, Target
<1>2. f < DirSlots /\ f \in Slots /\ f > 1 /\ e1 \notin Entries
  BY <1>0, RoomToMove, FreeSlotPastDots
<1>3. PICK a : a = WriteSlot(area, itable[t].blk, f, c)
  OBVIOUS
<1>4. a \in AreaType
  BY <1>1, <1>2, <1>3, AreaTypes DEF Bound, Base, Slots
<1>5. itable' = itable /\ area' = DeleteSlot(a, p, s)
  BY <1>0, <1>2, <1>3 DEF MoveEntry, mem
<1>6. /\ a[itable[t].blk][f] = c
      /\ \A d \in Dirs, u \in Slots :
            d # t \/ u # f => a[itable[d].blk][u] = area[itable[d].blk][u]
  BY <1>1, <1>2, <1>3, WriteSlotHere
<1>7. /\ area'[itable[p].blk][s].flag # "USED"
      /\ \A d \in Dirs, u \in Slots :
            d # p \/ u # s => area'[itable[d].blk][u] = a[itable[d].blk][u]
  BY <1>1, <1>4, <1>5, DeleteSlotHere
<1>8. /\ Slot(t, f)' = c
      /\ Slot(p, s)'.flag # "USED"
      /\ \A d \in Dirs, u \in Slots :
            (d # t \/ u # f) /\ (d # p \/ u # s) => Slot(d, u)' = Slot(d, u)
  BY <1>2, <1>5, <1>6, <1>7 DEF Slot
<1>9. Dirs' = Dirs /\ Live' = Live /\ Files' = Files
  BY <1>5 DEF Dirs, Live, Files
<1>10. Entries' = (Entries \ {e0}) \cup {e1}
  <2>1. \A d \in Dirs, u \in Slots :
           Slot(d, u)'.flag = "USED" <=> \/ <<d, u>> = e1
                                         \/ Slot(d, u).flag = "USED" /\ <<d, u>> # e0
    BY <1>1, <1>8
  <2> QED
    BY <2>1, <1>2, <1>9 DEF Entries
<1>11. \A e \in Entries \ {e0} : Target(e)' = Target(e)
  BY <1>2, <1>8 DEF Entries, Target
<1>12. Target(e1)' = Target(e0)
  BY <1>1, <1>8 DEF Target
<1>13. TargetsLive' /\ OneEntry' /\ Named'
  BY <1>1, <1>2, <1>9, <1>10, <1>11, <1>12, ShiftEntry
<1>14. Dots'
  <2>1. \A d \in Dirs : Slot(d, 0)' = Slot(d, 0) /\ Slot(d, 1)' = Slot(d, 1)
    BY <1>1, <1>2, <1>8 DEF Slots
  <2> QED
    BY <2>1, <1>9 DEF Tree, Dots
<1>15. Links' = (Links \ {Link(p, n, Child(p, n))}) \cup {Link(t, n, Child(p, n))}
  <2>1. \A e \in Entries \ {e0} : LinkOf(e)' = LinkOf(e)
    BY <1>2, <1>8 DEF Entries, LinkOf, Target
  <2>2. LinkOf(e0) = Link(p, n, Child(p, n))
    BY <1>0, LookupFinds, LookupEntry DEF LinkOf
  <2>3. LinkOf(e1)' = Link(t, n, Child(p, n))
    BY <1>0, <1>8, LookupFinds DEF LinkOf, Target, Child
  <2> QED
    BY <2>1, <2>2, <2>3, <1>1, <1>2, <1>10, ShiftLink
<1> QED
  BY <1>5, <1>9, <1>13, <1>14, <1>15 DEF Tree, OneLink, Moved, TypesSame

LEMMA WriteTree ==
    ASSUME Bound, Tree, NEW h \in Fids, Write(h)
    PROVE  Tree' /\ NamesSame
<1> DEFINE node == itable[file_table[h]]
<1>1. /\ itable \in [Inos -> InodeType] /\ area \in AreaType
      /\ file_table[h] \in Inos /\ node.type # "DIR"
      /\ WriteHome(h) \in Inos /\ itable[0].type = "NONE"
  BY DEF Bound, Base, Types, TypeOK, AreaType, BlockUse, HandlesOfFiles, WriteHome,
         Numbers, LiveKept, Inos
<1>2. PICK nd \in InodeType :
         /\ itable' = [itable EXCEPT ![WriteHome(h)] = nd]
         /\ nd.type = node.type /\ nd.links = node.links
  BY WriteEffect DEF Bound, Base
<1>3. \A j \in Inos : itable'[j].type = itable[j].type
  BY <1>1, <1>2 DEF WriteHome
<1>4. Dirs' = Dirs /\ Live' = Live /\ Files' = Files
  BY <1>3 DEF Dirs, Live, Files
<1>5. \A d \in Dirs : itable'[d] = itable[d]
  BY <1>1, <1>2 DEF WriteHome, Dirs
<1>6. \A d \in Dirs : area'[itable[d].blk] = area[itable[d].blk]
  <2>1. CASE node.size = 0
    <3>1. PICK b : b = NextBlk /\ b \in Blocks /\ b \notin dbmap
                   /\ area' = WriteSlot(area, b, 0, DataSlot)
      BY <2>1, NextIsFree DEF Write, Bound, Base
    <3>2. area' = [area EXCEPT ![b][0] = DataSlot]
      BY <3>1 DEF WriteSlot
    <3>3. \A d \in Dirs : itable[d].blk # b /\ itable[d].blk \in Blocks
      BY <3>1, DirBlk
    <3> QED
      BY <1>1, <3>2, <3>3 DEF AreaType
  <2>2. CASE node.size # 0
    <3>1. node.type # "NONE" /\ file_table[h] \in Own(itable)
      BY <1>1, <2>2 DEF Write, Bound, BlockUse, FreedEmpty, Own, InodeType
    <3>2. PICK b, c : b = node.blk /\ area' = [area EXCEPT ![b] = c]
      BY <2>2 DEF Write
    <3>3. \A d \in Dirs : itable[d].blk # b
      BY <1>1, <3>1, <3>2, DirBlk DEF Dirs
    <3> QED
      BY <1>1, <3>2, <3>3, WriteBlockElsewhere
  <2> QED
    BY <2>1, <2>2
<1>7. \A d \in Dirs, u \in Slots : Slot(d, u)' = Slot(d, u)
  BY <1>5, <1>6 DEF Slot
<1>8. Entries' = Entries /\ \A e \in Entries : Target(e)' = Target(e)
  BY <1>4, <1>7 DEF Entries, Target
<1>9. Dots'
  BY <1>4, <1>7 DEF Tree, Dots, Slots
<1>10. OneLink'
  <2>1. \A j \in Inos : j \in Files => itable'[j].links = itable[j].links
    BY <1>1, <1>2 DEF WriteHome, Files
  <2> QED
    BY <2>1, <1>4 DEF Tree, OneLink, Files
<1>11. Links' = Links
  BY <1>7, <1>8 DEF Links, LinkOf, Target, Entries
<1> QED
  BY <1>3, <1>4, <1>8, <1>9, <1>10, <1>11, SameEntries DEF Tree, NamesSame, TypesSame

LEMMA RestTree ==
    ASSUME Bound, Tree,
           \/ OpenStep \/ StillStep \/ MkdirNoBlock \/ Restart
           \/ \E f \in Fids : Release(f)
    PROVE  Tree' /\ NamesSame
<1>1. itable' = itable
  BY DEF OpenStep, StillStep, Open, NoInode, WriteNoBlock, MkdirNoBlock, Release, Restart,
         vars, mem, Bound, Base, Stored
<1>2. area' = area
  BY DEF OpenStep, StillStep, Open, NoInode, WriteNoBlock, MkdirNoBlock, Release, Restart,
         vars, mem
<1>3. Dirs' = Dirs /\ Live' = Live /\ Files' = Files
  BY <1>1 DEF Dirs, Live, Files
<1>4. \A d, s : Slot(d, s)' = Slot(d, s)
  BY <1>1, <1>2 DEF Slot
<1>5. Entries' = Entries
  BY <1>3, <1>4 DEF Entries
<1>6. \A e : Target(e)' = Target(e)
  BY <1>4 DEF Target
<1>7. Dots'
  BY <1>3, <1>4 DEF Tree, Dots
<1>8. TargetsLive' /\ OneEntry' /\ Named'
  BY <1>3, <1>5, <1>6 DEF Tree, TargetsLive, OneEntry, Named
<1>9. OneLink'
  BY <1>1, <1>3 DEF Tree, OneLink
<1>10. Links' = Links
  BY <1>4, <1>5, <1>6 DEF Links, LinkOf
<1> QED
  BY <1>1, <1>7, <1>8, <1>9, <1>10 DEF Tree, NamesSame, TypesSame

LEMMA FormatNames ==
    ASSUME Init
    PROVE  Entries = {} /\ Dirs = {Root} /\ Live = {Root} /\ Files = {} /\ Dots
<1>1. itable = FormatItable /\ area = FormatArea
  BY DEF Init, Loaded, FormatDisk
<1>2. /\ Root \in Inos
      /\ \A i \in Inos : itable[i] = IF i = Root THEN DirInode(0) ELSE ZeroInode
  BY <1>1 DEF FormatItable, Inos
<1>3. Dirs = {Root} /\ Live = {Root} /\ Files = {} /\ itable[Root].blk = 0
  BY <1>2 DEF Dirs, Live, Files, DirInode, ZeroInode
<1>4. \A s \in Slots : Slot(Root, s) = NewDirBlock(Root, Root)[s]
  BY <1>1, <1>3 DEF Slot, FormatArea, Blocks
<1>5. Entries = {}
  BY <1>3, <1>4, DirBlockCells DEF Entries
<1>6. Dots
  BY <1>3, <1>4, DirBlockCells DEF Dots, Slots
<1> QED
  BY <1>3, <1>5, <1>6

LEMMA TreeInit == Init => Tree
  BY FormatNames DEF Tree, TargetsLive, OneEntry, Named, OneLink

LEMMA TreeStep ==
    ASSUME RoomForAll, Bound, Tree, [Next]_vars
    PROVE  Tree'
<1>1. CASE MkdirStep
  BY <1>1, MkdirTree DEF MkdirStep
<1>2. CASE RmdirStep
  BY <1>2, RmdirTree DEF RmdirStep
<1>3. CASE CreateStep
  BY <1>3, CreateTree DEF CreateStep
<1>4. CASE UnlinkStep
  BY <1>4, UnlinkTree DEF UnlinkStep
<1>5. CASE InPlaceStep
  BY <1>5, InPlaceTree DEF InPlaceStep
<1>6. CASE MoveStep
  BY <1>6, MoveTree DEF MoveStep
<1>7. CASE HandleStep
  BY <1>7, WriteTree, RestTree DEF HandleStep
<1>8. CASE OpenStep \/ StillStep \/ MkdirNoBlock \/ Restart
  BY <1>8, RestTree
<1> QED
  BY <1>1, <1>2, <1>3, <1>4, <1>5, <1>6, <1>7, <1>8, StepCases

-----------------------------------------------------------------------------
(* Theorems.                                                               *)

LEMMA TreeInvariant == ASSUME RoomForAll PROVE Spec => [](Bound /\ Tree)
<1>1. Init => Tree
  BY TreeInit
<1>2. Bound /\ Tree /\ [Next]_vars => Tree'
  BY TreeStep
<1> QED
  BY <1>1, <1>2, BoundInvariant, PTL DEF Spec

(***************************************************************************)
(* No entry dangles, whatever was created, moved, deleted and restarted.   *)
(***************************************************************************)
THEOREM NoDanglingEntry == ASSUME RoomForAll PROVE Spec => []EntriesLive
<1>1. Bound /\ Tree => EntriesLive
  BY LiveRange DEF Tree, TargetsLive, EntriesLive
<1> QED
  BY <1>1, TreeInvariant, PTL

(***************************************************************************)
(* mkdir and create always find the slot they do not check for, because a  *)
(* directory has slots for all the inodes that can be named.               *)
(***************************************************************************)
THEOREM AlwaysRoom == ASSUME RoomForAll PROVE Spec => []RoomToCreate
<1>1. Bound /\ Tree => RoomToCreate
  BY Room
<1> QED
  BY <1>1, TreeInvariant, PTL

(***************************************************************************)
(* Every inode but the root has one entry, and every file one link.        *)
(***************************************************************************)
THEOREM OneNameEach == ASSUME RoomForAll PROVE Spec => []OneEntryEach
<1>1. Bound /\ Tree => OneEntryEach
  <2> SUFFICES ASSUME Bound, Tree PROVE OneEntryEach
    OBVIOUS
  <2>1. ASSUME NEW i \in Live \ {Root}
        PROVE  Cardinality({e \in Entries : Target(e) = i}) = 1
    <3>1. PICK e0 \in Entries : Target(e0) = i
      BY <2>1 DEF Tree, Named
    <3>2. {e \in Entries : Target(e) = i} = {e0}
      BY <3>1 DEF Tree, OneEntry
    <3> QED
      BY <3>2, FS_Singleton
  <2> QED
    BY <2>1 DEF OneEntryEach, Tree, OneLink
<1> QED
  BY <1>1, TreeInvariant, PTL

-----------------------------------------------------------------------------
(* The links as a graph.                                                   *)

EdgesOf(L) == {<<l.dir, l.node>> : l \in L}

\* What the links lead to from the inodes of S, whatever their names.
Reach(S) == Closure(S, EdgesOf(Links))

LEMMA LinkFacts ==
    ASSUME Bound, Tree
    PROVE  /\ \A l \in Links : /\ l = Link(l.dir, l.name, l.node)
                               /\ l.dir \in Dirs /\ l.node \in Live \ {Root}
           /\ \A l, k \in Links : l.node = k.node => l = k
           /\ \A i \in Live \ {Root} : \E l \in Links : l.node = i
           /\ IsFiniteSet(EdgesOf(Links))
           /\ EdgesOf(Links) = {<<e[1], Target(e)>> : e \in Entries}
<1>1. \A e \in Entries : /\ LinkOf(e) = Link(e[1], Slot(e[1], e[2]).name, Target(e))
                         /\ LinkOf(e).dir = e[1] /\ LinkOf(e).node = Target(e)
                         /\ LinkOf(e).name = Slot(e[1], e[2]).name
                         /\ e[1] \in Dirs
  BY DEF LinkOf, Link, Entries
<1>2. \A l \in Links : \E e \in Entries : l = LinkOf(e)
  BY DEF Links
<1>3. \A l \in Links : /\ l = Link(l.dir, l.name, l.node)
                       /\ l.dir \in Dirs /\ l.node \in Live \ {Root}
  BY <1>1, <1>2 DEF Tree, TargetsLive
<1>4. \A l, k \in Links : l.node = k.node => l = k
  BY <1>1, <1>2 DEF Tree, OneEntry
<1>5. \A i \in Live \ {Root} : \E l \in Links : l.node = i
  BY <1>1 DEF Tree, Named, Links
<1>6. EdgesOf(Links) = {<<e[1], Target(e)>> : e \in Entries}
  BY <1>1 DEF EdgesOf, Links
<1>7. IsFiniteSet(EdgesOf(Links))
  <2>1. IsFiniteSet(Inos)
    <3>1. 0 \in Int /\ NumInodes - 1 \in Int
      OBVIOUS
    <3> QED
      BY <3>1, FS_Interval DEF Inos
  <2>2. EdgesOf(Links) \subseteq Inos \X Inos
    BY <1>3 DEF EdgesOf, Dirs, Live
  <2>3. IsFiniteSet(Inos \X Inos)
    BY <2>1, FS_Product
  <2> QED
    BY <2>2, <2>3, FS_Subset
<1> QED
  BY <1>3, <1>4, <1>5, <1>6, <1>7

(***************************************************************************)
(* A lookup finds a name where a link has it.                              *)
(***************************************************************************)
LEMMA FoundLink ==
    ASSUME Bound, Tree, NEW d \in Dirs, NEW n \in Names
    PROVE  /\ Found(d, n) => Link(d, n, Child(d, n)) \in Links /\ Child(d, n) \in Live \ {Root}
           /\ (\E l \in Links : l.dir = d /\ l.name = n) => Found(d, n)
<1>1. ASSUME Found(d, n)
      PROVE  Link(d, n, Child(d, n)) \in Links /\ Child(d, n) \in Live \ {Root}
  <2>1. PICK s : s = LookupSlot(d, n) /\ Slot(d, s).name = n
    BY <1>1, LookupFinds
  <2>2. /\ <<d, s>> \in Entries /\ Target(<<d, s>>) = Child(d, n)
        /\ Child(d, n) \in Live \ {Root}
    BY <1>1, <2>1, LookupEntry
  <2>3. LinkOf(<<d, s>>) = Link(d, n, Child(d, n))
    BY <2>1, <2>2 DEF LinkOf
  <2> QED
    BY <2>2, <2>3 DEF Links
<1>2. ASSUME NEW l \in Links, l.dir = d, l.name = n
      PROVE  Found(d, n)
  <2>1. PICK e \in Entries : l = LinkOf(e)
    BY DEF Links
  <2>2. e[1] = d /\ Slot(e[1], e[2]).name = n
    BY <1>2, <2>1 DEF LinkOf, Link
  <2>3. e[2] \in UsedSlots(d) /\ Slot(d, e[2]).name = n
    BY <2>2 DEF Entries, UsedSlots
  <2> QED
    BY <2>3 DEF Found, Hits
<1> QED
  BY <1>1, <1>2

(***************************************************************************)
(* What the links reach from {x} besides x, a link reaches from there.     *)
(***************************************************************************)
LEMMA ReachedBy ==
    ASSUME Bound, Tree, NEW x, NEW y \in Reach({x}), y # x
    PROVE  \E l \in Links : l.dir \in Reach({x}) /\ l.node = y
<1> DEFINE E == EdgesOf(Links)
           D == Reach({x})
           X == {z \in D : z = x \/ \E l \in Links : l.dir \in D /\ l.node = z}
<1>1. {x} \subseteq D /\ ClosedUnder(D, E) /\ \A Y : {x} \subseteq Y /\ ClosedUnder(Y, E) => D \subseteq Y
  BY LinkFacts, ClosureLeast DEF Reach
<1>2. {x} \subseteq X /\ ClosedUnder(X, E)
  BY <1>1 DEF ClosedUnder, EdgesOf
<1>3. D \subseteq X
  <2> HIDE DEF D, E, X
  <2> QED
    BY <1>1, <1>2
<1> QED
  BY <1>3

(***************************************************************************)
(* Walk follows only the entry a lookup of each name finds, Reach all of   *)
(* them, those hidden by an earlier entry of the same name too.  The       *)
(* handlers look before they move a directory with Walk; since every node  *)
(* has one entry, what a path names is not below x by other links either.  *)
(***************************************************************************)
LEMMA WalkSeesAll ==
    ASSUME Bound, Tree, NEW x \in Live \ {Root}, NEW t \in Walk({Root}), t \notin Walk({x})
    PROVE  t \notin Reach({x})
<1> DEFINE P == {q \in Dirs \X Names : Found(q[1], q[2])}
<1>1. PICK W : W = {<<p[1], Child(p[1], p[2])>> : p \in P}
  OBVIOUS
<1>2. PICK E : E = EdgesOf(Links) /\ IsFiniteSet(E)
  BY LinkFacts
<1>3. W \subseteq E
  <2> SUFFICES ASSUME NEW p \in P PROVE <<p[1], Child(p[1], p[2])>> \in E
    BY <1>1
  <2>1. PICK d \in Dirs, n \in Names : p = <<d, n>> /\ Found(d, n)
    OBVIOUS
  <2>2. Link(d, n, Child(d, n)) \in Links
    BY <2>1, FoundLink
  <2> QED
    BY <1>2, <2>1, <2>2 DEF EdgesOf, Link
<1>4. PICK A, B, D : A = Walk({Root}) /\ B = Walk({x}) /\ D = Reach({x})
  OBVIOUS
<1>5. IsFiniteSet(W)
  BY <1>2, <1>3, FS_Subset
<1>6. A = Closure({Root}, W) /\ B = Closure({x}, W) /\ D = Closure({x}, E)
  BY <1>1, <1>2, <1>4 DEF Walk, Reach
<1>7. /\ Root \in A /\ ClosedUnder(A, W)
      /\ \A Y : Root \in Y /\ ClosedUnder(Y, W) => A \subseteq Y
  <2>1. /\ {Root} \subseteq A /\ ClosedUnder(A, W)
        /\ \A Y : {Root} \subseteq Y /\ ClosedUnder(Y, W) => A \subseteq Y
    BY <1>5, <1>6, ClosureLeast
  <2> QED
    BY <2>1
<1>8. x \in B /\ ClosedUnder(B, W)
  <2>1. {x} \subseteq B /\ ClosedUnder(B, W)
    BY <1>5, <1>6, ClosureLeast
  <2> QED
    BY <2>1
<1> DEFINE Z == (A \ D) \cup B
<1>9. Root \notin D
  BY <1>4, ReachedBy, LinkFacts
<1>10. ASSUME NEW e \in W, e[1] \in A \ D, e[2] \notin B PROVE e[2] \in A \ D
  <2>1. e[2] \in A
    BY <1>7, <1>10 DEF ClosedUnder
  <2>2. ASSUME e[2] \in D PROVE FALSE
    <3>1. PICK l \in Links : l.dir \in D /\ l.node = e[2]
      BY <1>4, <1>8, <1>10, <2>2, ReachedBy
    <3>2. PICK k \in Links : k.dir = e[1] /\ k.node = e[2]
      BY <1>2, <1>3 DEF EdgesOf
    <3>3. l = k
      BY <3>1, <3>2, LinkFacts
    <3> QED
      BY <1>10, <3>1, <3>2, <3>3
  <2> QED
    BY <2>1, <2>2
<1>11. Root \in Z /\ ClosedUnder(Z, W)
  BY <1>7, <1>8, <1>9, <1>10 DEF ClosedUnder
<1>12. A \subseteq Z
  BY <1>7, <1>11
<1> QED
  BY <1>4, <1>12

-----------------------------------------------------------------------------
(* One tree.                                                               *)

\* Every set that holds the root and that no link of L leaves holds V.
Spans(L, V) == \A X : Root \in X /\ (\A l \in L : l.dir \in X => l.node \in X) => V \subseteq X

Spanned == Root \in Dirs /\ Spans(Links, Live)

LEMMA SpannedConnected == ASSUME Bound, Tree, Spanned PROVE Connected
<1>1. PICK E, D : E = EdgesOf(Links) /\ D = Closure({Root}, E) /\ IsFiniteSet(E)
  BY LinkFacts
<1>2. /\ {Root} \subseteq D /\ ClosedUnder(D, E)
      /\ \A Y : {Root} \subseteq Y /\ ClosedUnder(Y, E) => D \subseteq Y
  BY <1>1, ClosureLeast
<1>3. Live \subseteq D
  <2>1. ASSUME NEW l \in Links, l.dir \in D PROVE l.node \in D
    <3>1. PICK e \in E : e = <<l.dir, l.node>>
      BY <1>1 DEF EdgesOf
    <3> QED
      BY <1>2, <2>1, <3>1 DEF ClosedUnder
  <2> QED
    BY <1>2, <2>1 DEF Spanned, Spans
<1>4. D \subseteq Live
  <2>1. {Root} \subseteq Live /\ ClosedUnder(Live, E)
    BY <1>1, LinkFacts DEF Spanned, Dirs, Live, ClosedUnder, EdgesOf
  <2> QED
    BY <1>2, <2>1
<1> QED
  BY <1>1, <1>3, <1>4, LinkFacts DEF Connected

LEMMA SpanAdd ==
    ASSUME NEW L, NEW V, NEW p \in V, NEW n, NEW i, Spans(L, V)
    PROVE  Spans(L \cup {Link(p, n, i)}, V \cup {i})
<1> SUFFICES ASSUME NEW X, Root \in X,
                    \A l \in L \cup {Link(p, n, i)} : l.dir \in X => l.node \in X
             PROVE  V \cup {i} \subseteq X
  BY DEF Spans
<1>1. V \subseteq X
  BY DEF Spans
<1>2. p \in X => i \in X
  <2>1. Link(p, n, i).dir = p /\ Link(p, n, i).node = i
    BY DEF Link
  <2> QED
    BY <2>1
<1> QED
  BY <1>1, <1>2

LEMMA SpanDrop ==
    ASSUME NEW L, NEW V, NEW p, NEW n, NEW x, Spans(L, V), \A l \in L : l.dir # x
    PROVE  Spans(L \ {Link(p, n, x)}, V \ {x})
<1> SUFFICES ASSUME NEW X, Root \in X,
                    \A l \in L \ {Link(p, n, x)} : l.dir \in X => l.node \in X
             PROVE  V \ {x} \subseteq X
  BY DEF Spans
<1>1. \A l \in L : l.dir \in X \cup {x} => l.node \in X \cup {x}
  BY DEF Link
<1>2. V \subseteq X \cup {x}
  BY <1>1 DEF Spans
<1> QED
  BY <1>2

LEMMA SpanRename ==
    ASSUME NEW L, NEW V, NEW p, NEW n, NEW m, NEW x, Spans(L, V)
    PROVE  Spans((L \ {Link(p, n, x)}) \cup {Link(p, m, x)}, V)
<1> SUFFICES ASSUME NEW X, Root \in X,
                    \A l \in (L \ {Link(p, n, x)}) \cup {Link(p, m, x)} :
                       l.dir \in X => l.node \in X
             PROVE  V \subseteq X
  BY DEF Spans
<1>1. /\ Link(p, n, x).dir = p /\ Link(p, n, x).node = x
      /\ Link(p, m, x).dir = p /\ Link(p, m, x).node = x
  BY DEF Link
<1>2. \A l \in L : l.dir \in X => l.node \in X
  BY <1>1
<1> QED
  BY <1>2 DEF Spans

(***************************************************************************)
(* What moves to t takes all below it along, and t is still there.         *)
(***************************************************************************)
LEMMA SpanMove ==
    ASSUME NEW L, NEW V, NEW p, NEW n, NEW x, NEW t \in V, Spans(L, V),
           NEW D, x \in D, \A l \in L : l.dir \in D => l.node \in D, t \notin D
    PROVE  Spans((L \ {Link(p, n, x)}) \cup {Link(t, n, x)}, V)
<1> SUFFICES ASSUME NEW X, Root \in X,
                    \A l \in (L \ {Link(p, n, x)}) \cup {Link(t, n, x)} :
                       l.dir \in X => l.node \in X
             PROVE  V \subseteq X
  BY DEF Spans
<1>1. \A l \in L : l.dir \in X \cup D => l.node \in X \cup D
  BY DEF Link
<1>2. t \in X
  BY <1>1 DEF Spans
<1>3. x \in X
  <2>1. Link(t, n, x).dir = t /\ Link(t, n, x).node = x
    BY DEF Link
  <2> QED
    BY <1>2, <2>1
<1>4. \A l \in L : l.dir \in X => l.node \in X
  BY <1>3 DEF Link
<1> QED
  BY <1>4 DEF Spans
-----------------------------------------------------------------------------
(* What each step does to the names, and when.                             *)

\* mkdir, create.
NewStep == \E p \in Dirs, n \in Names, t \in {"DIR", "FILE"} :
              /\ ~Found(p, n) /\ NextIno < NumInodes
              /\ Made(p, n, NextIno, t) /\ disk'.sb.ino = NextIno + 1

\* rmdir, unlink.
OldStep == \E p \in Dirs, n \in Names :
              /\ Found(p, n) /\ \A l \in Links : l.dir # Child(p, n)
              /\ Unmade(p, n, Child(p, n)) /\ disk'.sb.ino = sb.ino

\* rename to another name in the same directory.
HereStep == \E p \in Dirs, n, m \in Names :
               /\ Found(p, n) /\ ~Found(p, m)
               /\ Renamed(p, n, m, Child(p, n)) /\ disk' = disk

\* rename to another directory: a lookup there has not found the name, or
\* has looked for another one.
AwayStep == \E p, t \in Dirs, n \in Names :
               /\ Found(p, n) /\ t \notin Reach({Child(p, n)})
               /\ \/ ~Found(t, n)
                  \/ p \in NamedDirs /\ t \in NamedDirs
                     /\ \E m \in Names \ {n} : RenameAcross(p, n, t, m)
               /\ Moved(p, n, t, Child(p, n)) /\ disk' = disk

\* All the others.
SameStep == NamesSame /\ disk'.sb.ino \in {disk.sb.ino, sb.ino}

LEMMA MakeIs ==
    ASSUME RoomForAll, Bound, Tree, NEW p \in Dirs, NEW n \in Names,
           ~Found(p, n), MkdirDone(p, n) \/ CreateDone(p, n)
    PROVE  NewStep
<1>1. sb \in SbType /\ NextIno \in Inos /\ NextIno < NumInodes
  BY NextIsFree DEF Bound, Base, Types, TypeOK, MkdirDone, CreateDone
<1>2. \A s \in SbType : /\ dec_free_inodes(s).ino = s.ino /\ dec_free_blocks(s).ino = s.ino
                        /\ \A b : [s EXCEPT !.blk = b].ino = s.ino
  BY DEF SbType, dec_free_inodes, dec_free_blocks
<1>3. take_ino(sb, NextIno).ino = NextIno + 1 /\ take_ino(sb, NextIno) \in SbType
  <2>1. [sb EXCEPT !.ino = NextIno + 1].ino = NextIno + 1
        /\ [sb EXCEPT !.ino = NextIno + 1] \in SbType
    BY <1>1 DEF SbType, Inos
  <2> QED
    BY <1>1, <1>2, <2>1, SbTypes DEF take_ino
<1>4. CASE MkdirDone(p, n)
  <2>1. sb'.ino = NextIno + 1
    BY <1>2, <1>3, <1>4, SbTypes DEF MkdirDone
  <2>2. disk'.sb = sb'
    BY <1>4 DEF MkdirDone, FlushAll
  <2> QED
    BY <1>1, <1>4, <2>1, <2>2, MkdirTree DEF NewStep
<1>5. CASE CreateDone(p, n)
  <2>1. sb'.ino = NextIno + 1
    BY <1>2, <1>3, <1>5, SbTypes DEF CreateDone
  <2>2. disk'.sb = sb'
    BY <1>5 DEF CreateDone, Bound, Base, Types, TypeOK
  <2> QED
    BY <1>1, <1>5, <2>1, <2>2, CreateTree DEF NewStep
<1> QED
  BY <1>4, <1>5

LEMMA RemoveIs ==
    ASSUME Bound, Tree, NEW p \in Dirs, NEW n \in Names, Rmdir(p, n) \/ Unlink(p, n)
    PROVE  OldStep
<1>1. PICK x : x = Child(p, n) /\ Found(p, n)
  BY DEF Rmdir, Unlink
<1>2. \A l \in Links : l.dir # x
  <2>1. ASSUME NEW e \in Entries, e[1] = x PROVE FALSE
    <3>1. x \in Dirs /\ e[2] \in UsedSlots(x) /\ e[2] > 1
      BY <2>1 DEF Entries, UsedSlots
    <3>2. x \notin Files
      BY <3>1 DEF Dirs, Files
    <3>3. UsedSlots(x) \subseteq {0, 1}
      BY <1>1, <3>2 DEF Rmdir, Unlink, Deletable
    <3> QED
      BY <3>1, <3>3
  <2> QED
    BY <2>1 DEF Links, LinkOf, Link
<1>3. Unmade(p, n, x)
  BY <1>1, RmdirTree, UnlinkTree
<1>4. disk'.sb.ino = sb.ino
  <2>1. sb \in SbType
    BY DEF Bound, Base, Types, TypeOK
  <2>2. \A s \in SbType : inc_free_inodes(s).ino = s.ino /\ inc_free_blocks(s).ino = s.ino
    BY DEF SbType, inc_free_inodes, inc_free_blocks
  <2>3. disk'.sb = sb'
    BY DEF Rmdir, Unlink, FlushAll
  <2>4. sb'.ino = sb.ino
    BY <2>1, <2>2, SbTypes DEF Rmdir, Unlink
  <2> QED
    BY <2>3, <2>4
<1> QED
  BY <1>1, <1>2, <1>3, <1>4 DEF OldStep

LEMMA RenameIs ==
    ASSUME RoomForAll, Bound, Tree, NEW p \in NamedDirs, NEW n \in Names, NEW m \in Names,
           \/ RenameInPlace(p, n, m)
           \/ \E t \in NamedDirs : RenameAcross(p, n, t, m) \/ RenameInto(p, n, t, m)
    PROVE  HereStep \/ AwayStep
<1>1. NamedDirs \subseteq Dirs /\ NamedDirs \subseteq Walk({Root}) /\ p \in Dirs
  BY DEF NamedDirs
<1>2. PICK x : x = Child(p, n) /\ Found(p, n) /\ x \in Live \ {Root}
  BY <1>1, FoundLink DEF RenameInPlace, RenameAcross, RenameInto
<1>3. CASE RenameInPlace(p, n, m)
  <2>1. Renamed(p, n, m, x) /\ ~Found(p, m) /\ disk' = disk
    BY <1>1, <1>2, <1>3, InPlaceTree DEF RenameInPlace
  <2> QED
    BY <1>1, <1>2, <2>1 DEF HereStep
<1>4. ASSUME NEW t \in NamedDirs, RenameAcross(p, n, t, m) PROVE AwayStep
  <2>1. /\ t \in Dirs /\ p # t /\ ~Found(t, m) /\ MoveEntry(p, n, t)
        /\ t \notin Walk({x}) /\ t \in Walk({Root})
    BY <1>1, <1>2, <1>4 DEF RenameAcross
  <2>2. t \notin Reach({x})
    BY <1>2, <2>1, WalkSeesAll
  <2>3. Moved(p, n, t, x) /\ disk' = disk
    BY <1>1, <1>2, <2>1, MoveTree DEF MoveEntry
  <2>4. ~Found(t, n) \/ \E k \in Names \ {n} : RenameAcross(p, n, t, k)
    BY <1>4, <2>1
  <2> QED
    BY <1>1, <1>2, <2>1, <2>2, <2>3, <2>4 DEF AwayStep
<1>5. ASSUME NEW t \in NamedDirs, RenameInto(p, n, t, m) PROVE AwayStep
  <2>1. PICK y : y = Child(t, m)
    OBVIOUS
  <2>2. /\ t \in Dirs /\ Found(t, m) /\ y \in Dirs /\ ~Found(y, n) /\ MoveEntry(p, n, y)
        /\ y \notin Walk({x}) /\ p \notin Walk({y})
    BY <1>1, <1>2, <1>5, <2>1 DEF RenameInto
  <2>3. p # y
    BY <2>2 DEF Walk, Closure
  <2>4. y \in Walk({Root})
    <3>1. PICK W : W = {<<q[1], Child(q[1], q[2])>> :
                           q \in {q \in Dirs \X Names : Found(q[1], q[2])}}
      OBVIOUS
    <3>2. W \subseteq EdgesOf(Links)
      <4> SUFFICES ASSUME NEW d \in Dirs, NEW k \in Names, Found(d, k)
                   PROVE  <<d, Child(d, k)>> \in EdgesOf(Links)
        BY <3>1
      <4>1. Link(d, k, Child(d, k)) \in Links
        BY FoundLink
      <4> QED
        BY <4>1 DEF EdgesOf, Link
    <3>3. ClosedUnder(Walk({Root}), W)
      <4>1. IsFiniteSet(W)
        BY <3>2, LinkFacts, FS_Subset
      <4>2. Walk({Root}) = Closure({Root}, W)
        BY <3>1 DEF Walk
      <4> QED
        BY <4>1, <4>2, ClosureLeast
    <3>4. <<t, y>> \in W
      <4>1. <<t, m>> \in {q \in Dirs \X Names : Found(q[1], q[2])}
        BY <2>2
      <4> QED
        BY <3>1, <4>1, <2>1
    <3> QED
      BY <1>1, <3>3, <3>4 DEF ClosedUnder
  <2>5. y \notin Reach({x})
    BY <1>2, <2>2, <2>4, WalkSeesAll
  <2>6. Moved(p, n, y, x) /\ disk' = disk
    BY <1>1, <1>2, <2>2, <2>3, MoveTree DEF MoveEntry
  <2> QED
    BY <1>1, <1>2, <2>2, <2>5, <2>6 DEF AwayStep
<1> QED
  BY <1>3, <1>4, <1>5

LEMMA RestIs ==
    ASSUME Bound, Tree, OpenStep \/ StillStep \/ MkdirNoBlock \/ Restart \/ HandleStep
    PROVE  SameStep
<1>1. NamesSame
  BY RestTree, WriteTree DEF HandleStep
<1>2. CASE \E f \in Fids : Write(f)
  <2>1. disk'.sb = sb' /\ sb \in SbType
    BY <1>2 DEF Write, Bound, Base, Types, TypeOK, DiskType
  <2>2. \A s \in SbType : dec_free_blocks(s).ino = s.ino
    BY DEF SbType, dec_free_blocks
  <2>3. sb'.ino = sb.ino
    BY <1>2, <2>1, <2>2 DEF Write
  <2> QED
    BY <1>1, <2>1, <2>3 DEF SameStep
<1>3. CASE ~\E f \in Fids : Write(f)
  <2>1. disk' = disk
    BY <1>3 DEF OpenStep, StillStep, Open, NoInode, WriteNoBlock, MkdirNoBlock, Release,
                Restart, HandleStep, vars, mem
  <2> QED
    BY <1>1, <2>1 DEF SameStep
<1> QED
  BY <1>2, <1>3

(***************************************************************************)
(* Every step of Lab4FS is one of these.                                   *)
(***************************************************************************)
LEMMA NameSteps ==
    ASSUME RoomForAll, Bound, Tree, [Next]_vars
    PROVE  NewStep \/ OldStep \/ HereStep \/ AwayStep \/ SameStep
<1>1. NamedDirs \subseteq Dirs
  BY DEF NamedDirs
<1>2. ASSUME NEW p \in NamedDirs, NEW n \in Names,
             Mkdir(p, n) \/ Rmdir(p, n) \/ Create(p, n) \/ Open(p, n) \/ Unlink(p, n)
      PROVE  NewStep \/ OldStep \/ SameStep
  <2>1. CASE NoInode \/ MkdirNoBlock \/ Open(p, n)
    <3>1. OpenStep \/ StillStep \/ MkdirNoBlock
      BY <1>1, <2>1 DEF OpenStep, StillStep
    <3> QED
      BY <3>1, RestIs
  <2>2. CASE ~Found(p, n) /\ (MkdirDone(p, n) \/ CreateDone(p, n))
    BY <1>1, <2>2, MakeIs
  <2>3. CASE Rmdir(p, n) \/ Unlink(p, n)
    BY <1>1, <2>3, RemoveIs
  <2> QED
    BY <1>2, <2>1, <2>2, <2>3 DEF Mkdir, Create
<1>3. ASSUME NEW p \in NamedDirs, NEW n \in Names, NEW m \in Names,
             \/ RenameInPlace(p, n, m)
             \/ \E t \in NamedDirs : RenameAcross(p, n, t, m) \/ RenameInto(p, n, t, m)
      PROVE  HereStep \/ AwayStep
  BY <1>3, RenameIs
<1>4. CASE Restart \/ UNCHANGED vars \/ \E f \in Fids : Release(f) \/ Write(f) \/ WriteNoBlock(f)
  <2>1. Restart \/ StillStep \/ HandleStep
    BY <1>4 DEF StillStep, HandleStep
  <2> QED
    BY <2>1, RestIs
<1> QED
  BY <1>2, <1>3, <1>4 DEF Next
-----------------------------------------------------------------------------
(* The directories form one tree.                                          *)

LEMMA NewInode == ASSUME Bound, NextIno < NumInodes
                  PROVE  NextIno \in Inos /\ NextIno \notin Live /\ NextIno = sb.ino
  BY NextIsFree, NextInoUnused, NextInoIsHint DEF Bound, Base, Live

LEMMA SpannedStep ==
    ASSUME Bound, Tree, Spanned, NewStep \/ OldStep \/ HereStep \/ AwayStep \/ SameStep
    PROVE  Spanned'
<1>1. Dirs \subseteq Live
  BY DEF Dirs, Live
<1>2. CASE NewStep
  <2>1. PICK p \in Dirs, n \in Names, t \in {"DIR", "FILE"} :
           NextIno < NumInodes /\ Made(p, n, NextIno, t)
    BY <1>2 DEF NewStep
  <2>2. PICK i : i = NextIno /\ i \in Inos /\ i \notin Live
    BY <2>1, NewInode
  <2>3. Links' = Links \cup {Link(p, n, i)} /\ Retyped(i, t)
    BY <2>1, <2>2 DEF Made
  <2>4. Live' = Live \cup {i} /\ Root \in Dirs'
    BY <1>1, <2>2, <2>3, LiveChange DEF Spanned
  <2> QED
    BY <1>1, <2>3, <2>4, SpanAdd DEF Spanned
<1>3. CASE OldStep
  <2>1. PICK p \in Dirs, n \in Names : /\ Found(p, n) /\ \A l \in Links : l.dir # Child(p, n)
                                       /\ Unmade(p, n, Child(p, n))
    BY <1>3 DEF OldStep
  <2>2. PICK x : x = Child(p, n)
    OBVIOUS
  <2>3. Links' = Links \ {Link(p, n, x)} /\ Retyped(x, "NONE")
    BY <2>1, <2>2 DEF Unmade
  <2>4. PICK l \in Links : l.node = x /\ x # Root /\ x \in Inos
    <3>1. Link(p, n, x) \in Links /\ x \in Live \ {Root}
      BY <2>1, <2>2, FoundLink
    <3> QED
      BY <3>1 DEF Link, Live
  <2>5. Live' = Live \ {x} /\ Root \in Dirs'
    BY <2>3, <2>4, LiveChange DEF Spanned
  <2> QED
    BY <2>1, <2>2, <2>3, <2>5, SpanDrop DEF Spanned
<1>4. CASE HereStep
  <2>1. PICK p \in Dirs, n \in Names, m \in Names : Renamed(p, n, m, Child(p, n))
    BY <1>4 DEF HereStep
  <2>2. Live' = Live /\ Dirs' = Dirs
    BY <2>1 DEF Renamed, TypesSame, Live, Dirs
  <2> QED
    BY <2>1, <2>2, SpanRename DEF Spanned, Renamed
<1>5. CASE AwayStep
  <2>1. PICK p \in Dirs, t \in Dirs, n \in Names :
           /\ Found(p, n) /\ t \notin Reach({Child(p, n)}) /\ Moved(p, n, t, Child(p, n))
    BY <1>5 DEF AwayStep
  <2>2. PICK x, D, E : x = Child(p, n) /\ D = Reach({x}) /\ E = EdgesOf(Links)
    OBVIOUS
  <2>3. x \in D /\ ClosedUnder(D, E)
    BY <2>2, LinkFacts, ClosureLeast DEF Reach
  <2>4. ASSUME NEW l \in Links, l.dir \in D PROVE l.node \in D
    <3>1. PICK e \in E : e = <<l.dir, l.node>>
      BY <2>2 DEF EdgesOf
    <3> QED
      BY <2>3, <2>4, <3>1 DEF ClosedUnder
  <2>5. Live' = Live /\ Dirs' = Dirs /\ Links' = (Links \ {Link(p, n, x)}) \cup {Link(t, n, x)}
    BY <2>1, <2>2 DEF Moved, TypesSame, Live, Dirs
  <2> QED
    BY <1>1, <2>1, <2>2, <2>3, <2>4, <2>5, SpanMove DEF Spanned
<1>6. CASE SameStep
  <2>1. Live' = Live /\ Dirs' = Dirs /\ Links' = Links
    BY <1>6 DEF SameStep, NamesSame, TypesSame, Live, Dirs
  <2> QED
    BY <2>1 DEF Spanned
<1> QED
  BY <1>2, <1>3, <1>4, <1>5, <1>6

LEMMA NamesInvariant == ASSUME RoomForAll PROVE Spec => [](Bound /\ Tree /\ Spanned)
<1>1. Init => Spanned
  BY FormatNames DEF Spanned, Spans, Links
<1>2. Bound /\ Tree /\ Spanned /\ [Next]_vars => Spanned'
  BY NameSteps, SpannedStep
<1> QED
  BY <1>1, <1>2, TreeInvariant, PTL DEF Spec

(***************************************************************************)
(* The directories form one tree whatever renames did to it: no inode in   *)
(* use is cut off from the root.                                           *)
(***************************************************************************)
THEOREM OneTree == ASSUME RoomForAll PROVE Spec => []Connected
<1>1. Bound /\ Tree /\ Spanned => Connected
  BY SpannedConnected
<1> QED
  BY <1>1, NamesInvariant, PTL

-----------------------------------------------------------------------------
(* Names.                                                                  *)

Apart(L) == \A l, k \in L : l.dir = k.dir /\ l.name = k.name => l = k
LinksApart == Apart(Links)

LEMMA UniqueLinks == Tree => (NamesUnique <=> LinksApart)
<1> SUFFICES ASSUME Tree PROVE NamesUnique <=> LinksApart
  OBVIOUS
<1>1. \A e \in Entries : LinkOf(e).dir = e[1] /\ LinkOf(e).name = Slot(e[1], e[2]).name
  BY DEF LinkOf, Link
<1>2. \A e, o \in Entries : LinkOf(e) = LinkOf(o) => e = o
  BY LinkEntries
<1> QED
  BY <1>1, <1>2 DEF NamesUnique, LinksApart, Apart, Links

\* A step that makes two entries of one name in a directory.
TwinStep == \E p, t \in NamedDirs, n, m \in Names : n # m /\ RenameAcross(p, n, t, m)

LEMMA ApartAdd ==
    ASSUME NEW L, Apart(L), NEW d, NEW n, NEW x, \A l \in L : ~(l.dir = d /\ l.name = n)
    PROVE  \A M : Apart((L \ M) \cup {Link(d, n, x)})
<1>1. Link(d, n, x).dir = d /\ Link(d, n, x).name = n
  BY DEF Link
<1> QED
  BY <1>1 DEF Apart

LEMMA ApartStep ==
    ASSUME Bound, Tree, LinksApart, ~TwinStep,
           NewStep \/ OldStep \/ HereStep \/ AwayStep \/ SameStep
    PROVE  LinksApart'
<1>1. \A d \in Dirs, n \in Names : ~Found(d, n) => \A l \in Links : ~(l.dir = d /\ l.name = n)
  BY FoundLink
<1>2. CASE NewStep
  <2>1. PICK p \in Dirs, n \in Names :
           ~Found(p, n) /\ \E i : Links' = Links \cup {Link(p, n, i)}
    BY <1>2 DEF NewStep, Made
  <2>2. PICK i : Links' = (Links \ {}) \cup {Link(p, n, i)}
    BY <2>1
  <2>3. Apart((Links \ {}) \cup {Link(p, n, i)})
    BY <1>1, <2>1, ApartAdd DEF LinksApart
  <2> QED
    BY <2>2, <2>3 DEF LinksApart
<1>3. CASE OldStep
  BY <1>3 DEF OldStep, Unmade, LinksApart, Apart
<1>4. CASE HereStep
  <2>1. PICK p \in Dirs, n \in Names, m \in Names :
           /\ ~Found(p, m)
           /\ \E x : Links' = (Links \ {Link(p, n, x)}) \cup {Link(p, m, x)}
    BY <1>4 DEF HereStep, Renamed
  <2>2. PICK x : Links' = (Links \ {Link(p, n, x)}) \cup {Link(p, m, x)}
    BY <2>1
  <2>3. Apart((Links \ {Link(p, n, x)}) \cup {Link(p, m, x)})
    BY <1>1, <2>1, ApartAdd DEF LinksApart
  <2> QED
    BY <2>2, <2>3 DEF LinksApart
<1>5. CASE AwayStep
  <2>1. PICK p \in Dirs, t \in Dirs, n \in Names :
           /\ ~Found(t, n)
           /\ \E x : Links' = (Links \ {Link(p, n, x)}) \cup {Link(t, n, x)}
    BY <1>5 DEF AwayStep, Moved, TwinStep
  <2>2. PICK x : Links' = (Links \ {Link(p, n, x)}) \cup {Link(t, n, x)}
    BY <2>1
  <2>3. Apart((Links \ {Link(p, n, x)}) \cup {Link(t, n, x)})
    BY <1>1, <2>1, ApartAdd DEF LinksApart
  <2> QED
    BY <2>2, <2>3 DEF LinksApart
<1>6. CASE SameStep
  BY <1>6 DEF SameStep, NamesSame, LinksApart
<1> QED
  BY <1>2, <1>3, <1>4, <1>5, <1>6

(***************************************************************************)
(* Two entries of one name in a directory come only from a rename to a new *)
(* name in another directory.                                              *)
(***************************************************************************)
THEOREM TwinsOnlyByRename == ASSUME RoomForAll PROVE Spec => NamesStayUnique
<1>1. Bound /\ Tree /\ [Next]_vars /\ LinksApart /\ ~TwinStep => LinksApart'
  BY NameSteps, ApartStep
<1>2. Tree' => (NamesUnique' <=> LinksApart')
  BY UniqueLinks, PTL
<1>3. Bound /\ Tree /\ Tree' /\ [Next]_vars
         => [NamesUnique => \/ NamesUnique'
                            \/ \E p, t \in NamedDirs, n, m \in Names :
                                  /\ n # m
                                  /\ RenameAcross(p, n, t, m)]_vars
  BY <1>1, <1>2, UniqueLinks DEF TwinStep
<1> QED
  BY <1>3, TreeInvariant, PTL DEF Spec, NamesStayUnique

-----------------------------------------------------------------------------
(* The namespace on the device.                                            *)

DiskKind == [i \in 0..NumInodes |-> IF i \in Inos THEN disk.itable[i].type ELSE "NONE"]
Kind     == [i \in 0..NumInodes |-> IF i \in Inos THEN itable[i].type ELSE "NONE"]

\* On the device every name is as in memory.
OnDisk == DiskLinks = Links /\ DiskKind = Kind

LEMMA DiskNames == Stored /\ Types => OnDisk
<1> SUFFICES ASSUME Stored, Types PROVE OnDisk
  OBVIOUS
<1>1. disk.itable = itable
  BY DEF Stored
<1>2. DiskDirs = Dirs
  BY <1>1 DEF DiskDirs, Dirs
<1>3. {o \in DiskDirs \X (Slots \ {0, 1}) : area[disk.itable[o[1]].blk][o[2]].flag = "USED"}
        = Entries
  BY <1>1, <1>2 DEF Entries, Slot, Slots
<1>4. \A e \in Entries :
         [dir |-> e[1], name |-> area[disk.itable[e[1]].blk][e[2]].name,
          node |-> area[disk.itable[e[1]].blk][e[2]].ino] = LinkOf(e)
  BY <1>1 DEF LinkOf, Link, Target, Slot
<1>5. DiskLinks = Links
  BY <1>3, <1>4 DEF DiskLinks, Links
<1> QED
  BY <1>1, <1>5 DEF OnDisk, DiskKind, Kind
LEMMA DiskNamesNext == (Stored /\ Types)' => OnDisk'
  BY DiskNames, PTL

LEMMA InoRange ==
    ASSUME Bound
    PROVE  /\ sb.ino \in 3..NumInodes /\ disk.sb.ino \in 3..NumInodes
           /\ disk.sb.ino <= sb.ino
  BY DEF Bound, Base, Types, TypeOK, SbType, Numbers, HintsKept

(***************************************************************************)
(* Every step of Lab4FS is a step of Lab4Namespace or none.                *)
(***************************************************************************)
LEMMA NamespaceStep ==
    ASSUME Bound, Tree, Bound', NewStep \/ OldStep \/ HereStep \/ AwayStep \/ SameStep
    PROVE  [Namespace!Next]_(Namespace!nsVars)
<1> DEFINE floor == disk.sb.ino
<1>1. /\ DiskLinks = Links /\ DiskKind = Kind
      /\ DiskLinks' = Links' /\ DiskKind' = Kind'
  BY DiskNames, DiskNamesNext DEF OnDisk, Bound, Base
<1>2. /\ sb.ino \in 3..NumInodes /\ floor \in 3..NumInodes /\ floor <= sb.ino
      /\ floor' \in 3..NumInodes
  <2>1. Bound' => disk'.sb.ino \in 3..NumInodes
    BY DEF Bound, Base, Types, TypeOK, SbType, Numbers, HintsKept
  <2> QED
    BY <2>1, InoRange
<1>3. \A i \in 0..NumInodes : Kind[i] = IF i \in Inos THEN itable[i].type ELSE "NONE"
  BY DEF Kind
<1>4. ASSUME NEW i \in Inos, NEW t, Retyped(i, t) PROVE Kind' = [Kind EXCEPT ![i] = t]
  <2>1. i \in 0..NumInodes
    BY DEF Inos
  <2> QED
    BY <1>4, <2>1 DEF Kind, Retyped
<1>5. TypesSame => Kind' = Kind
  BY DEF Kind, TypesSame
<1>6. \A d \in Dirs : d \in 0..NumInodes /\ Kind[d] = "DIR"
  BY <1>3 DEF Dirs, Inos
<1>7. CASE NewStep
  <2>1. PICK p \in Dirs, n \in Names, t \in {"DIR", "FILE"} :
           /\ ~Found(p, n) /\ NextIno < NumInodes
           /\ Made(p, n, NextIno, t) /\ floor' = NextIno + 1
    BY <1>7 DEF NewStep
  <2>2. PICK i : i = NextIno /\ i \in Inos /\ i = sb.ino
    BY <2>1, NewInode
  <2>3. ~Namespace!Taken(p, n)
    BY <1>1, <2>1, FoundLink DEF Namespace!Taken
  <2>4. DiskLinks' = DiskLinks \cup {Namespace!Link(p, n, i)}
    BY <1>1, <2>1, <2>2 DEF Made, Link, Namespace!Link
  <2>5. DiskKind' = [DiskKind EXCEPT ![i] = t]
    BY <1>1, <1>4, <2>1, <2>2 DEF Made
  <2>6. Namespace!Make(p, n, i, t)
    BY <1>1, <1>2, <1>6, <2>1, <2>2, <2>3, <2>4, <2>5 DEF Namespace!Make, DiskKind
  <2>7. i \in 0..NumInodes /\ p \in 0..NumInodes
    BY <1>6, <2>2 DEF Inos
  <2> QED
    BY <2>6, <2>7 DEF Namespace!Next
<1>8. CASE OldStep
  <2>1. PICK p \in Dirs, n \in Names :
           /\ Found(p, n) /\ \A l \in Links : l.dir # Child(p, n)
           /\ Unmade(p, n, Child(p, n)) /\ floor' = sb.ino
    BY <1>8 DEF OldStep
  <2>2. PICK x, l : x = Child(p, n) /\ l = Link(p, n, x) /\ l \in Links /\ x \in Inos /\ l.node = x
    <3>1. Link(p, n, Child(p, n)) \in Links /\ Child(p, n) \in Inos
      BY <2>1, FoundLink DEF Live
    <3> QED
      BY <3>1 DEF Link
  <2>3. DiskKind' = [DiskKind EXCEPT ![l.node] = "NONE"]
    BY <1>1, <1>4, <2>1, <2>2 DEF Unmade
  <2>4. DiskLinks' = DiskLinks \ {l}
    BY <1>1, <2>1, <2>2 DEF Unmade
  <2>5. Namespace!Remove(l)
    BY <1>1, <1>2, <2>1, <2>2, <2>3, <2>4 DEF Namespace!Remove, Namespace!Rises, DiskKind
  <2> QED
    BY <1>1, <2>2, <2>5 DEF Namespace!Next
<1>9. CASE HereStep
  <2>1. PICK p \in Dirs, n \in Names, m \in Names :
           /\ Found(p, n) /\ ~Found(p, m)
           /\ Renamed(p, n, m, Child(p, n)) /\ disk' = disk
    BY <1>9 DEF HereStep
  <2>2. PICK x, l : /\ x = Child(p, n) /\ l = Link(p, n, x) /\ l \in Links
                    /\ l.node = x /\ l.dir = p
    <3>1. Link(p, n, Child(p, n)) \in Links
      BY <2>1, FoundLink
    <3> QED
      BY <3>1 DEF Link
  <2>3. ~Namespace!Taken(l.dir, m)
    BY <1>1, <2>1, <2>2, FoundLink DEF Namespace!Taken
  <2>4. DiskLinks' = (DiskLinks \ {l}) \cup {Namespace!Link(l.dir, m, l.node)}
    BY <1>1, <2>1, <2>2 DEF Renamed, Link, Namespace!Link
  <2>5. Namespace!Rename(l, m)
    BY <1>1, <1>5, <2>1, <2>3, <2>4 DEF Namespace!Rename, DiskKind, Renamed
  <2> QED
    BY <1>1, <2>2, <2>5 DEF Namespace!Next
<1>10. CASE AwayStep
  <2>1. PICK p \in Dirs, t \in Dirs, n \in Names :
           /\ Found(p, n) /\ t \notin Reach({Child(p, n)})
           /\ Moved(p, n, t, Child(p, n)) /\ disk' = disk
    BY <1>10 DEF AwayStep
  <2>2. PICK x, l : /\ x = Child(p, n) /\ l = Link(p, n, x) /\ l \in Links
                    /\ l.node = x /\ l.dir = p /\ l.name = n
    <3>1. Link(p, n, Child(p, n)) \in Links
      BY <2>1, FoundLink
    <3> QED
      BY <3>1 DEF Link
  <2>3. t \notin Namespace!Closure({l.node}, Namespace!Edges)
    <3>1. Namespace!Edges = EdgesOf(Links)
      BY <1>1 DEF EdgesOf, Namespace!Edges
    <3>2. ASSUME NEW S, NEW E PROVE Namespace!Closure(S, E) = Closure(S, E)
      BY Zenon DEF Closure, Namespace!Closure, Cardinality,
                   Namespace!Cardinality
    <3> QED
      BY <2>1, <2>2, <3>1, <3>2 DEF Reach
  <2>4. DiskLinks' = (DiskLinks \ {l}) \cup {Namespace!Link(t, l.name, l.node)}
    BY <1>1, <2>1, <2>2 DEF Moved, Link, Namespace!Link
  <2>5. Namespace!Move(l, t)
    <3>1. DiskKind[t] = "DIR"
      BY <1>1, <1>6
    <3>2. DiskKind' = DiskKind
      BY <1>1, <1>5, <2>1 DEF Moved
    <3> QED
      BY <2>1, <2>3, <2>4, <3>1, <3>2 DEF Namespace!Move, DiskKind
  <2>6. t \in 0..NumInodes
    BY <1>6
  <2> QED
    BY <1>1, <2>2, <2>5, <2>6 DEF Namespace!Next
<1>11. CASE SameStep
  <2>1. Namespace!Skip
    BY <1>1, <1>2, <1>5, <1>11 DEF SameStep, NamesSame, Namespace!Skip, Namespace!Rises, DiskKind
  <2> QED
    BY <2>1 DEF Namespace!Next
<1> QED
  BY <1>7, <1>8, <1>9, <1>10, <1>11

(***************************************************************************)
(* The names on the device behave as Lab4Namespace says, whatever is       *)
(* opened, written, refused or restarted in between.                       *)
(***************************************************************************)
THEOREM NamesImplemented == ASSUME RoomForAll PROVE Spec => ImplementsNamespace
<1>1. Init => Namespace!Init
  <2> SUFFICES ASSUME Init PROVE Namespace!Init
    OBVIOUS
  <2>1. DiskLinks = Links /\ DiskKind = Kind
    BY TypesInit, StoredInit, DiskNames DEF OnDisk
  <2>2. Links = {} /\ itable = FormatItable
    BY FormatNames DEF Links, Init, Loaded, FormatDisk
  <2>3. Kind = [i \in 0..NumInodes |-> IF i = Root THEN "DIR" ELSE "NONE"]
    BY <2>2 DEF Kind, FormatItable, DirInode, ZeroInode, Inos
  <2>4. disk.sb.ino = Root + 1
    BY DEF Init, FormatDisk, FormatSb
  <2> QED
    BY <2>1, <2>2, <2>3, <2>4 DEF Namespace!Init, DiskKind
<1>2. Bound /\ Tree /\ Bound' /\ [Next]_vars => [Namespace!Next]_(Namespace!nsVars)
  BY NameSteps, NamespaceStep
<1> QED
  BY <1>1, <1>2, TreeInvariant, PTL DEF Spec, ImplementsNamespace, Namespace!Spec
=============================================================================
