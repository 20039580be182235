--------------------------- MODULE Lab4DataProofs ---------------------------
(***************************************************************************)
(* Whose bytes a file shows, for every size of clusters, number of blocks, *)
(* of files and of handles, as long as clients write into the first        *)
(* cluster of a file only, or to the offset where it ends.  A write to     *)
(* that offset never returns (EveryWriteReturns of Lab4Data), so what it   *)
(* leaves in its copy of the inode and in its handle goes nowhere.         *)
(*                                                                         *)
(* A block has one owner: the file whose inode has it, or the file of the  *)
(* write that has just taken it.  Bytes of a block only ever become bytes  *)
(* of its owner, or zeroes that a neighbour spills.                        *)
(***************************************************************************)
EXTENDS Lab4Data, Lab4Lemmas

\* The file that is written to.
CallFile == file_table[call.fid].ino

\* A write to the end of the cluster, which goes round for ever.
Endless == Running /\ call.offset = ClusterSize

\* The block of each file, 0 when it has none.
owner == [f \in Files |-> IF Running /\ CallFile = f THEN call.blk
                          ELSE IF itable[f].size > 0 THEN itable[f].blk ELSE 0]

Owners == /\ 0 \in dbmap
          /\ \A f \in Files : owner[f] # 0 => owner[f] \in dbmap
          /\ \A f, g \in Files : owner[f] # 0 /\ owner[f] = owner[g] => f = g

Offsets == 0..(ClusterSize - 1)

Clean == \A b \in Blocks \ {0}, k \in Offsets :
            /\ b \notin dbmap => bytes[Start(b) + k] \in {Zero, Old}
            /\ \A f \in Files : owner[f] = b => bytes[Start(b) + k] \in {f, Zero, Old}

\* The size s of file f, with block b, is not past what was written or cleared.
Reached(mem, b, f, s) == s > 0 => /\ b # 0
                                  /\ \E k \in (s - 1)..(ClusterSize - 1) :
                                        mem[Start(b) + k] \in {f, Zero}

Sizes == /\ \A f \in Files : Reached(bytes, owner[f], f, itable[f].size)
         /\ \A h \in Fids : LET f == file_table[h].ino
                            IN  f # 0 /\ ~(Endless /\ h = call.fid)
                                  => Reached(bytes, owner[f], f, file_table[h].size)

Handles == \A h \in Fids : /\ file_table[h].ino = 0 => file_table[h] = Closed
                           /\ file_table[h].ino # 0 => itable[file_table[h].ino].used

Unused == \A f \in Files : /\ ~itable[f].used => itable[f].size = 0
                           /\ f >= next_ino => ~itable[f].used

CallOK == Running =>
            /\ CallFile \in Files
            /\ call.blk # 0
            /\ itable[CallFile].size > 0 => itable[CallFile].blk = call.blk
            /\ call.left > 0 => /\ call.rwoffset = call.offset
                                /\ Endless \/ call.offset + call.left <= ClusterSize
            /\ call.left = 0 => call.size > 0 /\ ~Endless
            /\ Endless \/ Reached(bytes, owner[CallFile], CallFile, call.size)

DataInv == TypeOK /\ Owners /\ Clean /\ Sizes /\ Handles /\ Unused /\ CallOK

-----------------------------------------------------------------------------
(* Sizes, addresses and writes.                                            *)

LEMMA Constants ==
    /\ ClusterSize \in Nat /\ ClusterSize > 0
    /\ NumBlocks \in Nat /\ NumBlocks > 0
    /\ NumFiles \in Nat /\ MaxOpen \in Nat /\ MaxEnd \in Nat
  BY DataAssumption

LEMMA MinMaxOfTwo ==
    ASSUME NEW a \in Nat, NEW b \in Nat
    PROVE  /\ Max({a, b}) = (IF a >= b THEN a ELSE b)
           /\ Min({a, b}) = (IF a <= b THEN a ELSE b)
  BY DEF Max, Min

LEMMA Times ==
    ASSUME NEW b \in Nat, NEW c \in Nat, b < c, NEW n \in Nat
    PROVE  b * n + n <= c * n
<1>1. c - b - 1 \in Nat /\ c = b + 1 + (c - b - 1)
  OBVIOUS
<1>2. PICK d \in Nat : c = b + 1 + d
  BY <1>1
<1>3. d * n >= 0
  OBVIOUS
<1>4. (b + 1 + d) * n = b * n + n + d * n
  OBVIOUS
<1>5. b * n \in Int /\ d * n \in Int
  OBVIOUS
<1> QED
  BY <1>2, <1>3, <1>4, <1>5

LEMMA Address ==
    ASSUME NEW b \in Blocks, NEW k \in Offsets
    PROVE  /\ Start(b) \in Nat
           /\ Start(b) + k \in Addr
           /\ \A c \in Blocks, j \in Offsets : Start(b) + k = Start(c) + j => b = c
<1>1. b \in Nat /\ b < NumBlocks /\ k \in Nat /\ k < ClusterSize
  BY Constants DEF Blocks, Offsets
<1>2. Start(b) \in Nat
  BY <1>1, Constants DEF Start
<1>3. Start(b) + ClusterSize <= NumBlocks * ClusterSize
  BY <1>1, Times, Constants DEF Start
<1>4. NumBlocks * ClusterSize \in Nat
  BY Constants
<1>5. Start(b) + k \in Addr
  BY <1>1, <1>2, <1>3, <1>4, Constants DEF Addr
<1>6. ASSUME NEW c \in Blocks, NEW j \in Offsets, Start(b) + k = Start(c) + j
      PROVE  b = c
  <2>1. c \in Nat /\ j \in Nat /\ j < ClusterSize /\ Start(c) \in Nat
    BY Constants DEF Blocks, Offsets, Start
  <2>2. CASE b < c
    <3>1. Start(b) + ClusterSize <= Start(c)
      BY <1>1, <2>1, <2>2, Times, Constants DEF Start
    <3> QED
      BY <1>1, <1>2, <1>6, <2>1, <3>1, Constants
  <2>3. CASE c < b
    <3>1. Start(c) + ClusterSize <= Start(b)
      BY <1>1, <2>1, <2>3, Times, Constants DEF Start
    <3> QED
      BY <1>1, <1>2, <1>6, <2>1, <3>1, Constants
  <2> QED
    BY <1>1, <2>1, <2>2, <2>3
<1> QED
  BY <1>2, <1>5, <1>6

LEMMA PutBytes ==
    ASSUME NEW mem, NEW a, NEW k, NEW v, NEW x \in Addr
    PROVE  Put(mem, a, k, v)[x] = IF x \in a..(a + k - 1) THEN v ELSE mem[x]
  BY DEF Put

LEMMA PutType ==
    ASSUME NEW V, NEW mem \in [Addr -> V], NEW a, NEW k, NEW v \in V
    PROVE  Put(mem, a, k, v) \in [Addr -> V]
  BY DEF Put

LEMMA ReplyClean == DataInv => NothingOfOthers
<1> SUFFICES ASSUME DataInv, NEW f \in Files, NEW k \in 0..(itable[f].size - 1) \cup Reply(f)
             PROVE  ByteOf(f, k) \in {f, Zero, Old}
  BY DEF NothingOfOthers, Contents
<1>1. itable[f] \in InodeType
  BY DEF DataInv, TypeOK
<1>2. itable[f].size > 0 /\ k \in Offsets
  BY <1>1, Constants DEF Reply, InodeType, Offsets
<1>3. owner[f] # 0
  BY <1>2 DEF DataInv, Sizes, Reached
<1>4. owner[f] = itable[f].blk
  BY <1>2 DEF DataInv, CallOK, owner
<1>5. itable[f].blk \in Blocks
  BY <1>1 DEF InodeType
<1> QED
  BY <1>2, <1>3, <1>4, <1>5 DEF DataInv, Clean, ByteOf

LEMMA SizesReached == DataInv => SizeReached
<1> SUFFICES ASSUME DataInv, NEW f \in Files, itable[f].size > 0
             PROVE  \E k \in (itable[f].size - 1)..(ClusterSize - 1) :
                       ByteOf(f, k) \in {f, Zero}
  BY DEF SizeReached
<1>1. owner[f] = itable[f].blk
  BY DEF DataInv, CallOK, owner
<1> QED
  BY <1>1 DEF DataInv, Sizes, Reached, ByteOf

LEMMA DataInit == Init => DataInv
<1> SUFFICES ASSUME Init PROVE DataInv
  OBVIOUS
<1>1. ~Running
  BY DEF Init, Running, NoCall
<1>2. \A f \in Files : itable[f] = [used |-> FALSE, size |-> 0, blk |-> 0] /\ owner[f] = 0
  BY <1>1 DEF Init, ZeroInode, owner
<1>3. \A h \in Fids : file_table[h] = [ino |-> 0, size |-> 0]
  BY DEF Init, Closed
<1>4. TypeOK
  <2>1. bytes \in [Addr -> {Entry, Old, Zero} \cup Files]
    BY DEF Init
  <2>2. dbmap \subseteq Blocks /\ next_ino \in 1..(NumFiles + 1) /\ 0 \in Blocks
    BY Constants DEF Init, Blocks
  <2>3. itable \in [Files -> InodeType]
    <3>1. ZeroInode \in InodeType
      BY <2>2, Constants DEF ZeroInode, InodeType
    <3> QED
      BY <3>1 DEF Init
  <2>4. file_table \in [Fids -> [ino : Files \cup {0}, size : 0..ClusterSize]]
    BY <1>3, Constants DEF Init
  <2>5. call \in [fid : Fids \cup {0}, offset : 0..ClusterSize, rwoffset : 0..ClusterSize,
                  left : 0..ClusterSize, size : 0..ClusterSize, blk : Blocks]
    BY <2>2, Constants DEF Init, NoCall
  <2> QED
    BY <2>1, <2>2, <2>3, <2>4, <2>5 DEF TypeOK
<1>5. Clean
  <2> SUFFICES ASSUME NEW b \in Blocks \ {0}, NEW k \in Offsets
               PROVE  bytes[Start(b) + k] = Old
    BY DEF Clean
  <2>1. Start(b) + k \in Addr /\ Start(b) + k >= ClusterSize
    <3>1. b \in Nat /\ 0 < b /\ 0 * ClusterSize = 0 /\ k \in Nat
      BY Constants DEF Blocks, Offsets
    <3>2. ClusterSize <= Start(b)
      BY <3>1, Times, Constants DEF Start
    <3> QED
      BY <3>1, <3>2, Address, Constants
  <2> QED
    BY <2>1, Constants DEF Init, Addr
<1> QED
  BY <1>1, <1>2, <1>3, <1>4, <1>5
     DEF DataInv, Owners, Sizes, Reached, Handles, Unused, CallOK, Init, Closed

-----------------------------------------------------------------------------
(* Steps that change neither bytes nor owners.                             *)

LEMMA SameOwners ==
    ASSUME DataInv, UNCHANGED <<bytes, dbmap>>, \A f \in Files : owner'[f] = owner[f]
    PROVE  /\ Owners' /\ Clean'
           /\ \A f \in Files : \A s : Reached(bytes, owner[f], f, s) => Reached(bytes', owner'[f], f, s)
  BY DEF DataInv, Owners, Clean, Reached

\* A handle of file f, with the size the file has, or no change.
LEMMA OpenedHandle ==
    ASSUME NEW f, TypeOK
    PROVE  \/ OpenFid(f) = file_table
           \/ \E h \in Fids : /\ file_table[h] = Closed
                              /\ OpenFid(f) = [file_table EXCEPT
                                                  ![h] = [ino |-> f, size |-> itable[f].size]]
<1>1. CASE FreeFids = {}
  BY <1>1 DEF OpenFid
<1>2. CASE FreeFids # {}
  <2>1. FreeFids \in SUBSET Nat
    BY Constants DEF FreeFids, Fids
  <2>2. Min(FreeFids) \in FreeFids
    BY <1>2, <2>1, MinOfNat
  <2> QED
    BY <1>2, <2>2 DEF OpenFid, FreeFids
<1> QED
  BY <1>1, <1>2

LEMMA OpenKeeps ==
    ASSUME DataInv, ~Running, NEW f \in Files, file_table' = OpenFid(f),
           UNCHANGED <<bytes, dbmap, call>>,
           itable'[f].used, itable' = [itable EXCEPT ![f].used = TRUE],
           next_ino' \in 1..(NumFiles + 1), next_ino <= next_ino', f < next_ino'
    PROVE  DataInv'
<1>1. TypeOK
  BY DEF DataInv
<1>2. ~Running'
  BY DEF Running
<1>3. /\ itable \in [Files -> InodeType] /\ itable' \in [Files -> InodeType]
      /\ \A g \in Files : itable'[g].size = itable[g].size /\ itable'[g].blk = itable[g].blk
  <2>1. itable \in [Files -> InodeType]
    BY <1>1 DEF TypeOK
  <2> QED
    BY <2>1 DEF InodeType
<1>4. \A g \in Files : owner'[g] = owner[g]
  BY <1>2, <1>3 DEF owner
<1>5. /\ Owners' /\ Clean'
      /\ \A g \in Files : \A s : Reached(bytes, owner[g], g, s) => Reached(bytes', owner'[g], g, s)
  BY <1>4, SameOwners
<1>6. \/ file_table' = file_table
      \/ \E h \in Fids : file_table' = [file_table EXCEPT
                                           ![h] = [ino |-> f, size |-> itable[f].size]]
  BY <1>1, OpenedHandle
<1>7. file_table' \in [Fids -> [ino : Files \cup {0}, size : 0..ClusterSize]]
  <2>1. [ino |-> f, size |-> itable[f].size] \in [ino : Files \cup {0}, size : 0..ClusterSize]
    BY <1>3 DEF InodeType
  <2> QED
    BY <1>1, <1>6, <2>1 DEF TypeOK
<1>8. TypeOK'
  BY <1>1, <1>3, <1>7 DEF TypeOK
<1>9. \A h \in Fids : \/ file_table'[h] = file_table[h]
                      \/ file_table'[h].ino = f /\ file_table'[h].size = itable[f].size
  BY <1>1, <1>6 DEF TypeOK
<1>10. Sizes'
  <2>1. \A g \in Files : Reached(bytes', owner'[g], g, itable'[g].size)
    BY <1>3, <1>5 DEF DataInv, Sizes
  <2>2. ASSUME NEW h \in Fids, file_table'[h].ino # 0
        PROVE  Reached(bytes', owner'[file_table'[h].ino], file_table'[h].ino,
                       file_table'[h].size)
    <3>1. CASE file_table'[h] = file_table[h]
      <4>1. PICK g : g = file_table[h].ino
        OBVIOUS
      <4>2. g \in Files
        BY <1>1, <2>2, <3>1, <4>1 DEF TypeOK
      <4>3. Reached(bytes, owner[g], g, file_table[h].size)
        BY <2>2, <3>1, <4>1 DEF DataInv, Sizes, Endless
      <4> QED
        BY <1>5, <3>1, <4>1, <4>2, <4>3
    <3>2. CASE file_table'[h].ino = f /\ file_table'[h].size = itable[f].size
      BY <1>5, <3>2 DEF DataInv, Sizes
    <3> QED
      BY <1>9, <3>1, <3>2
  <2> QED
    BY <2>1, <2>2 DEF Sizes
<1>11. Handles'
  <2>1. \A g \in Files : itable[g].used => itable'[g].used
    BY <1>1 DEF TypeOK, InodeType
  <2>2. \A h \in Fids : file_table[h].ino \in Files \cup {0}
    BY <1>1 DEF TypeOK
  <2>3. 0 \notin Files
    BY DEF Files
  <2> QED
    BY <1>9, <2>1, <2>2, <2>3 DEF DataInv, Handles
<1>12. Unused'
  <2>1. \A g \in Files : g # f => itable'[g] = itable[g]
    BY <1>1 DEF TypeOK
  <2>2. \A g \in Files : g \in Nat
    BY Constants DEF Files
  <2>3. next_ino \in Nat /\ next_ino' \in Nat
    BY <1>1, Constants DEF TypeOK
  <2> QED
    BY <2>1, <2>2, <2>3 DEF DataInv, Unused
<1> QED
  BY <1>2, <1>5, <1>8, <1>10, <1>11, <1>12 DEF DataInv, CallOK

LEMMA CreateKeeps == ASSUME DataInv, Create PROVE DataInv'
<1>1. PICK n : n = next_ino
  OBVIOUS
<1>2. n \in Files /\ n \in Nat /\ next_ino' = n + 1 /\ n <= NumFiles
  BY <1>1, Constants DEF DataInv, TypeOK, Create, Files
<1>3. itable' = [itable EXCEPT ![n].used = TRUE] /\ itable'[n].used
  BY <1>1, <1>2 DEF DataInv, TypeOK, InodeType, Create
<1>4. /\ ~Running /\ file_table' = OpenFid(n) /\ UNCHANGED <<bytes, dbmap, call>>
      /\ next_ino' \in 1..(NumFiles + 1) /\ next_ino <= next_ino' /\ n < next_ino'
  BY <1>1, <1>2, Constants DEF Create
<1> QED
  BY <1>2, <1>3, <1>4, OpenKeeps

LEMMA OpenFileKeeps == ASSUME DataInv, NEW f \in Files, Open(f) PROVE DataInv'
<1>1. itable[f].used /\ itable \in [Files -> InodeType]
  BY DEF DataInv, TypeOK, Open
<1>2. itable[f] = [itable[f] EXCEPT !.used = TRUE]
  BY <1>1 DEF InodeType
<1>3. itable' = [itable EXCEPT ![f].used = TRUE] /\ itable'[f].used
  BY <1>1, <1>2 DEF Open
<1>4. f < next_ino /\ next_ino \in 1..(NumFiles + 1) /\ next_ino <= next_ino
  BY <1>1, Constants DEF DataInv, TypeOK, Unused, Files
<1> QED
  BY <1>3, <1>4, OpenKeeps DEF Open

LEMMA CloseKeeps == ASSUME DataInv, NEW h \in Fids, Close(h) PROVE DataInv'
<1>1. ~Running /\ ~Running'
  BY DEF Close, Running
<1>2. \A g \in Files : owner'[g] = owner[g]
  BY <1>1 DEF owner, Close
<1>3. /\ Owners' /\ Clean'
      /\ \A g \in Files : \A s : Reached(bytes, owner[g], g, s) => Reached(bytes', owner'[g], g, s)
  BY <1>2, SameOwners DEF Close
<1>4. file_table' \in [Fids -> [ino : Files \cup {0}, size : 0..ClusterSize]]
  <2>1. Closed \in [ino : Files \cup {0}, size : 0..ClusterSize]
    BY Constants DEF Closed
  <2> QED
    BY <2>1 DEF DataInv, TypeOK, Close
<1>5. \A g \in Fids : file_table'[g] = file_table[g] \/ file_table'[g] = Closed
  BY DEF DataInv, TypeOK, Close
<1>6. Closed.ino = 0
  BY DEF Closed
<1>7. TypeOK'
  BY <1>4 DEF DataInv, TypeOK, Close
<1>8. \A g \in Fids : file_table[g].ino \in Files \cup {0}
  BY DEF DataInv, TypeOK
<1>9. Sizes' /\ Handles' /\ Unused'
  BY <1>1, <1>3, <1>5, <1>6, <1>8 DEF DataInv, Sizes, Handles, Unused, Close, Endless
<1> QED
  BY <1>1, <1>3, <1>7, <1>9 DEF DataInv, CallOK

-----------------------------------------------------------------------------
(* unlink.                                                                 *)

LEMMA UnlinkKeeps == ASSUME DataInv, NEW f \in Files, Unlink(f) PROVE DataInv'
<1>1. ~Running /\ ~Running' /\ UNCHANGED <<next_ino, file_table, call>>
  BY DEF Unlink, Running
<1>2. itable \in [Files -> InodeType] /\ itable' = [itable EXCEPT ![f] = ZeroInode]
  BY DEF DataInv, TypeOK, Unlink
<1>3. ZeroInode \in InodeType /\ ZeroInode.size = 0 /\ ~ZeroInode.used
  BY Constants DEF ZeroInode, InodeType, Blocks
<1>4. /\ itable' \in [Files -> InodeType] /\ itable'[f] = ZeroInode
      /\ \A g \in Files : g # f => itable'[g] = itable[g]
  BY <1>2, <1>3
<1>5. owner'[f] = 0 /\ \A g \in Files : g # f => owner'[g] = owner[g]
  BY <1>1, <1>3, <1>4 DEF owner
<1>6. \A x \in Addr : bytes'[x] = bytes[x] \/ bytes'[x] = Zero
  BY PutBytes DEF Unlink, delete_block
<1>7. bytes' \in [Addr -> {Entry, Old, Zero} \cup Files]
  <2>1. PICK V, a : V = {Entry, Old, Zero} \cup Files /\ a = Start(itable[f].blk)
    OBVIOUS
  <2>2. Zero \in V /\ bytes \in [Addr -> V]
    BY <2>1 DEF DataInv, TypeOK
  <2>3. bytes' = bytes \/ bytes' = Put(bytes, a, ClusterSize, Zero)
    BY <2>1 DEF Unlink, delete_block
  <2> QED
    BY <2>1, <2>2, <2>3, PutType
<1>10. Owners' /\ Clean' /\ dbmap' \subseteq Blocks
  <2>8. CASE itable[f].size = 0
    <3>1. owner[f] = 0 /\ UNCHANGED <<bytes, dbmap>>
      BY <1>1, <2>8 DEF owner, Unlink
    <3>2. \A g \in Files : owner'[g] = owner[g]
      BY <1>5, <3>1
    <3>3. Owners' /\ Clean'
      BY <3>1, <3>2, SameOwners
    <3>4. dbmap' \subseteq Blocks
      BY <3>1 DEF DataInv, TypeOK
    <3> QED
      BY <3>3, <3>4
  <2>9. CASE itable[f].size # 0
    <3>1. itable[f].size > 0 /\ itable[f].blk \in Blocks
      BY <1>2, <2>9, Constants DEF InodeType
    <3>2. owner[f] = itable[f].blk /\ owner[f] # 0
      BY <1>1, <3>1 DEF DataInv, Sizes, Reached, owner
    <3>3. dbmap' = dbmap \ {itable[f].blk}
      BY <2>9 DEF Unlink
    <3>4. Owners'
      BY <1>5, <3>2, <3>3 DEF DataInv, Owners
    <3>5. \A k \in Offsets : bytes'[Start(itable[f].blk) + k] = Zero
      <4> SUFFICES ASSUME NEW k \in Offsets PROVE bytes'[Start(itable[f].blk) + k] = Zero
        OBVIOUS
      <4>1. PICK x : x = Start(itable[f].blk) + k
        OBVIOUS
      <4>2. x \in Addr /\ Start(itable[f].blk) \in Nat /\ k \in Nat /\ k < ClusterSize
        BY <3>1, <4>1, Address, Constants DEF Offsets
      <4>3. x \in Start(itable[f].blk)..(Start(itable[f].blk) + ClusterSize - 1)
        BY <4>1, <4>2, Constants
      <4> QED
        BY <2>9, <4>1, <4>2, <4>3, PutBytes DEF Unlink, delete_block
    <3>6. Clean'
      <4> SUFFICES ASSUME NEW b \in Blocks \ {0}, NEW k \in Offsets
                   PROVE  /\ b \notin dbmap' => bytes'[Start(b) + k] \in {Zero, Old}
                          /\ \A g \in Files : owner'[g] = b => bytes'[Start(b) + k] \in {g, Zero, Old}
        BY DEF Clean, Start
      <4>1. bytes'[Start(b) + k] = bytes[Start(b) + k] \/ bytes'[Start(b) + k] = Zero
        BY <1>6, Address
      <4>2. CASE b = itable[f].blk
        BY <3>5, <4>2
      <4>3. CASE b # itable[f].blk
        BY <1>5, <3>3, <4>1, <4>3 DEF DataInv, Clean
      <4> QED
        BY <4>2, <4>3
    <3>7. dbmap' \subseteq Blocks
      BY <3>3 DEF DataInv, TypeOK
    <3> QED
      BY <3>4, <3>6, <3>7
  <2> QED
    BY <2>8, <2>9
<1>11. TypeOK'
  BY <1>1, <1>4, <1>7, <1>10 DEF DataInv, TypeOK
<1>12. ASSUME NEW g \in Files, g # f, NEW s \in Nat, Reached(bytes, owner[g], g, s)
       PROVE  Reached(bytes', owner'[g], g, s)
  <2> SUFFICES ASSUME s > 0
               PROVE  /\ owner'[g] # 0
                      /\ \E k \in (s - 1)..(ClusterSize - 1) :
                            bytes'[Start(owner'[g]) + k] \in {g, Zero}
    BY DEF Reached
  <2>1. owner'[g] = owner[g] /\ owner[g] # 0
    BY <1>5, <1>12 DEF Reached
  <2>2. PICK k \in (s - 1)..(ClusterSize - 1) : bytes[Start(owner[g]) + k] \in {g, Zero}
    BY <1>12 DEF Reached
  <2>3. k \in Offsets /\ owner[g] \in Blocks
    BY <1>12, <2>1, Constants DEF Offsets, DataInv, Owners, TypeOK
  <2>4. Start(owner[g]) + k \in Addr
    BY <2>3, Address
  <2> QED
    BY <1>6, <2>1, <2>2, <2>4
<1>13. Sizes'
  <2>1. \A h \in Fids : file_table[h].ino # f /\ file_table[h].ino \in Files \cup {0}
                        /\ file_table[h].size \in Nat
    BY Constants DEF DataInv, TypeOK, Unlink
  <2>2. \A g \in Files : itable[g].size \in Nat
    BY <1>2, Constants DEF InodeType
  <2>3. \A g \in Files : Reached(bytes', owner'[g], g, itable'[g].size)
    <3>1. Reached(bytes', owner'[f], f, itable'[f].size)
      BY <1>3, <1>4 DEF Reached
    <3> QED
      BY <1>4, <1>12, <2>2, <3>1 DEF DataInv, Sizes
  <2>4. ASSUME NEW h \in Fids, file_table[h].ino # 0
        PROVE  Reached(bytes', owner'[file_table[h].ino], file_table[h].ino,
                       file_table[h].size)
    BY <1>1, <1>12, <2>1, <2>4 DEF DataInv, Sizes, Endless
  <2> QED
    BY <1>1, <2>3, <2>4 DEF Sizes
<1>14. Handles' /\ Unused'
  BY <1>1, <1>3, <1>4 DEF DataInv, Handles, Unused, Unlink
<1> QED
  BY <1>1, <1>10, <1>11, <1>13, <1>14 DEF DataInv, CallOK

-----------------------------------------------------------------------------
(* do_write.                                                               *)

LEMMA CallTypes ==
    ASSUME TypeOK
    PROVE  /\ call.fid \in Fids \cup {0} /\ call.blk \in Blocks
           /\ call.offset \in Nat /\ call.rwoffset \in Nat /\ call.left \in Nat /\ call.size \in Nat
           /\ call.offset <= ClusterSize /\ call.left <= ClusterSize /\ call.size <= ClusterSize
  BY Constants DEF TypeOK

LEMMA BeginKeeps ==
    ASSUME MaxEnd <= ClusterSize + 1, DataInv, NEW h \in Fids, NEW r \in Requests, BeginWrite(h, r)
    PROVE  DataInv'
<1>1. PICK f, b : /\ f = file_table[h].ino
                  /\ b = IF itable[f].size = 0 THEN NextBlk ELSE itable[f].blk
  OBVIOUS
<1>2. /\ ~Running /\ file_table[h] # Closed /\ b < NumBlocks /\ dbmap' = dbmap \cup {b}
      /\ call' = [fid |-> h, offset |-> r[1], rwoffset |-> r[1], left |-> r[2],
                  size |-> itable[f].size, blk |-> b]
      /\ UNCHANGED <<bytes, next_ino, itable, file_table>>
  BY <1>1 DEF BeginWrite
<1>3. /\ call'.fid = h /\ call'.offset = r[1] /\ call'.rwoffset = r[1] /\ call'.left = r[2]
      /\ call'.size = itable[f].size /\ call'.blk = b
  BY <1>2
<1>4. Running' /\ CallFile' = f
  BY <1>1, <1>2, <1>3, Constants DEF Running, CallFile, Fids
<1>5. f \in Files /\ itable[f] \in InodeType
  BY <1>1, <1>2 DEF DataInv, TypeOK, Handles
<1>6. /\ r[1] \in Nat /\ r[2] \in Nat /\ r[2] > 0
      /\ r[2] <= ClusterSize
      /\ r[1] = ClusterSize \/ r[1] + r[2] <= ClusterSize
  <2>1. /\ r[1] \in Nat /\ r[2] \in Nat /\ r[2] > 0 /\ r[2] <= ClusterSize
        /\ r[1] + r[2] <= ClusterSize + 1
        /\ (r[1] % ClusterSize) + r[2] <= ClusterSize
    BY Constants DEF Requests
  <2>2. CASE r[1] < ClusterSize
    <3>1. r[1] % ClusterSize = r[1]
      BY <2>1, <2>2, Constants
    <3> QED
      BY <2>1, <3>1
  <2>3. CASE r[1] >= ClusterSize
    BY <2>1, <2>3, Constants
  <2> QED
    BY <2>1, <2>2, <2>3, Constants
<1>7. \A g \in Files : owner[g] = IF itable[g].size > 0 THEN itable[g].blk ELSE 0
  BY <1>2 DEF owner
<1>8. \A g \in Files : g # f => owner'[g] = owner[g]
  BY <1>2, <1>4, <1>7 DEF owner
<1>9. owner'[f] = b
  BY <1>3, <1>4, <1>5 DEF owner
<1>10. \A g \in Files : itable[g].size > 0 => itable[g].blk # 0
  BY <1>7 DEF DataInv, Sizes, Reached
<1>11. /\ b \in Blocks \ {0}
       /\ \/ owner[f] = b /\ b \in dbmap
          \/ owner[f] = 0 /\ b \notin dbmap
  <2>1. CASE itable[f].size = 0
    <3>1. b = NextBlk
      BY <1>1, <2>1
    <3>2. NextBlk \in 0..NumBlocks /\ (NextBlk < NumBlocks => NextBlk \notin dbmap)
      BY Constants, ScanSound DEF NextBlk
    <3>3. b \notin dbmap
      BY <1>2, <3>1, <3>2
    <3>4. b # 0
      BY <3>3 DEF DataInv, Owners
    <3>5. b \in Blocks
      BY <1>2, <3>1, <3>2, Constants DEF Blocks
    <3>6. owner[f] = 0
      BY <1>5, <1>7, <2>1
    <3> QED
      BY <3>3, <3>4, <3>5, <3>6
  <2>2. CASE itable[f].size > 0
    <3>1. b = itable[f].blk /\ b \in Blocks
      BY <1>1, <1>5, <2>2 DEF InodeType
    <3>2. owner[f] = b /\ b # 0
      BY <1>5, <1>7, <1>10, <2>2, <3>1
    <3> QED
      BY <1>5, <3>1, <3>2 DEF DataInv, Owners
  <2> QED
    BY <1>5, <2>1, <2>2, Constants DEF InodeType
<1>12. Owners'
  BY <1>2, <1>5, <1>8, <1>9, <1>11 DEF DataInv, Owners
<1>13. Clean'
  <2> SUFFICES ASSUME NEW c \in Blocks \ {0}, NEW k \in Offsets
               PROVE  /\ c \notin dbmap' => bytes[Start(c) + k] \in {Zero, Old}
                      /\ \A g \in Files : owner'[g] = c => bytes[Start(c) + k] \in {g, Zero, Old}
    BY <1>2 DEF Clean
  <2>1. /\ c \notin dbmap => bytes[Start(c) + k] \in {Zero, Old}
        /\ \A g \in Files : owner[g] = c => bytes[Start(c) + k] \in {g, Zero, Old}
    BY DEF DataInv, Clean
  <2> QED
    BY <1>2, <1>8, <1>9, <1>11, <2>1
<1>14. \A g \in Files : \A s : Reached(bytes, owner[g], g, s) => Reached(bytes', owner'[g], g, s)
  <2> SUFFICES ASSUME NEW g \in Files, NEW s, Reached(bytes, owner[g], g, s), s > 0
               PROVE  owner'[g] = owner[g]
    BY <1>2 DEF Reached
  <2>1. owner[g] # 0
    BY DEF Reached
  <2> QED
    BY <1>8, <1>9, <1>11, <2>1
<1>15. Sizes'
  <2>1. \A g \in Files : Reached(bytes', owner'[g], g, itable'[g].size)
    BY <1>2, <1>14 DEF DataInv, Sizes
  <2>2. ASSUME NEW i \in Fids, file_table[i].ino # 0
        PROVE  Reached(bytes', owner'[file_table[i].ino], file_table[i].ino, file_table[i].size)
    <3>1. PICK g : g = file_table[i].ino
      OBVIOUS
    <3>2. g \in Files /\ Reached(bytes, owner[g], g, file_table[i].size)
      BY <1>2, <2>2, <3>1 DEF DataInv, TypeOK, Sizes, Endless
    <3> QED
      BY <1>14, <3>1, <3>2
  <2> QED
    BY <1>2, <2>1, <2>2 DEF Sizes
<1>16. TypeOK'
  <2>1. dbmap' \subseteq Blocks
    BY <1>2, <1>11 DEF DataInv, TypeOK
  <2>2. call' \in [fid : Fids \cup {0}, offset : 0..ClusterSize, rwoffset : 0..ClusterSize,
                   left : 0..ClusterSize, size : 0..ClusterSize, blk : Blocks]
    <3>1. r[1] \in 0..ClusterSize /\ r[2] \in 0..ClusterSize
      BY <1>6, Constants
    <3>2. itable[f].size \in 0..ClusterSize /\ b \in Blocks
      BY <1>5, <1>11 DEF InodeType
    <3> QED
      BY <1>2, <3>1, <3>2
  <2> QED
    BY <1>2, <2>1, <2>2 DEF DataInv, TypeOK
<1>17. CallOK'
  <2>1. itable[f].size > 0 => itable[f].blk = b
    BY <1>1
  <2>2. Reached(bytes', owner'[f], f, itable[f].size)
    BY <1>5, <1>14 DEF DataInv, Sizes
  <2> QED
    BY <1>2, <1>3, <1>4, <1>5, <1>6, <1>11, <2>1, <2>2 DEF CallOK, Endless
<1>18. Handles' /\ Unused'
  BY <1>2 DEF DataInv, Handles, Unused
<1> QED
  BY <1>12, <1>13, <1>15, <1>16, <1>17, <1>18 DEF DataInv

\* What a turn does to the bytes, with what is left and the size it leaves.
LEMMA TurnEffect ==
    ASSUME DataInv, Turn, ~Endless
    PROVE  /\ Running /\ CallFile \in Files /\ call.fid \in Fids
           /\ UNCHANGED <<dbmap, next_ino, itable>>
           /\ \E s \in 1..ClusterSize :
                /\ \/ s = file_table[call.fid].size
                   \/ s = call.offset + call.left
                   \/ s = call.left
                /\ file_table' = [file_table EXCEPT ![call.fid].size = s]
                /\ \E e \in 0..ClusterSize :
                      call' = [call EXCEPT !.rwoffset = e, !.left = 0, !.size = s]
           /\ \E mem : /\ \/ mem = bytes
                          \/ mem = Put(bytes, Start(call.blk) + call.offset, ClusterSize, Zero)
                       /\ bytes' = Put(mem, Start(call.blk) + call.offset, call.left, CallFile)
<1>1. TypeOK /\ Running /\ call.left > 0
  BY DEF DataInv, Turn
<1>2. call.fid \in Fids /\ CallFile \in Files /\ UNCHANGED <<dbmap, next_ino, itable>>
  BY <1>1, CallTypes DEF DataInv, CallOK, Running, Turn
<1>3. call.rwoffset = call.offset /\ call.offset + call.left <= ClusterSize
  BY <1>1 DEF DataInv, CallOK
<1>4. PICK o, l : o = call.offset /\ l = call.left
  OBVIOUS
<1>5. o \in Nat /\ l \in Nat /\ l > 0 /\ o + l <= ClusterSize /\ ClusterSize \in Nat
  BY <1>1, <1>3, <1>4, CallTypes, Constants
<1>6. Remain = l
  <2>1. o <= ClusterSize /\ ClusterSize - o \in Nat /\ l <= ClusterSize - o
    BY <1>5
  <2>2. Min({ClusterSize - o, l}) = l
    BY <1>5, <2>1, MinMaxOfTwo
  <2> QED
    BY <1>4, <2>1, <2>2 DEF Remain
<1>7. PICK z : z = file_table[call.fid].size
  OBVIOUS
<1>8. z \in 0..ClusterSize
  BY <1>1, <1>2, <1>7 DEF TypeOK
<1>9. CASE Append(file_table[call.fid].ino)
  <2>1. PICK s : s = AppendSize(z, o + l)
    OBVIOUS
  <2>2. s \in 1..ClusterSize /\ (s = z \/ s = o + l)
    BY <1>5, <1>8, <2>1, MinMaxOfTwo DEF AppendSize
  <2>3. /\ bytes' = Put(bytes, Start(call.blk) + o, l, CallFile)
        /\ call' = [call EXCEPT !.rwoffset = o + l, !.left = l - l, !.size = s]
        /\ file_table' = [file_table EXCEPT ![call.fid].size = s]
    BY <1>3, <1>4, <1>6, <1>7, <1>9, <2>1 DEF Append, CallFile
  <2>4. l - l = 0 /\ o + l \in 0..ClusterSize
    BY <1>5
  <2> QED
    BY <1>1, <1>2, <1>4, <1>7, <2>2, <2>3, <2>4
<1>10. CASE Overwrite(file_table[call.fid].ino)
  <2>1. /\ bytes' = Put(Put(bytes, Start(call.blk) + o, ClusterSize, Zero),
                        Start(call.blk) + o, l, CallFile)
        /\ call' = [call EXCEPT !.rwoffset = l, !.left = l - l, !.size = l]
        /\ file_table' = [file_table EXCEPT ![call.fid].size = l]
    BY <1>4, <1>6, <1>10 DEF Overwrite, CallFile
  <2>2. l - l = 0 /\ l \in 1..ClusterSize /\ l \in 0..ClusterSize
    BY <1>5
  <2> QED
    BY <1>1, <1>2, <1>4, <2>1, <2>2
<1> QED
  BY <1>9, <1>10 DEF Turn

LEMMA TurnKeeps == ASSUME DataInv, Turn, ~Endless PROVE DataInv'
<1>1. PICK f, b, o, l : f = CallFile /\ b = call.blk /\ o = call.offset /\ l = call.left
  OBVIOUS
<1>2. PICK h : h = call.fid
  OBVIOUS
<1>3. /\ Running /\ f \in Files /\ h \in Fids
      /\ UNCHANGED <<dbmap, next_ino, itable>>
  BY <1>1, <1>2, TurnEffect
<1>4. PICK s \in 1..ClusterSize, e \in 0..ClusterSize :
         /\ s = file_table[h].size \/ s = o + l \/ s = l
         /\ file_table' = [file_table EXCEPT ![h].size = s]
         /\ call' = [call EXCEPT !.rwoffset = e, !.left = 0, !.size = s]
  BY <1>1, <1>2, TurnEffect
<1>5. PICK a, mem : /\ a = Start(b) + o
                    /\ mem = bytes \/ mem = Put(bytes, a, ClusterSize, Zero)
                    /\ bytes' = Put(mem, a, l, f)
  BY <1>1, TurnEffect
<1>6. /\ o \in Nat /\ l \in Nat /\ l > 0 /\ o + l <= ClusterSize
      /\ b \in Blocks /\ b # 0 /\ f # 0 /\ file_table[h].ino = f
  <2>1. TypeOK /\ call.left > 0
    BY DEF DataInv, Turn
  <2>2. call.offset + call.left <= ClusterSize /\ call.blk # 0
    BY <1>3, <2>1 DEF DataInv, CallOK
  <2> QED
    BY <1>1, <1>2, <1>3, <2>1, <2>2, CallTypes DEF CallFile, Files
<1>7. /\ file_table \in [Fids -> [ino : Files \cup {0}, size : 0..ClusterSize]]
      /\ call \in [fid : Fids \cup {0}, offset : 0..ClusterSize, rwoffset : 0..ClusterSize,
                   left : 0..ClusterSize, size : 0..ClusterSize, blk : Blocks]
  BY DEF DataInv, TypeOK
<1>8. /\ file_table' \in [Fids -> [ino : Files \cup {0}, size : 0..ClusterSize]]
      /\ \A i \in Fids : file_table'[i].ino = file_table[i].ino
      /\ \A i \in Fids : i # h => file_table'[i] = file_table[i]
      /\ file_table'[h].size = s
  <2>1. s \in 0..ClusterSize
    BY Constants
  <2> QED
    BY <1>3, <1>4, <1>7, <2>1
<1>9. /\ call' \in [fid : Fids \cup {0}, offset : 0..ClusterSize, rwoffset : 0..ClusterSize,
                    left : 0..ClusterSize, size : 0..ClusterSize, blk : Blocks]
      /\ call'.fid = h /\ call'.blk = b /\ call'.left = 0 /\ call'.size = s
  <2>1. s \in 0..ClusterSize /\ 0 \in 0..ClusterSize
    BY Constants
  <2> QED
    BY <1>1, <1>2, <1>4, <1>7, <2>1
<1>10. Running' /\ CallFile' = f /\ ~Endless'
  <2>1. call'.offset = call.offset
    BY <1>4, <1>7
  <2> QED
    BY <1>3, <1>6, <1>8, <1>9, <2>1, Constants DEF Running, CallFile, Fids, Endless
<1>11. owner[f] = b /\ \A g \in Files : owner'[g] = owner[g]
  BY <1>1, <1>3, <1>9, <1>10 DEF owner
<1>12. ASSUME NEW c \in Blocks, NEW k \in Offsets
       PROVE  \/ bytes'[Start(c) + k] = bytes[Start(c) + k]
              \/ bytes'[Start(c) + k] = Zero
              \/ bytes'[Start(c) + k] = f /\ c = b
  <2>1. PICK x : x = Start(c) + k
    OBVIOUS
  <2>2. x \in Addr
    BY <2>1, Address
  <2>3. bytes'[x] = IF x \in a..(a + l - 1) THEN f ELSE mem[x]
    BY <1>5, <2>2, PutBytes
  <2>4. mem[x] = bytes[x] \/ mem[x] = Zero
    BY <1>5, <2>2, PutBytes
  <2>5. ASSUME x \in a..(a + l - 1) PROVE c = b
    <3>1. 0 \in Offsets
      BY Constants DEF Offsets
    <3>2. Start(b) \in Nat
      BY <1>6, <3>1, Address
    <3>3. PICK j : j = x - Start(b)
      OBVIOUS
    <3>4. j \in Offsets /\ Start(c) + k = Start(b) + j
      BY <1>5, <1>6, <2>1, <2>5, <3>2, <3>3, Constants DEF Offsets, Addr
    <3> QED
      BY <1>6, <3>4, Address
  <2> QED
    BY <2>1, <2>3, <2>4, <2>5
<1>13. bytes'[Start(b) + (o + l - 1)] = f /\ o + l - 1 \in Offsets
  <2>1. o + l - 1 \in Offsets
    BY <1>6, Constants DEF Offsets
  <2>2. PICK x : x = Start(b) + (o + l - 1)
    OBVIOUS
  <2>3. x \in Addr /\ Start(b) \in Nat
    BY <1>6, <2>1, <2>2, Address
  <2>4. x \in a..(a + l - 1)
    BY <1>5, <1>6, <2>2, <2>3
  <2> QED
    BY <1>5, <2>1, <2>2, <2>3, <2>4, PutBytes
<1>14. bytes' \in [Addr -> {Entry, Old, Zero} \cup Files]
  <2>1. PICK V : V = {Entry, Old, Zero} \cup Files
    OBVIOUS
  <2>2. bytes \in [Addr -> V] /\ Zero \in V /\ f \in V
    BY <1>3, <2>1 DEF DataInv, TypeOK
  <2>3. mem \in [Addr -> V]
    BY <1>5, <2>2, PutType
  <2> QED
    BY <1>5, <2>1, <2>2, <2>3, PutType
<1>15. TypeOK'
  BY <1>3, <1>8, <1>9, <1>14 DEF DataInv, TypeOK
<1>16. Owners'
  BY <1>3, <1>11 DEF DataInv, Owners
<1>17. Clean'
  <2> SUFFICES ASSUME NEW c \in Blocks \ {0}, NEW k \in Offsets
               PROVE  /\ c \notin dbmap' => bytes'[Start(c) + k] \in {Zero, Old}
                      /\ \A g \in Files : owner'[g] = c => bytes'[Start(c) + k] \in {g, Zero, Old}
    BY DEF Clean, Start
  <2>1. /\ c \notin dbmap => bytes[Start(c) + k] \in {Zero, Old}
        /\ \A g \in Files : owner[g] = c => bytes[Start(c) + k] \in {g, Zero, Old}
    BY DEF DataInv, Clean
  <2>2. \/ bytes'[Start(c) + k] = bytes[Start(c) + k]
        \/ bytes'[Start(c) + k] = Zero
        \/ bytes'[Start(c) + k] = f /\ c = b
    BY <1>12
  <2>3. b \in dbmap /\ \A g \in Files : owner[g] = b => g = f
    BY <1>3, <1>6, <1>11 DEF DataInv, Owners
  <2> QED
    BY <1>3, <1>11, <2>1, <2>2, <2>3
<1>18. ASSUME NEW g \in Files, NEW t \in Nat, Reached(bytes, owner[g], g, t)
       PROVE  Reached(bytes', owner'[g], g, t)
  <2> SUFFICES ASSUME t > 0
               PROVE  /\ owner'[g] # 0
                      /\ \E k \in (t - 1)..(ClusterSize - 1) :
                            bytes'[Start(owner'[g]) + k] \in {g, Zero}
    BY DEF Reached
  <2>1. owner'[g] = owner[g] /\ owner[g] # 0
    BY <1>11, <1>18 DEF Reached
  <2>2. PICK k \in (t - 1)..(ClusterSize - 1) : bytes[Start(owner[g]) + k] \in {g, Zero}
    BY <1>18 DEF Reached
  <2>3. k \in Offsets /\ owner[g] \in Blocks
    BY <1>18, <2>1, Constants DEF Offsets, DataInv, Owners, TypeOK
  <2>4. owner[g] = b => g = f
    BY <1>3, <1>6, <1>11 DEF DataInv, Owners
  <2>5. bytes'[Start(owner[g]) + k] \in {g, Zero}
    BY <1>12, <2>2, <2>3, <2>4
  <2> QED
    BY <2>1, <2>2, <2>5
<1>19. Reached(bytes', owner'[f], f, s)
  <2>1. CASE s = file_table[h].size
    <3>1. Reached(bytes, owner[f], f, s)
      BY <1>3, <1>6, <2>1 DEF DataInv, Sizes
    <3> QED
      BY <1>3, <1>18, <3>1, Constants
  <2>2. CASE s = o + l \/ s = l
    <3>1. o + l - 1 \in (s - 1)..(ClusterSize - 1)
      BY <1>6, <2>2, Constants
    <3> QED
      BY <1>6, <1>11, <1>13, <3>1, <1>3 DEF Reached
  <2> QED
    BY <1>4, <2>1, <2>2
<1>20. Sizes'
  <2>1. \A g \in Files : itable[g].size \in Nat
    BY Constants DEF DataInv, TypeOK, InodeType
  <2>2. \A g \in Files : Reached(bytes', owner'[g], g, itable'[g].size)
    BY <1>3, <1>18, <2>1 DEF DataInv, Sizes
  <2>3. ASSUME NEW i \in Fids, file_table'[i].ino # 0
        PROVE  Reached(bytes', owner'[file_table'[i].ino], file_table'[i].ino,
                       file_table'[i].size)
    <3>1. PICK g, t : g = file_table[i].ino /\ t = file_table[i].size
      OBVIOUS
    <3>2. file_table'[i].ino = g /\ g # 0
      BY <1>8, <2>3, <3>1
    <3>3. g \in Files /\ t \in Nat
      BY <1>7, <3>1, <3>2, Constants
    <3>4. Reached(bytes, owner[g], g, t)
      BY <3>1, <3>2 DEF DataInv, Sizes
    <3>5. Reached(bytes', owner'[g], g, file_table'[i].size)
      <4>1. CASE i = h
        BY <1>6, <1>8, <1>19, <3>1, <4>1
      <4>2. CASE i # h
        BY <1>8, <1>18, <3>1, <3>3, <3>4, <4>2
      <4> QED
        BY <4>1, <4>2
    <3> QED
      BY <3>2, <3>5
  <2> QED
    BY <2>2, <2>3 DEF Sizes
<1>21. Handles'
  <2>1. \A i \in Fids : file_table[i].ino = 0 => i # h
    BY <1>6
  <2> QED
    BY <1>3, <1>8, <2>1 DEF DataInv, Handles
<1>22. Unused'
  BY <1>3 DEF DataInv, Unused
<1>23. CallOK'
  <2>1. itable[f].size > 0 => itable[f].blk = b
    BY <1>1, <1>3 DEF DataInv, CallOK
  <2>2. s > 0 /\ ~(0 > 0)
    BY Constants
  <2> QED
    BY <1>3, <1>6, <1>9, <1>10, <1>19, <2>1, <2>2 DEF CallOK
<1> QED
  BY <1>15, <1>16, <1>17, <1>20, <1>21, <1>22, <1>23 DEF DataInv

\* A turn that takes nothing: only its handle and its copy of the inode change.
LEMMA EndlessKeeps == ASSUME DataInv, Turn, Endless PROVE DataInv'
<1>1. /\ TypeOK /\ Running /\ call.left > 0 /\ call.offset = ClusterSize
      /\ UNCHANGED <<dbmap, next_ino, itable>>
  BY DEF DataInv, Turn, Endless
<1>2. PICK h, f, l, z : /\ h = call.fid /\ f = CallFile /\ l = call.left
                        /\ z = file_table[call.fid].size
  OBVIOUS
<1>3. h \in Fids /\ f \in Files /\ l \in Nat /\ l > 0
  BY <1>1, <1>2, CallTypes DEF DataInv, CallOK, Running
<1>4. z \in 0..ClusterSize /\ call.size \in 0..ClusterSize /\ call.rwoffset = ClusterSize
  BY <1>1, <1>2, <1>3 DEF TypeOK, DataInv, CallOK
<1>5. Remain = 0
  <2>1. Min({0, l}) = 0 /\ ClusterSize - ClusterSize = 0
    BY <1>3, Constants, MinMaxOfTwo
  <2> QED
    BY <1>1, <1>2, <2>1, Constants DEF Remain
<1>6. AppendSize(z, ClusterSize + 0) = ClusterSize
  <2>1. z \in Nat /\ z <= ClusterSize
    BY <1>4, Constants
  <2> QED
    BY <2>1, Constants, MinMaxOfTwo DEF AppendSize
<1>7. Append(f)
  <2>1. ~(call.size > call.rwoffset)
    BY <1>4, Constants
  <2> QED
    BY <1>2, <2>1 DEF Turn, Overwrite, CallFile
<1>8. /\ bytes' = Put(bytes, Start(call.blk) + call.offset, 0, f)
      /\ call' = [call EXCEPT !.rwoffset = ClusterSize + 0, !.left = l - 0, !.size = ClusterSize]
      /\ file_table' = [file_table EXCEPT ![h].size = ClusterSize]
  BY <1>2, <1>4, <1>5, <1>6, <1>7 DEF Append
<1>9. bytes' = bytes
  <2>1. PICK a : a = Start(call.blk) + call.offset /\ a \in Int
    BY <1>1, CallTypes, Constants DEF Start, Blocks
  <2>2. a..(a + 0 - 1) = {}
    BY <2>1
  <2>3. bytes' = [x \in Addr |-> bytes[x]]
    BY <1>8, <2>1, <2>2 DEF Put
  <2>4. \E V : bytes \in [Addr -> V]
    BY <1>1 DEF TypeOK
  <2> QED
    BY <2>3, <2>4
<1>10. /\ call \in [fid : Fids \cup {0}, offset : 0..ClusterSize, rwoffset : 0..ClusterSize,
                     left : 0..ClusterSize, size : 0..ClusterSize, blk : Blocks]
       /\ file_table \in [Fids -> [ino : Files \cup {0}, size : 0..ClusterSize]]
       /\ ClusterSize \in 0..ClusterSize /\ ClusterSize + 0 = ClusterSize /\ l - 0 = l
       /\ l \in 0..ClusterSize
  BY <1>1, <1>2, <1>3, Constants DEF TypeOK
<1>11. /\ call' \in [fid : Fids \cup {0}, offset : 0..ClusterSize, rwoffset : 0..ClusterSize,
                      left : 0..ClusterSize, size : 0..ClusterSize, blk : Blocks]
       /\ call'.fid = h /\ call'.blk = call.blk /\ call'.left = l
       /\ call'.offset = ClusterSize /\ call'.rwoffset = ClusterSize
  BY <1>1, <1>2, <1>8, <1>10
<1>12. /\ file_table' \in [Fids -> [ino : Files \cup {0}, size : 0..ClusterSize]]
       /\ \A i \in Fids : file_table'[i].ino = file_table[i].ino
       /\ \A i \in Fids : i # h => file_table'[i] = file_table[i]
  BY <1>3, <1>8, <1>10
<1>13. TypeOK'
  BY <1>1, <1>9, <1>11, <1>12 DEF TypeOK
<1>14. Running' /\ CallFile' = f /\ Endless'
  BY <1>1, <1>2, <1>3, <1>11, <1>12 DEF Running, CallFile, Endless
<1>15. \A g \in Files : owner'[g] = owner[g]
  BY <1>1, <1>2, <1>11, <1>14 DEF owner
<1>16. /\ Owners' /\ Clean'
       /\ \A g \in Files : \A t : Reached(bytes, owner[g], g, t) => Reached(bytes', owner'[g], g, t)
  BY <1>1, <1>9, <1>15, SameOwners
<1>17. Sizes'
  <2>1. \A g \in Files : Reached(bytes', owner'[g], g, itable'[g].size)
    BY <1>1, <1>16 DEF DataInv, Sizes
  <2>2. ASSUME NEW i \in Fids, file_table'[i].ino # 0, i # h
        PROVE  Reached(bytes', owner'[file_table'[i].ino], file_table'[i].ino,
                       file_table'[i].size)
    <3>1. PICK g : g = file_table[i].ino
      OBVIOUS
    <3>2. g \in Files /\ Reached(bytes, owner[g], g, file_table[i].size)
      BY <1>2, <1>10, <1>12, <2>2, <3>1 DEF DataInv, Sizes
    <3> QED
      BY <1>12, <1>16, <2>2, <3>1, <3>2
  <2> QED
    BY <1>11, <1>14, <2>1, <2>2 DEF Sizes
<1>18. Handles'
  <2>1. file_table[h].ino # 0
    BY <1>2, <1>3 DEF CallFile, Files
  <2> QED
    BY <1>1, <1>12, <2>1 DEF DataInv, Handles
<1>19. Unused' /\ CallOK'
  <2>1. l # 0 /\ call.blk # 0 /\ (itable[f].size > 0 => itable[f].blk = call.blk)
    BY <1>1, <1>2, <1>3 DEF DataInv, CallOK
  <2> QED
    BY <1>1, <1>3, <1>11, <1>14, <2>1 DEF DataInv, Unused, CallOK
<1> QED
  BY <1>13, <1>16, <1>17, <1>18, <1>19 DEF DataInv

\* The inode gets the block and the size of the call, which owned it already.
LEMMA EndKeeps == ASSUME DataInv, EndWrite PROVE DataInv'
<1>1. PICK f, b, s : f = CallFile /\ b = call.blk /\ s = call.size
  OBVIOUS
<1>2. /\ Running /\ call.left = 0 /\ call' = NoCall
      /\ UNCHANGED <<bytes, dbmap, next_ino, file_table>>
      /\ itable' = [itable EXCEPT ![f] = [used |-> TRUE, size |-> s, blk |-> b]]
  BY <1>1 DEF EndWrite, CallFile
<1>3. f \in Files /\ b # 0 /\ s > 0 /\ Reached(bytes, owner[f], f, s) /\ ~Endless
  BY <1>1, <1>2 DEF DataInv, CallOK
<1>4. b \in Blocks /\ s \in 0..ClusterSize /\ call.fid \in Fids
  <2>1. call.fid # 0
    BY <1>2 DEF Running
  <2> QED
    BY <1>1, <2>1 DEF DataInv, TypeOK
<1>5. itable \in [Files -> InodeType]
  BY DEF DataInv, TypeOK
<1>6. /\ itable' \in [Files -> InodeType]
      /\ itable'[f].used /\ itable'[f].size = s /\ itable'[f].blk = b
      /\ \A g \in Files : g # f => itable'[g] = itable[g]
  <2>1. [used |-> TRUE, size |-> s, blk |-> b] \in InodeType
    BY <1>4 DEF InodeType
  <2> QED
    BY <1>2, <1>3, <1>5, <2>1
<1>7. ~Running'
  BY <1>2 DEF Running, NoCall
<1>8. \A g \in Files : owner'[g] = owner[g]
  BY <1>1, <1>2, <1>3, <1>6, <1>7 DEF owner
<1>9. /\ Owners' /\ Clean'
      /\ \A g \in Files : \A t : Reached(bytes, owner[g], g, t) => Reached(bytes', owner'[g], g, t)
  BY <1>2, <1>8, SameOwners
<1>10. TypeOK'
  <2>1. call' \in [fid : Fids \cup {0}, offset : 0..ClusterSize, rwoffset : 0..ClusterSize,
                   left : 0..ClusterSize, size : 0..ClusterSize, blk : Blocks]
    <3>1. 0 \in Blocks /\ 0 \in 0..ClusterSize
      BY Constants DEF Blocks
    <3> QED
      BY <1>2, <3>1 DEF NoCall
  <2> QED
    BY <1>2, <1>6, <2>1 DEF DataInv, TypeOK
<1>11. Sizes'
  <2>1. \A g \in Files : Reached(bytes', owner'[g], g, itable'[g].size)
    <3>1. Reached(bytes', owner'[f], f, itable'[f].size)
      BY <1>3, <1>6, <1>9
    <3>2. \A g \in Files : g # f => Reached(bytes', owner'[g], g, itable'[g].size)
      BY <1>6, <1>9 DEF DataInv, Sizes
    <3> QED
      BY <3>1, <3>2
  <2>2. ASSUME NEW i \in Fids, file_table[i].ino # 0
        PROVE  Reached(bytes', owner'[file_table[i].ino], file_table[i].ino, file_table[i].size)
    <3>1. PICK g : g = file_table[i].ino
      OBVIOUS
    <3>2. g \in Files /\ Reached(bytes, owner[g], g, file_table[i].size)
      BY <1>3, <2>2, <3>1 DEF DataInv, TypeOK, Sizes
    <3> QED
      BY <1>9, <3>1, <3>2
  <2> QED
    BY <1>2, <2>1, <2>2 DEF Sizes
<1>12. itable[f].used /\ f < next_ino
  <2>1. f # 0
    BY <1>3 DEF Files
  <2>2. itable[f].used
    BY <1>1, <1>4, <2>1 DEF DataInv, Handles, CallFile
  <2>3. f \in Nat /\ next_ino \in Nat
    BY <1>3, Constants DEF DataInv, TypeOK, Files
  <2> QED
    BY <1>3, <2>2, <2>3 DEF DataInv, Unused
<1>13. Handles'
  <2>1. \A g \in Files : itable[g].used => itable'[g].used
    BY <1>6
  <2>2. \A i \in Fids : file_table[i].ino \in Files \cup {0}
    BY DEF DataInv, TypeOK
  <2> QED
    BY <1>2, <2>1, <2>2 DEF DataInv, Handles
<1>14. Unused'
  <2>1. next_ino \in Nat /\ \A g \in Files : g \in Nat
    BY Constants DEF DataInv, TypeOK, Files
  <2> QED
    BY <1>2, <1>6, <1>12, <2>1 DEF DataInv, Unused
<1> QED
  BY <1>7, <1>9, <1>10, <1>11, <1>13, <1>14 DEF DataInv, CallOK

LEMMA DataStutter == ASSUME DataInv, UNCHANGED vars PROVE DataInv'
<1>1. UNCHANGED <<bytes, dbmap, next_ino, itable, file_table, call>>
  BY DEF vars
<1>2. (Running' <=> Running) /\ CallFile' = CallFile
  BY <1>1 DEF Running, CallFile
<1>3. owner' = owner /\ (Endless' <=> Endless)
  BY <1>1, <1>2 DEF owner, Endless
<1> QED
  BY <1>1, <1>2, <1>3
     DEF DataInv, TypeOK, Owners, Clean, Sizes, Reached, Handles, Unused, CallOK, Start

LEMMA DataStep ==
    ASSUME MaxEnd <= ClusterSize + 1, DataInv, [Next]_vars
    PROVE  DataInv'
<1>1. CASE Create
  BY <1>1, CreateKeeps
<1>2. ASSUME NEW f \in Files, Open(f) PROVE DataInv'
  BY <1>2, OpenFileKeeps
<1>3. ASSUME NEW f \in Files, Unlink(f) PROVE DataInv'
  BY <1>3, UnlinkKeeps
<1>4. ASSUME NEW h \in Fids, Close(h) PROVE DataInv'
  BY <1>4, CloseKeeps
<1>5. ASSUME NEW h \in Fids, NEW r \in Requests, BeginWrite(h, r) PROVE DataInv'
  BY <1>5, BeginKeeps
<1>6. CASE Turn
  BY <1>6, TurnKeeps, EndlessKeeps
<1>7. CASE EndWrite
  BY <1>7, EndKeeps
<1>8. CASE UNCHANGED vars
  BY <1>8, DataStutter
<1> QED
  BY <1>1, <1>2, <1>3, <1>4, <1>5, <1>6, <1>7, <1>8 DEF Next

LEMMA DataInvariant == ASSUME MaxEnd <= ClusterSize + 1 PROVE Spec => []DataInv
<1>1. Init => DataInv
  BY DataInit
<1>2. DataInv /\ [Next]_vars => DataInv'
  BY DataStep
<1> QED
  BY <1>1, <1>2, PTL DEF Spec

-----------------------------------------------------------------------------

(***************************************************************************)
(* Every value keeps its range, and no file outgrows its block, however    *)
(* do_write adds up offsets and sizes of handles, while clients write into *)
(* the first cluster only, or to its end.                                  *)
(***************************************************************************)
THEOREM SizesFit == ASSUME MaxEnd <= ClusterSize + 1 PROVE Spec => []TypeOK
<1>1. DataInv => TypeOK
  BY DEF DataInv
<1> QED
  BY <1>1, DataInvariant, PTL

(***************************************************************************)
(* A file never shows bytes of another one: a block has one owner, and the *)
(* bytes of a block that is free are zeroes or older than the format, so   *)
(* do_write may take it without clearing it.                               *)
(***************************************************************************)
THEOREM NothingLeaks == ASSUME MaxEnd <= ClusterSize + 1 PROVE Spec => []NothingOfOthers
  BY ReplyClean, DataInvariant, PTL

(***************************************************************************)
(* The size of a file is never past every byte of its block that was       *)
(* written for it or zeroed: a handle may bring an older size back, but    *)
(* never one past what its block was written or cleared to.                *)
(***************************************************************************)
THEOREM NoSizeTooLarge == ASSUME MaxEnd <= ClusterSize + 1 PROVE Spec => []SizeReached
  BY SizesReached, DataInvariant, PTL
=============================================================================
