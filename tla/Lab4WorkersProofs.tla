-------------------------- MODULE Lab4WorkersProofs --------------------------
(***************************************************************************)
(* What threads that overlap cannot spoil, for any number of them, of      *)
(* files, of inodes, of blocks and of handles.                             *)
(*                                                                         *)
(* A cluster on the device that is behind its buffer is owed by a call     *)
(* that has not flushed it yet: calls change a buffer first, flush after   *)
(* that, and a call that fails has changed nothing.  A descriptor that a   *)
(* call is to fill in is kept for that call alone.                         *)
(*                                                                         *)
(* What goes right while no two calls of a kind have overlapped: only one  *)
(* call is then between the scan and the flush of numbers, of blocks or of *)
(* handles, so that what it read of a bitmap before a store is still in    *)
(* the buffer at the store, and what it found unused is still unused.      *)
(***************************************************************************)
EXTENDS Lab4Workers, TLAPS

Maps == {"sb", "ibmap", "dbmap", "itable"}

\* Where calls may be.
CreatePcs == {"probe", "nothing", "load", "store", "hint", "enter", "flush", "find", "use",
              "fill"}
WritePcs  == {"probe", "nothing", "load", "store", "data", "back", "flush"}
UnlinkPcs == {"load", "store", "zero", "forget", "flush"}

\* The fields of a call that changes buffers.
ChangerFields == {"op", "pc", "map", "pos", "count", "reg", "done", "fd", "ino"}

CreateOK(c) == /\ c.op = "create" /\ c.pc \in CreatePcs /\ c.map = "ibmap"
               /\ ChangerFields \cup {"fid"} \subseteq DOMAIN c
               /\ c.done \in 0..2
               /\ c.pc \notin {"flush", "find", "use", "fill"} => c.done = 0
OpenOK(c)   == /\ c.op = "open" /\ c.pc \in {"find", "use", "fill"}
               /\ {"op", "pc", "fd", "fid"} \subseteq DOMAIN c
WriteOK(c)  == /\ c.op = "write" /\ c.pc \in WritePcs /\ c.map = "dbmap"
               /\ ChangerFields \subseteq DOMAIN c
               /\ c.done \in 0..2
               /\ c.pc # "flush" => c.done = 0
UnlinkOK(c) == /\ c.op = "unlink" /\ c.pc \in UnlinkPcs /\ c.map \in {"ibmap", "dbmap"}
               /\ ChangerFields \subseteq DOMAIN c
               /\ c.done \in 0..3
               /\ c.pc # "flush" => c.done = 0

ReleaseOK(c) == /\ c.op = "release" /\ c.pc \in {"clear", "free"}
                /\ {"op", "pc", "fd", "fid"} \subseteq DOMAIN c

CallOK(c) == \/ c = Idle \/ CreateOK(c) \/ OpenOK(c) \/ WriteOK(c) \/ UnlinkOK(c)
             \/ ReleaseOK(c)

\* What has the buffers and the device have, and calls of the right shape.
Shaped == /\ mem = [m \in Maps |-> mem[m]] /\ disk = [m \in Maps |-> disk[m]]
          /\ DOMAIN call = Workers
          /\ \A w \in Workers : CallOK(call[w])

\* Calls that have changed a buffer, or may have.
Changed == ({"create"} \X {"hint", "enter", "flush"})
             \cup ({"write"} \X {"data", "back", "flush"})
             \cup ({"unlink"} \X UnlinkPcs)

\* The clusters that the call c has still to flush.
Owes(c) == IF <<c.op, c.pc>> \in Changed
           THEN {FlushOrder(c.op)[k] : k \in (c.done + 1)..Len(FlushOrder(c.op))}
           ELSE {}

Behind(m) == disk[m] # mem[m]

Owed == \A m \in Maps : Behind(m) => \E w \in Workers : m \in Owes(call[w])

-----------------------------------------------------------------------------
LEMMA Orders ==
    /\ Len(FlushOrder("create")) = 3
    /\ FlushOrder("create")[1] = "sb" /\ FlushOrder("create")[2] = "ibmap"
    /\ FlushOrder("create")[3] = "itable"
    /\ Len(FlushOrder("write")) = 3
    /\ FlushOrder("write")[1] = "sb" /\ FlushOrder("write")[2] = "itable"
    /\ FlushOrder("write")[3] = "dbmap"
    /\ Len(FlushOrder("unlink")) = 4
    /\ FlushOrder("unlink")[1] = "sb" /\ FlushOrder("unlink")[2] = "ibmap"
    /\ FlushOrder("unlink")[3] = "dbmap" /\ FlushOrder("unlink")[4] = "itable"
<1>1. /\ FlushOrder("create") = <<"sb", "ibmap", "itable">>
      /\ FlushOrder("write") = <<"sb", "itable", "dbmap">>
      /\ FlushOrder("unlink") = <<"sb", "ibmap", "dbmap", "itable">>
  BY DEF FlushOrder
<1> QED
  BY <1>1

LEMMA IdleFacts == Idle.op = "none" /\ Idle.pc = "idle" /\ Owes(Idle) = {}
<1>1. Idle.op = "none" /\ Idle.pc = "idle"
  BY DEF Idle
<1> QED
  BY <1>1 DEF Owes, Changed, UnlinkPcs

\* Before it flushes a call owes all that it may have changed.
LEMMA OwesAll ==
    ASSUME NEW c, CallOK(c), <<c.op, c.pc>> \in Changed, c.pc # "flush"
    PROVE  /\ c.op = "create" => Owes(c) = {"sb", "ibmap", "itable"}
           /\ c.op = "write"  => Owes(c) = {"sb", "itable", "dbmap"}
           /\ c.op = "unlink" => Owes(c) = Maps
<1>1. c.done = 0
  BY IdleFacts DEF CallOK, Changed, CreateOK, OpenOK, ReleaseOK, WriteOK, UnlinkOK, UnlinkPcs
<1>2. Owes(c) = {FlushOrder(c.op)[k] : k \in 1..Len(FlushOrder(c.op))}
  BY <1>1 DEF Owes
<1>3. 1..3 = {1, 2, 3} /\ 1..4 = {1, 2, 3, 4}
  OBVIOUS
<1>4. CASE c.op = "create"
  <2>1. Owes(c) = {FlushOrder("create")[k] : k \in {1, 2, 3}}
    BY <1>2, <1>3, <1>4, Orders
  <2> QED
    BY <1>4, <2>1, Orders
<1>5. CASE c.op = "write"
  <2>1. Owes(c) = {FlushOrder("write")[k] : k \in {1, 2, 3}}
    BY <1>2, <1>3, <1>5, Orders
  <2> QED
    BY <1>5, <2>1, Orders
<1>6. CASE c.op = "unlink"
  <2>1. Owes(c) = {FlushOrder("unlink")[k] : k \in {1, 2, 3, 4}}
    BY <1>2, <1>3, <1>6, Orders
  <2> QED
    BY <1>6, <2>1, Orders DEF Maps
<1> QED
  BY <1>4, <1>5, <1>6

LEMMA ShapedInit == Init => Shaped /\ Owed
<1> SUFFICES ASSUME Init PROVE Shaped /\ Owed
  OBVIOUS
<1>1. mem = [m \in Maps |-> mem[m]] /\ disk = mem
  BY DEF Init, Maps
<1> QED
  BY <1>1 DEF Init, Shaped, Owed, Behind, CallOK

-----------------------------------------------------------------------------
(* Steps.                                                                  *)

\* The call of w becomes d, the others stay.
Becomes(w, d) == /\ DOMAIN call' = Workers /\ call'[w] = d
                 /\ \A v \in Workers \ {w} : call'[v] = call[v]

\* A step that leaves buffers and device alone and owes no less.
LEMMA Quiet ==
    ASSUME Shaped, Owed, NEW w \in Workers, NEW d, Becomes(w, d), CallOK(d),
           UNCHANGED <<mem, disk>>, Owes(call[w]) \subseteq Owes(d)
    PROVE  Shaped' /\ Owed'
<1>1. Shaped'
  BY DEF Shaped, Becomes
<1>2. Owed'
  BY DEF Owed, Behind, Becomes, Shaped
<1> QED
  BY <1>1, <1>2

\* A step that changes the buffer m and owes it.
LEMMA Changes ==
    ASSUME Shaped, Owed, NEW w \in Workers, NEW d, Becomes(w, d), CallOK(d),
           NEW m \in Maps, NEW x, mem' = [mem EXCEPT ![m] = x], disk' = disk,
           m \in Owes(d), Owes(call[w]) \subseteq Owes(d)
    PROVE  Shaped' /\ Owed'
<1>1. mem' = [n \in Maps |-> mem'[n]] /\ \A n \in Maps \ {m} : mem'[n] = mem[n]
  BY DEF Shaped
<1>2. Shaped'
  BY <1>1 DEF Shaped, Becomes
<1>3. Owed'
  BY <1>1 DEF Owed, Behind, Becomes, Shaped
<1> QED
  BY <1>2, <1>3

LEMMA NotChanged ==
    \A c : /\ c.pc \in {"idle", "probe", "nothing", "find", "use", "fill", "clear", "free"} =>
                  Owes(c) = {}
           /\ c.op \in {"create", "write"} /\ c.pc \in {"load", "store"} => Owes(c) = {}
  BY DEF Owes, Changed, UnlinkPcs

LEMMA BeginKeeps ==
    ASSUME Shaped, Owed, NEW w \in Workers, NEW c, CallOK(c), Begin(w, c),
           UNCHANGED <<mem, disk>>
    PROVE  Shaped' /\ Owed'
<1>1. Becomes(w, c)
  BY DEF Begin, Becomes, Shaped
<1>2. Owes(call[w]) = {}
  BY NotChanged DEF Begin, Busy
<1> QED
  BY <1>1, <1>2, Quiet

LEMMA ProbeKeeps == ASSUME Shaped, Owed, NEW w \in Workers, Probe(w) PROVE Shaped' /\ Owed'
<1>1. CallOK(call[w]) /\ call[w].pc = "probe"
  BY DEF Shaped, Probe
<1>2. CreateOK(call[w]) \/ WriteOK(call[w])
  BY <1>1, IdleFacts DEF CallOK, OpenOK, ReleaseOK, UnlinkOK, UnlinkPcs
<1>3. PICK d : d = call'[w]
  OBVIOUS
<1>4. /\ Becomes(w, d) /\ d.pc \in {"probe", "nothing", "load"}
      /\ d.op = call[w].op /\ d.map = call[w].map /\ d.done = call[w].done
      /\ DOMAIN d = DOMAIN call[w]
  BY <1>1, <1>2, <1>3 DEF Probe, Goto, Becomes, Shaped, CreateOK, WriteOK, ChangerFields
<1>5. CallOK(d)
  BY <1>1, <1>2, <1>4 DEF CallOK, CreateOK, WriteOK, CreatePcs, WritePcs
<1>6. Owes(call[w]) = {}
  BY <1>1, NotChanged
<1> QED
  BY <1>4, <1>5, <1>6, Quiet DEF Probe

LEMMA NothingKeeps == ASSUME Shaped, Owed, NEW w \in Workers, Nothing(w) PROVE Shaped' /\ Owed'
<1>1. /\ CallOK(call[w])
      /\ call[w].pc = "nothing" \/ (call[w].pc = "load" /\ call[w].op # "unlink")
  BY DEF Shaped, Nothing
<1>2. CreateOK(call[w]) \/ WriteOK(call[w])
  BY <1>1, IdleFacts DEF CallOK, OpenOK, ReleaseOK, UnlinkOK, UnlinkPcs
<1>3. Becomes(w, Idle)
  BY DEF Nothing, Return, Becomes, Shaped
<1>4. Owes(call[w]) = {}
  BY <1>1, <1>2, NotChanged DEF CreateOK, WriteOK
<1>5. PICK m : m = call[w].map
  OBVIOUS
<1>6. m \in Maps /\ mem' = [mem EXCEPT ![m] = disk[m]] /\ disk' = disk
  BY <1>2, <1>5 DEF Nothing, CreateOK, WriteOK, Maps
<1>7. /\ mem' = [n \in Maps |-> mem'[n]]
      /\ \A n \in Maps : mem'[n] = mem[n] \/ mem'[n] = disk[n]
  BY <1>6 DEF Shaped
<1>8. Shaped'
  BY <1>3, <1>6, <1>7 DEF Shaped, Becomes, CallOK
<1>9. Owed'
  BY <1>3, <1>4, <1>6, <1>7 DEF Owed, Behind, Becomes, Shaped
<1> QED
  BY <1>8, <1>9

LEMMA LoadKeeps == ASSUME Shaped, Owed, NEW w \in Workers, Load(w) PROVE Shaped' /\ Owed'
<1>1. CallOK(call[w]) /\ call[w].pc = "load"
  BY DEF Shaped, Load
<1>2. CreateOK(call[w]) \/ WriteOK(call[w]) \/ UnlinkOK(call[w])
  BY <1>1, IdleFacts DEF CallOK, OpenOK, ReleaseOK
<1>3. PICK d : d = call'[w]
  OBVIOUS
<1>4. /\ Becomes(w, d) /\ d.pc = "store"
      /\ d.op = call[w].op /\ d.map = call[w].map /\ d.done = call[w].done
      /\ DOMAIN d = DOMAIN call[w]
  BY <1>1, <1>2, <1>3
     DEF Load, Becomes, Shaped, CreateOK, WriteOK, UnlinkOK, ChangerFields
<1>5. CallOK(d)
  BY <1>1, <1>2, <1>4 DEF CallOK, CreateOK, WriteOK, UnlinkOK, CreatePcs, WritePcs, UnlinkPcs
<1>6. Owes(call[w]) \subseteq Owes(d)
  BY <1>1, <1>2, <1>4 DEF CreateOK, WriteOK, UnlinkOK, Owes, Changed, UnlinkPcs
<1> QED
  BY <1>4, <1>5, <1>6, Quiet DEF Load

LEMMA StoreKeeps == ASSUME Shaped, Owed, NEW w \in Workers, Store(w) PROVE Shaped' /\ Owed'
<1>1. CallOK(call[w]) /\ call[w].pc = "store"
  BY DEF Shaped, Store
<1>2. CreateOK(call[w]) \/ WriteOK(call[w]) \/ UnlinkOK(call[w])
  BY <1>1, IdleFacts DEF CallOK, OpenOK, ReleaseOK
<1>3. PICK d : d = call'[w]
  OBVIOUS
<1>4. /\ Becomes(w, d) /\ d.pc = AfterStore(call[w].op, call[w].map)
      /\ d.op = call[w].op /\ d.map = call[w].map /\ d.done = call[w].done
      /\ DOMAIN d = DOMAIN call[w]
  BY <1>1, <1>2, <1>3
     DEF Store, Becomes, Shaped, CreateOK, WriteOK, UnlinkOK, ChangerFields
<1>5. /\ CreateOK(call[w]) => d.pc = "hint"
      /\ WriteOK(call[w]) => d.pc = "data"
      /\ UnlinkOK(call[w]) => d.pc \in {"zero", "forget"}
  BY <1>4 DEF AfterStore, CreateOK, WriteOK, UnlinkOK
<1>6. CallOK(d) /\ <<d.op, d.pc>> \in Changed /\ d.pc # "flush"
  BY <1>1, <1>2, <1>4, <1>5
     DEF CallOK, CreateOK, WriteOK, UnlinkOK, CreatePcs, WritePcs, UnlinkPcs, Changed
<1>7. d.map \in Maps /\ d.map \in Owes(d) /\ Owes(call[w]) \subseteq Owes(d)
  <2>1. CASE CreateOK(call[w])
    BY <1>1, <1>4, <1>6, <2>1, OwesAll, NotChanged DEF CreateOK, Maps
  <2>2. CASE WriteOK(call[w])
    BY <1>1, <1>4, <1>6, <2>2, OwesAll, NotChanged DEF WriteOK, Maps
  <2>3. CASE UnlinkOK(call[w])
    <3>1. Owes(call[w]) = Maps
      BY <1>1, <2>3, OwesAll DEF UnlinkOK, Changed, UnlinkPcs
    <3> QED
      BY <1>4, <1>6, <2>3, <3>1, OwesAll DEF UnlinkOK, Maps
  <2> QED
    BY <1>2, <2>1, <2>2, <2>3
<1>8. PICK m, x : m = d.map /\ mem' = [mem EXCEPT ![m] = x] /\ disk' = disk
  BY <1>4 DEF Store
<1> QED
  BY <1>4, <1>6, <1>7, <1>8, Changes

\* Goto changes the place of a call and nothing else.
LEMMA GotoCall ==
    ASSUME Shaped, NEW w \in Workers, NEW pc, Goto(w, pc), {"op", "pc", "done"} \subseteq DOMAIN call[w]
    PROVE  LET d == call'[w]
           IN  /\ Becomes(w, d) /\ d.pc = pc /\ DOMAIN d = DOMAIN call[w]
               /\ \A f \in DOMAIN d \ {"pc"} : d[f] = call[w][f]
  BY DEF Shaped, Goto, Becomes

\* A call that has changed a buffer and goes on owes what it owed.
LEMMA GoesOn ==
    ASSUME NEW c, NEW d, d.op = c.op, d.done = c.done,
           <<c.op, c.pc>> \in Changed, <<d.op, d.pc>> \in Changed
    PROVE  Owes(d) = Owes(c)
  BY DEF Owes

LEMMA MoveHintKeeps == ASSUME Shaped, Owed, NEW w \in Workers, MoveHint(w) PROVE Shaped' /\ Owed'
<1>1. CallOK(call[w]) /\ call[w].pc = "hint"
  BY DEF Shaped, MoveHint
<1>2. CreateOK(call[w])
  BY <1>1, IdleFacts DEF CallOK, OpenOK, ReleaseOK, WriteOK, UnlinkOK, WritePcs, UnlinkPcs
<1>3. PICK d : d = call'[w]
  OBVIOUS
<1>4. /\ Becomes(w, d) /\ d.pc = "enter" /\ DOMAIN d = DOMAIN call[w]
      /\ \A f \in DOMAIN d \ {"pc"} : d[f] = call[w][f]
  BY <1>2, <1>3, GotoCall DEF MoveHint, CreateOK, ChangerFields
<1>5. d.op = "create" /\ d.map = "ibmap" /\ d.done = call[w].done
  BY <1>2, <1>4 DEF CreateOK, ChangerFields
<1>6. CallOK(d) /\ <<d.op, d.pc>> \in Changed /\ <<call[w].op, call[w].pc>> \in Changed
  BY <1>1, <1>2, <1>4, <1>5 DEF CallOK, CreateOK, CreatePcs, Changed
<1>7. "sb" \in Maps /\ "sb" \in Owes(d) /\ Owes(call[w]) \subseteq Owes(d)
  BY <1>2, <1>4, <1>5, <1>6, OwesAll, GoesOn DEF CreateOK, Maps
<1>8. PICK x : mem' = [mem EXCEPT !["sb"] = x] /\ disk' = disk
  BY DEF MoveHint
<1> QED
  BY <1>4, <1>6, <1>7, <1>8, Changes

LEMMA EnterKeeps == ASSUME Shaped, Owed, NEW w \in Workers, Enter(w) PROVE Shaped' /\ Owed'
<1>1. CallOK(call[w]) /\ call[w].pc = "enter"
  BY DEF Shaped, Enter
<1>2. CreateOK(call[w])
  BY <1>1, IdleFacts DEF CallOK, OpenOK, ReleaseOK, WriteOK, UnlinkOK, WritePcs, UnlinkPcs
<1>3. PICK d : d = call'[w]
  OBVIOUS
<1>4. /\ Becomes(w, d) /\ d.pc = "flush" /\ DOMAIN d = DOMAIN call[w]
      /\ d.op = "create" /\ d.map = "ibmap" /\ d.done = call[w].done
  BY <1>2, <1>3 DEF Enter, Becomes, Shaped, CreateOK, ChangerFields
<1>5. CallOK(d) /\ <<d.op, d.pc>> \in Changed /\ <<call[w].op, call[w].pc>> \in Changed
  BY <1>1, <1>2, <1>4 DEF CallOK, CreateOK, CreatePcs, Changed
<1>6. Owes(d) = Owes(call[w])
  BY <1>2, <1>4, <1>5, GoesOn DEF CreateOK
<1>7. "itable" \in Maps /\ "itable" \in Owes(d)
  BY <1>1, <1>2, <1>5, <1>6, OwesAll DEF CreateOK, Maps
<1>8. PICK x : mem' = [mem EXCEPT !["itable"] = x] /\ disk' = disk
  BY DEF Enter
<1> QED
  BY <1>4, <1>5, <1>6, <1>7, <1>8, Changes

LEMMA WriteDataKeeps == ASSUME Shaped, Owed, NEW w \in Workers, WriteData(w) PROVE Shaped' /\ Owed'
<1>1. CallOK(call[w]) /\ call[w].pc = "data"
  BY DEF Shaped, WriteData
<1>2. WriteOK(call[w])
  BY <1>1, IdleFacts DEF CallOK, OpenOK, ReleaseOK, CreateOK, UnlinkOK, CreatePcs, UnlinkPcs
<1>3. PICK d : d = call'[w]
  OBVIOUS
<1>4. /\ Becomes(w, d) /\ d.pc = "back" /\ DOMAIN d = DOMAIN call[w]
      /\ \A f \in DOMAIN d \ {"pc"} : d[f] = call[w][f]
  BY <1>2, <1>3, GotoCall DEF WriteData, WriteOK, ChangerFields
<1>5. d.op = "write" /\ d.map = "dbmap" /\ d.done = call[w].done
  BY <1>2, <1>4 DEF WriteOK, ChangerFields
<1>6. CallOK(d) /\ <<d.op, d.pc>> \in Changed /\ <<call[w].op, call[w].pc>> \in Changed
  BY <1>1, <1>2, <1>4, <1>5 DEF CallOK, WriteOK, WritePcs, Changed
<1>7. Owes(d) = Owes(call[w])
  BY <1>2, <1>5, <1>6, GoesOn DEF WriteOK
<1> QED
  BY <1>4, <1>6, <1>7, Quiet DEF WriteData

LEMMA WriteBackKeeps == ASSUME Shaped, Owed, NEW w \in Workers, WriteBack(w) PROVE Shaped' /\ Owed'
<1>1. CallOK(call[w]) /\ call[w].pc = "back"
  BY DEF Shaped, WriteBack
<1>2. WriteOK(call[w])
  BY <1>1, IdleFacts DEF CallOK, OpenOK, ReleaseOK, CreateOK, UnlinkOK, CreatePcs, UnlinkPcs
<1>3. PICK d : d = call'[w]
  OBVIOUS
<1>4. /\ Becomes(w, d) /\ d.pc = "flush" /\ DOMAIN d = DOMAIN call[w]
      /\ \A f \in DOMAIN d \ {"pc"} : d[f] = call[w][f]
  BY <1>2, <1>3, GotoCall DEF WriteBack, WriteOK, ChangerFields
<1>5. d.op = "write" /\ d.map = "dbmap" /\ d.done = call[w].done
  BY <1>2, <1>4 DEF WriteOK, ChangerFields
<1>6. CallOK(d) /\ <<d.op, d.pc>> \in Changed /\ <<call[w].op, call[w].pc>> \in Changed
  BY <1>1, <1>2, <1>4, <1>5 DEF CallOK, WriteOK, WritePcs, Changed
<1>7. Owes(d) = Owes(call[w])
  BY <1>2, <1>5, <1>6, GoesOn DEF WriteOK
<1>8. "itable" \in Maps /\ "itable" \in Owes(d)
  BY <1>1, <1>2, <1>6, <1>7, OwesAll DEF WriteOK, Maps
<1>9. PICK x : mem' = [mem EXCEPT !["itable"] = x] /\ disk' = disk
  BY DEF WriteBack
<1> QED
  BY <1>4, <1>6, <1>7, <1>8, <1>9, Changes

LEMMA ZeroBlockKeeps == ASSUME Shaped, Owed, NEW w \in Workers, ZeroBlock(w) PROVE Shaped' /\ Owed'
<1>1. CallOK(call[w]) /\ call[w].pc = "zero"
  BY DEF Shaped, ZeroBlock
<1>2. UnlinkOK(call[w])
  BY <1>1, IdleFacts DEF CallOK, OpenOK, ReleaseOK, CreateOK, WriteOK, CreatePcs, WritePcs
<1>3. PICK d : d = call'[w]
  OBVIOUS
<1>4. /\ Becomes(w, d) /\ d.pc = "load" /\ DOMAIN d = DOMAIN call[w]
      /\ d.op = "unlink" /\ d.map = "ibmap" /\ d.done = call[w].done
  BY <1>2, <1>3 DEF ZeroBlock, Becomes, Shaped, UnlinkOK, ChangerFields
<1>5. CallOK(d) /\ <<d.op, d.pc>> \in Changed /\ <<call[w].op, call[w].pc>> \in Changed
  BY <1>1, <1>2, <1>4 DEF CallOK, UnlinkOK, UnlinkPcs, Changed
<1>6. Owes(d) = Owes(call[w])
  BY <1>2, <1>4, <1>5, GoesOn DEF UnlinkOK
<1> QED
  BY <1>4, <1>5, <1>6, Quiet DEF ZeroBlock

LEMMA ForgetKeeps == ASSUME Shaped, Owed, NEW w \in Workers, Forget(w) PROVE Shaped' /\ Owed'
<1>1. CallOK(call[w]) /\ call[w].pc = "forget"
  BY DEF Shaped, Forget
<1>2. UnlinkOK(call[w])
  BY <1>1, IdleFacts DEF CallOK, OpenOK, ReleaseOK, CreateOK, WriteOK, CreatePcs, WritePcs
<1>3. PICK d : d = call'[w]
  OBVIOUS
<1>4. /\ Becomes(w, d) /\ d.pc = "flush" /\ DOMAIN d = DOMAIN call[w]
      /\ \A f \in DOMAIN d \ {"pc"} : d[f] = call[w][f]
  BY <1>2, <1>3, GotoCall DEF Forget, UnlinkOK, ChangerFields
<1>5. d.op = "unlink" /\ d.map = call[w].map /\ d.done = call[w].done
  BY <1>2, <1>4 DEF UnlinkOK, ChangerFields
<1>6. CallOK(d) /\ <<d.op, d.pc>> \in Changed /\ <<call[w].op, call[w].pc>> \in Changed
  BY <1>1, <1>2, <1>4, <1>5 DEF CallOK, UnlinkOK, UnlinkPcs, Changed
<1>7. Owes(d) = Owes(call[w])
  BY <1>2, <1>5, <1>6, GoesOn DEF UnlinkOK
<1>8. "itable" \in Maps /\ "itable" \in Owes(d)
  BY <1>1, <1>2, <1>6, <1>7, OwesAll DEF UnlinkOK, Maps
<1>9. PICK x : mem' = [mem EXCEPT !["itable"] = x] /\ disk' = disk
  BY DEF Forget
<1> QED
  BY <1>4, <1>6, <1>7, <1>8, <1>9, Changes

-----------------------------------------------------------------------------
(* The flush of one cluster.                                               *)

\* A step that rewrites the cluster m: all the call still owed but m it owes.
LEMMA Rewrites ==
    ASSUME Shaped, Owed, NEW w \in Workers, NEW d, Becomes(w, d), CallOK(d),
           NEW m \in Maps, disk' = [disk EXCEPT ![m] = mem[m]], mem' = mem,
           Owes(call[w]) \ {m} \subseteq Owes(d)
    PROVE  Shaped' /\ Owed'
<1>1. /\ disk' = [n \in Maps |-> disk'[n]]
      /\ disk'[m] = mem[m] /\ \A n \in Maps \ {m} : disk'[n] = disk[n]
  BY DEF Shaped
<1>2. Shaped'
  BY <1>1 DEF Shaped, Becomes
<1>3. Owed'
  BY <1>1 DEF Owed, Behind, Becomes, Shaped
<1> QED
  BY <1>2, <1>3

LEMMA FlushKeeps == ASSUME Shaped, Owed, NEW w \in Workers, Flush(w) PROVE Shaped' /\ Owed'
<1>1. CallOK(call[w]) /\ call[w].pc = "flush"
  BY DEF Shaped, Flush
<1>2. CreateOK(call[w]) \/ WriteOK(call[w]) \/ UnlinkOK(call[w])
  BY <1>1, IdleFacts DEF CallOK, OpenOK, ReleaseOK
<1>3. PICK c, m : c = call[w] /\ m = FlushOrder(c.op)[c.done + 1]
  OBVIOUS
<1>4. m \in Maps /\ c.done + 1 \in 1..Len(FlushOrder(c.op))
  <2>1. CASE c.op = "unlink"
    BY <1>2, <1>3, <2>1, Orders DEF CreateOK, WriteOK, UnlinkOK, Maps
  <2>2. CASE c.op = "create"
    BY <1>2, <1>3, <2>2, Orders DEF CreateOK, WriteOK, UnlinkOK, Maps
  <2>3. CASE c.op = "write"
    BY <1>2, <1>3, <2>3, Orders DEF CreateOK, WriteOK, UnlinkOK, Maps
  <2> QED
    BY <1>2, <1>3, <2>1, <2>2, <2>3 DEF CreateOK, WriteOK, UnlinkOK
<1>5. disk' = [disk EXCEPT ![m] = mem[m]] /\ mem' = mem
  BY <1>3 DEF Flush
<1>6. Len(FlushOrder(c.op)) \in Nat /\ c.done \in Nat
  BY <1>2, <1>3, Orders DEF CreateOK, WriteOK, UnlinkOK
<1>7. Owes(c) = {FlushOrder(c.op)[k] : k \in (c.done + 1)..Len(FlushOrder(c.op))}
  BY <1>1, <1>2, <1>3 DEF Owes, Changed, CreateOK, WriteOK, UnlinkOK, UnlinkPcs
<1>8. CASE c.done + 1 = Len(FlushOrder(c.op)) /\ c.op # "create"
  <2>1. Becomes(w, Idle)
    BY <1>3, <1>8 DEF Flush, Return, Becomes, Shaped
  <2>2. Owes(c) \ {m} = {}
    BY <1>3, <1>6, <1>7, <1>8
  <2> QED
    BY <1>3, <1>4, <1>5, <2>1, <2>2, Rewrites DEF CallOK
<1>9. CASE c.done + 1 = Len(FlushOrder(c.op)) /\ c.op = "create"
  <2>1. PICK d : d = call'[w]
    OBVIOUS
  <2>2. Goto(w, "find")
    BY <1>3, <1>9 DEF Flush
  <2>3. /\ Becomes(w, d) /\ d.pc = "find" /\ DOMAIN d = DOMAIN c
        /\ \A f \in DOMAIN d \ {"pc"} : d[f] = c[f]
    BY <1>2, <1>3, <2>1, <2>2, GotoCall DEF CreateOK, WriteOK, UnlinkOK, ChangerFields
  <2>4. d.op = "create" /\ d.map = c.map /\ d.done = c.done
    BY <1>2, <1>3, <1>9, <2>3 DEF CreateOK, WriteOK, UnlinkOK, ChangerFields
  <2>5. CallOK(d)
    BY <1>2, <1>3, <1>9, <2>3, <2>4 DEF CallOK, CreateOK, WriteOK, UnlinkOK, CreatePcs
  <2>6. Owes(c) \ {m} = {}
    BY <1>3, <1>6, <1>7, <1>9
  <2> QED
    BY <1>3, <1>4, <1>5, <2>3, <2>5, <2>6, Rewrites
<1>10. CASE c.done + 1 # Len(FlushOrder(c.op))
  <2>1. PICK d : d = call'[w]
    OBVIOUS
  <2>2. /\ Becomes(w, d) /\ d.pc = "flush" /\ DOMAIN d = DOMAIN c
        /\ d.op = c.op /\ d.map = c.map /\ d.done = c.done + 1
    BY <1>1, <1>2, <1>3, <1>10, <2>1
       DEF Flush, Becomes, Shaped, CreateOK, WriteOK, UnlinkOK, ChangerFields
  <2>3. d.done + 1 <= Len(FlushOrder(d.op))
    BY <1>4, <1>6, <1>10, <2>2
  <2>4. CallOK(d)
    <3>1. CASE CreateOK(c)
      <4>1. d.op = "create" /\ d.op = c.op /\ c.done \in 0..2
        BY <2>2, <3>1 DEF CreateOK
      <4>2. Len(FlushOrder(d.op)) = 3
        BY <4>1, Orders
      <4>3. d.done \in 0..2
        <5>1. PICK k \in 0..2 : k = c.done
          BY <4>1
        <5>2. d.done = k + 1
          BY <2>2, <5>1
        <5>3. k + 2 <= 3
          BY <2>3, <4>2, <5>2
        <5> QED
          BY <5>2, <5>3
      <4> QED
        BY <2>2, <3>1, <4>1, <4>3 DEF CallOK, CreateOK, CreatePcs
    <3>2. CASE WriteOK(c)
      <4>1. d.op = "write" /\ d.op = c.op /\ c.done \in 0..2
        BY <2>2, <3>2 DEF WriteOK
      <4>2. Len(FlushOrder(d.op)) = 3
        BY <4>1, Orders
      <4>3. d.done \in 0..2
        <5>1. PICK k \in 0..2 : k = c.done
          BY <4>1
        <5>2. d.done = k + 1
          BY <2>2, <5>1
        <5>3. k + 2 <= 3
          BY <2>3, <4>2, <5>2
        <5> QED
          BY <5>2, <5>3
      <4> QED
        BY <2>2, <3>2, <4>1, <4>3 DEF CallOK, WriteOK, WritePcs
    <3>3. CASE UnlinkOK(c)
      <4>1. d.op = "unlink" /\ d.op = c.op /\ c.done \in 0..3
        BY <2>2, <3>3 DEF UnlinkOK
      <4>2. Len(FlushOrder(d.op)) = 4
        BY <4>1, Orders
      <4>3. d.done \in 0..3
        <5>1. PICK k \in 0..3 : k = c.done
          BY <4>1
        <5>2. d.done = k + 1
          BY <2>2, <5>1
        <5>3. k + 2 <= 4
          BY <2>3, <4>2, <5>2
        <5> QED
          BY <5>2, <5>3
      <4> QED
        BY <2>2, <3>3, <4>1, <4>3 DEF CallOK, UnlinkOK, UnlinkPcs
    <3> QED
      BY <1>2, <1>3, <3>1, <3>2, <3>3
  <2>5. Owes(d) = {FlushOrder(c.op)[k] : k \in (c.done + 2)..Len(FlushOrder(c.op))}
    <3>1. <<d.op, d.pc>> \in Changed
      BY <1>2, <1>3, <2>2 DEF Changed, CreateOK, WriteOK, UnlinkOK, UnlinkPcs
    <3>2. d.done + 1 = c.done + 2
      BY <1>6, <2>2
    <3> QED
      BY <2>2, <3>1, <3>2 DEF Owes
  <2>6. Owes(c) \ {m} \subseteq Owes(d)
    BY <1>3, <1>6, <1>7, <2>5
  <2> QED
    BY <1>3, <1>4, <1>5, <2>2, <2>4, <2>6, Rewrites
<1> QED
  BY <1>8, <1>9, <1>10

-----------------------------------------------------------------------------
(* Handles, and calls that begin.                                          *)

LEMMA FindHandleKeeps == ASSUME Shaped, Owed, NEW w \in Workers, FindHandle(w) PROVE Shaped' /\ Owed'
<1>1. CallOK(call[w]) /\ call[w].pc = "find" /\ UNCHANGED <<mem, disk>>
  BY DEF Shaped, FindHandle
<1>2. CreateOK(call[w]) \/ OpenOK(call[w])
  BY <1>1, IdleFacts DEF CallOK, UnlinkOK, WriteOK, ReleaseOK, UnlinkPcs, WritePcs
<1>3. Owes(call[w]) = {}
  BY <1>1, NotChanged
<1>4. CASE Return(w)
  <2>1. Becomes(w, Idle)
    BY <1>4 DEF Return, Becomes, Shaped
  <2> QED
    BY <1>1, <1>3, <2>1, Quiet DEF CallOK
<1>5. CASE Goto(w, "use")
  <2>1. PICK d : d = call'[w]
    OBVIOUS
  <2>2. Becomes(w, d) /\ d = [call[w] EXCEPT !.pc = "use"]
    BY <1>5, <2>1 DEF Goto, Becomes, Shaped
  <2>3. CallOK(d)
    <3>1. CASE CreateOK(call[w])
      BY <2>2, <3>1 DEF CallOK, CreateOK, CreatePcs, ChangerFields
    <3>2. CASE OpenOK(call[w])
      BY <2>2, <3>2 DEF CallOK, OpenOK
    <3> QED
      BY <1>2, <3>1, <3>2
  <2> QED
    BY <1>1, <1>3, <2>2, <2>3, Quiet
<1>6. CASE \E f : call' = [call EXCEPT ![w].fid = f]
  <2>1. PICK d, f : d = call'[w] /\ call' = [call EXCEPT ![w].fid = f]
    BY <1>6
  <2>2. Becomes(w, d) /\ d = [call[w] EXCEPT !.fid = f]
    BY <2>1 DEF Becomes, Shaped
  <2>3. CallOK(d)
    <3>1. CASE CreateOK(call[w])
      BY <2>2, <3>1 DEF CallOK, CreateOK, CreatePcs, ChangerFields
    <3>2. CASE OpenOK(call[w])
      BY <2>2, <3>2 DEF CallOK, OpenOK
    <3> QED
      BY <1>2, <3>1, <3>2
  <2> QED
    BY <1>1, <1>3, <2>2, <2>3, Quiet
<1> QED
  BY <1>4, <1>5, <1>6 DEF FindHandle

\* The steps at a handle that go on to another step.
LEMMA HandleKeeps ==
    ASSUME Shaped, Owed, NEW w \in Workers, UseHandle(w) \/ ClearHandle(w) PROVE Shaped' /\ Owed'
<1>1. PICK pc : /\ Goto(w, pc) /\ UNCHANGED <<mem, disk>>
                /\ \/ call[w].pc = "use" /\ pc = "fill"
                   \/ call[w].pc = "clear" /\ pc = "free"
  BY DEF UseHandle, ClearHandle
<1>2. CallOK(call[w])
  BY DEF Shaped
<1>3. PICK c, d : c = call[w] /\ d = call'[w]
  OBVIOUS
<1>4. /\ \/ (CreateOK(c) \/ OpenOK(c)) /\ pc = "fill"
         \/ ReleaseOK(c) /\ pc = "free"
      /\ {"op", "pc"} \subseteq DOMAIN c
  BY <1>1, <1>2, <1>3, IdleFacts
     DEF CallOK, CreateOK, OpenOK, ReleaseOK, UnlinkOK, WriteOK, UnlinkPcs, WritePcs, CreatePcs,
         ChangerFields
<1>5. Becomes(w, d) /\ d = [c EXCEPT !.pc = pc]
  BY <1>1, <1>3 DEF Goto, Becomes, Shaped
<1>6. CallOK(d)
  <2>1. CASE CreateOK(c) /\ pc = "fill"
    BY <1>5, <2>1 DEF CallOK, CreateOK, CreatePcs, ChangerFields
  <2>2. CASE OpenOK(c) /\ pc = "fill"
    BY <1>5, <2>2 DEF CallOK, OpenOK
  <2>3. CASE ReleaseOK(c) /\ pc = "free"
    BY <1>5, <2>3 DEF CallOK, ReleaseOK
  <2> QED
    BY <1>4, <2>1, <2>2, <2>3
<1>7. Owes(c) = {}
  BY <1>1, <1>3, NotChanged
<1> QED
  BY <1>1, <1>3, <1>5, <1>6, <1>7, Quiet

\* The steps at a handle that a call ends with.
LEMMA HandleEndKeeps ==
    ASSUME Shaped, Owed, NEW w \in Workers, FillHandle(w) \/ FreeHandle(w) PROVE Shaped' /\ Owed'
<1>1. Becomes(w, Idle) /\ call[w].pc \in {"fill", "free"} /\ UNCHANGED <<mem, disk>>
  BY DEF FillHandle, FreeHandle, Return, Becomes, Shaped
<1>2. Owes(call[w]) = {}
  BY <1>1, NotChanged
<1> QED
  BY <1>1, <1>2, Quiet DEF CallOK

LEMMA BeginCreateKeeps ==
    ASSUME Shaped, Owed, NEW w \in Workers, NEW x \in Files, NEW fd \in Fds, BeginCreate(w, x, fd)
    PROVE  Shaped' /\ Owed'
<1>1. PICK c : c = [op |-> "create", pc |-> "probe", file |-> x, fd |-> fd, ino |-> 0,
                    map |-> "ibmap", pos |-> mem.sb, count |-> 0, reg |-> {}, done |-> 0,
                    fid |-> StartOpenFile]
  OBVIOUS
<1>2. CallOK(c)
  BY <1>1 DEF CallOK, CreateOK, CreatePcs, ChangerFields
<1>3. Begin(w, c) /\ UNCHANGED <<mem, disk>>
  BY <1>1 DEF BeginCreate
<1> QED
  BY <1>2, <1>3, BeginKeeps

LEMMA BeginOpenKeeps ==
    ASSUME Shaped, Owed, NEW w \in Workers, NEW x \in Files, NEW fd \in Fds, BeginOpen(w, x, fd)
    PROVE  Shaped' /\ Owed'
<1>1. PICK c : c = [op |-> "open", pc |-> "find", file |-> x, fd |-> fd, ino |-> names[x],
                    fid |-> StartOpenFile]
  OBVIOUS
<1>2. CallOK(c)
  BY <1>1 DEF CallOK, OpenOK, ReleaseOK
<1>3. Begin(w, c) /\ UNCHANGED <<mem, disk>>
  BY <1>1 DEF BeginOpen
<1> QED
  BY <1>2, <1>3, BeginKeeps

LEMMA BeginWriteKeeps ==
    ASSUME Shaped, Owed, NEW w \in Workers, NEW fd \in Fds, BeginWrite(w, fd)
    PROVE  Shaped' /\ Owed'
<1>1. PICK c, pc, x, ino, type, pos :
          /\ pc \in {"probe", "data"}
          /\ c = [op |-> "write", pc |-> pc, file |-> x, fd |-> fd, ino |-> ino,
                  type |-> type, map |-> "dbmap", pos |-> pos,
                  count |-> 0, reg |-> {}, done |-> 0]
          /\ Begin(w, c) /\ UNCHANGED <<mem, disk>>
  BY DEF BeginWrite
<1>2. CallOK(c)
  BY <1>1 DEF CallOK, WriteOK, WritePcs, ChangerFields
<1> QED
  BY <1>1, <1>2, BeginKeeps

LEMMA BeginUnlinkKeeps ==
    ASSUME Shaped, Owed, NEW w \in Workers, NEW x \in Files, BeginUnlink(w, x)
    PROVE  Shaped' /\ Owed'
<1>1. PICK c, map, ino, pos :
          /\ map \in {"dbmap", "ibmap"}
          /\ c = [op |-> "unlink", pc |-> "load", file |-> x, fd |-> NoFd, ino |-> ino,
                  map |-> map, pos |-> pos, count |-> 0, reg |-> {}, done |-> 0]
          /\ Begin(w, c) /\ UNCHANGED <<mem, disk>>
  BY DEF BeginUnlink
<1>2. CallOK(c)
  BY <1>1 DEF CallOK, UnlinkOK, UnlinkPcs, ChangerFields
<1> QED
  BY <1>1, <1>2, BeginKeeps

LEMMA BeginReleaseKeeps ==
    ASSUME Shaped, Owed, NEW w \in Workers, NEW fd \in Fds, BeginRelease(w, fd)
    PROVE  Shaped' /\ Owed'
<1>1. PICK c, x, f :
          /\ c = [op |-> "release", pc |-> "clear", file |-> x, fd |-> NoFd, fid |-> f]
          /\ Begin(w, c) /\ UNCHANGED <<mem, disk>>
  BY DEF BeginRelease
<1>2. CallOK(c)
  BY <1>1 DEF CallOK, ReleaseOK
<1> QED
  BY <1>1, <1>2, BeginKeeps

LEMMA NextKeeps == Shaped /\ Owed /\ [Next]_workerVars => Shaped' /\ Owed'
<1> SUFFICES ASSUME Shaped, Owed, [Next]_workerVars PROVE Shaped' /\ Owed'
  OBVIOUS
<1>1. CASE \E w \in Workers : Step(w)
  BY <1>1, ProbeKeeps, NothingKeeps, LoadKeeps, StoreKeeps, FlushKeeps, MoveHintKeeps,
     EnterKeeps, FindHandleKeeps, HandleKeeps, HandleEndKeeps, WriteDataKeeps, WriteBackKeeps,
     ZeroBlockKeeps, ForgetKeeps DEF Step
<1>2. CASE \E w \in Workers, x \in Files :
              \/ \E fd \in Fds : BeginCreate(w, x, fd) \/ BeginOpen(w, x, fd)
              \/ BeginUnlink(w, x)
  BY <1>2, BeginCreateKeeps, BeginOpenKeeps, BeginUnlinkKeeps
<1>3. CASE \E w \in Workers, fd \in Fds : BeginWrite(w, fd) \/ BeginRelease(w, fd)
  BY <1>3, BeginWriteKeeps, BeginReleaseKeeps
<1>4. CASE UNCHANGED <<mem, disk, call>>
  BY <1>4 DEF Shaped, Owed, Behind
<1> QED
  BY <1>1, <1>2, <1>3, <1>4 DEF Next, workerVars

\* With no call there is nothing owed, and the device has all the buffers have.
LEMMA QuietThen == Shaped /\ Owed => QuietDurable
<1> SUFFICES ASSUME Shaped, Owed, \A w \in Workers : ~Busy(w) PROVE disk = mem
  BY DEF QuietDurable
<1>1. \A w \in Workers : Owes(call[w]) = {}
  BY NotChanged DEF Busy
<1>2. \A m \in Maps : disk[m] = mem[m]
  BY <1>1 DEF Owed, Behind
<1>3. [m \in Maps |-> mem[m]] = [m \in Maps |-> disk[m]]
  BY <1>2
<1> QED
  BY <1>3 DEF Shaped

(***************************************************************************)
(* Whatever calls overlap in whatever order, once all have returned the    *)
(* device holds what the buffers hold: no handler returns before it has    *)
(* rewritten every cluster it changed.                                     *)
(***************************************************************************)
THEOREM QuietIsDurable == Spec => []QuietDurable
<1>1. Init => Shaped /\ Owed
  BY ShapedInit
<1>2. Shaped /\ Owed /\ [Next]_workerVars => (Shaped /\ Owed)'
  BY NextKeeps
<1>3. Shaped /\ Owed => QuietDurable
  BY QuietThen
<1> QED
  BY <1>1, <1>2, <1>3, PTL DEF Spec

-----------------------------------------------------------------------------
(* Handles and descriptors.                                                *)

\* A call that is to fill in a descriptor.
Taking(c) == c.op \in {"create", "open"}

Reserved == \A w \in Workers : Taking(call[w]) =>
                /\ call[w].fd \in Fds /\ fds[call[w].fd] = NoFd
                /\ \A v \in Workers \ {w} : Taking(call[v]) => call[v].fd # call[w].fd

Kept == DOMAIN fds = Fds /\ Reserved /\ NoHandleLost

LEMMA KeptInit == Init => Kept
  BY IdleFacts DEF Init, Kept, Reserved, NoHandleLost, Taking

LEMMA OpenFd == \A a, b : [fid |-> a, file |-> b] # NoFd
<1> SUFFICES ASSUME NEW a, NEW b, [fid |-> a, file |-> b] = NoFd PROVE FALSE
  OBVIOUS
<1>1. "file" \in DOMAIN [fid |-> a, file |-> b] /\ "file" \notin DOMAIN NoFd
  BY DEF NoFd
<1> QED
  BY <1>1

\* Where a call has a handle in hand.
InPcs == {"fill", "clear", "free"}

\* A handle stays in hand while its call does not move.
LEMMA HandsKept ==
    ASSUME NEW w \in Workers, NEW d, Becomes(w, d)
    PROVE  /\ \A f \in InHand : f \in InHand' \/ (call[w].pc \in InPcs /\ f = call[w].fid)
           /\ d.pc \in InPcs => d.fid \in InHand'
<1>1. /\ InHand = {call[v].fid : v \in {u \in Workers : call[u].pc \in InPcs}}
      /\ InHand' = {call'[v].fid : v \in {u \in Workers : call'[u].pc \in InPcs}}
  BY DEF InHand, InPcs
<1>2. call'[w] = d /\ \A v \in Workers \ {w} : call'[v] = call[v]
  BY DEF Becomes
<1>3. ASSUME NEW f \in InHand, f \notin InHand' PROVE call[w].pc \in InPcs /\ f = call[w].fid
  <2>1. PICK v \in Workers : call[v].pc \in InPcs /\ f = call[v].fid
    BY <1>1, <1>3
  <2>2. v = w
    BY <1>1, <1>2, <1>3, <2>1
  <2> QED
    BY <2>1, <2>2
<1>4. ASSUME d.pc \in InPcs PROVE d.fid \in InHand'
  BY <1>1, <1>2, <1>4
<1> QED
  BY <1>3, <1>4

\* A step of a call that neither takes nor gives back a descriptor.
LEMMA Stays ==
    ASSUME Kept, NEW w \in Workers, NEW d, Becomes(w, d), UNCHANGED <<fds, used>>,
           Taking(d) => Taking(call[w]) /\ d.fd = call[w].fd,
           call[w].pc \in InPcs => d.pc \in InPcs /\ d.fid = call[w].fid
    PROVE  Kept'
<1>1. Reserved'
  BY DEF Kept, Reserved, Becomes
<1>2. InHand \subseteq InHand'
  BY HandsKept
<1> QED
  BY <1>1, <1>2 DEF Kept, NoHandleLost

LEMMA FieldsKeptBy ==
    ASSUME Shaped, NEW w \in Workers, call[w].pc # "idle"
    PROVE  {"op", "fd"} \subseteq DOMAIN call[w]
  BY IdleFacts DEF Shaped, CallOK, CreateOK, OpenOK, ReleaseOK, WriteOK, UnlinkOK, ChangerFields

LEMMA OthersKeep ==
    ASSUME Shaped, Kept, NEW w \in Workers, Step(w), ~UseHandle(w), ~FillHandle(w),
           ~ClearHandle(w), ~FreeHandle(w)
    PROVE  Kept'
<1>1. UNCHANGED <<fds, used>> /\ call[w].pc # "idle" /\ call[w].pc \notin InPcs
  BY DEF Step, Probe, Nothing, Load, Store, Flush, MoveHint, Enter, FindHandle,
         WriteData, WriteBack, ZeroBlock, Forget, InPcs
<1>2. {"op", "fd"} \subseteq DOMAIN call[w] /\ DOMAIN call = Workers
  BY <1>1, FieldsKeptBy DEF Shaped
<1>3. PICK d : d = call'[w]
  OBVIOUS
<1>4. ~Taking(Idle)
  BY IdleFacts DEF Taking
<1>5. Becomes(w, d) /\ (Taking(d) => Taking(call[w]) /\ d.fd = call[w].fd)
  <2>1. CASE Return(w)
    BY <1>2, <1>3, <1>4, <2>1 DEF Return, Becomes
  <2>2. CASE \E pc : Goto(w, pc)
    BY <1>2, <1>3, <2>2 DEF Goto, Becomes, Taking
  <2>3. CASE Probe(w)
    BY <1>2, <1>3, <2>2, <2>3 DEF Probe, Becomes, Taking
  <2>4. CASE Load(w)
    BY <1>2, <1>3, <2>4 DEF Load, Becomes, Taking
  <2>5. CASE Store(w)
    BY <1>2, <1>3, <2>5 DEF Store, Becomes, Taking
  <2>6. CASE Flush(w)
    BY <1>2, <1>3, <2>1, <2>2, <2>6 DEF Flush, Becomes, Taking
  <2>7. CASE Enter(w)
    BY <1>2, <1>3, <2>7 DEF Enter, Becomes, Taking
  <2>8. CASE FindHandle(w)
    <3>1. CASE \E f : call' = [call EXCEPT ![w].fid = f]
      BY <1>2, <1>3, <3>1 DEF Becomes, Taking
    <3> QED
      BY <2>1, <2>2, <2>8, <3>1 DEF FindHandle
  <2>9. CASE ZeroBlock(w)
    BY <1>2, <1>3, <2>9 DEF ZeroBlock, Becomes, Taking
  <2>10. CASE Nothing(w) \/ MoveHint(w) \/ WriteData(w) \/ WriteBack(w) \/ Forget(w)
    BY <2>1, <2>2, <2>10 DEF Nothing, MoveHint, WriteData, WriteBack, Forget
  <2> QED
    BY <2>3, <2>4, <2>5, <2>6, <2>7, <2>8, <2>9, <2>10 DEF Step
<1> QED
  BY <1>1, <1>5, Stays

LEMMA UseKept ==
    ASSUME Shaped, Kept, NEW w \in Workers, UseHandle(w) \/ ClearHandle(w) PROVE Kept'
<1>1. PICK pc : /\ Goto(w, pc) /\ fds' = fds /\ call[w].pc \in {"use", "clear"} /\ pc \in InPcs
                /\ \/ used' = used \cup {call[w].fid}
                   \/ used' = used
  BY DEF UseHandle, ClearHandle, InPcs
<1>2. PICK c, d : c = call[w] /\ d = call'[w]
  OBVIOUS
<1>3. {"op", "pc", "fd", "fid"} \subseteq DOMAIN c
  <2>1. CallOK(c)
    BY <1>2 DEF Shaped
  <2> QED
    BY <1>1, <1>2, <2>1, IdleFacts
       DEF CallOK, CreateOK, OpenOK, ReleaseOK, WriteOK, UnlinkOK, WritePcs, UnlinkPcs,
           ChangerFields
<1>4. Becomes(w, d) /\ d.op = c.op /\ d.pc = pc /\ d.fd = c.fd /\ d.fid = c.fid
  BY <1>1, <1>2, <1>3 DEF Goto, Becomes, Shaped
<1>5. Reserved'
  BY <1>1, <1>2, <1>4 DEF Kept, Reserved, Becomes, Taking
<1>6. d.fid \in InHand' /\ InHand \subseteq InHand'
  BY <1>1, <1>2, <1>4, HandsKept
<1>7. NoHandleLost'
  BY <1>1, <1>2, <1>4, <1>6 DEF Kept, NoHandleLost
<1> QED
  BY <1>1, <1>5, <1>7 DEF Kept

LEMMA FillKept == ASSUME Shaped, Kept, NEW w \in Workers, FillHandle(w) PROVE Kept'
<1>1. Becomes(w, Idle)
  BY DEF FillHandle, Return, Becomes, Shaped
<1>2. PICK c : c = call[w]
  OBVIOUS
<1>3. Taking(c) /\ c.fd \in Fds /\ fds[c.fd] = NoFd
  <2>1. CallOK(c) /\ c.pc = "fill"
    BY <1>2 DEF Shaped, FillHandle
  <2>2. Taking(c)
    BY <2>1, IdleFacts DEF CallOK, CreateOK, OpenOK, ReleaseOK, WriteOK, UnlinkOK, WritePcs,
                           UnlinkPcs, Taking
  <2> QED
    BY <1>2, <2>2 DEF Kept, Reserved
<1>4. PICK r : r = [fid |-> c.fid, file |-> c.file] /\ r # NoFd /\ r.fid = c.fid
  <2>1. PICK r : r = [fid |-> c.fid, file |-> c.file]
    OBVIOUS
  <2> QED
    BY <2>1, OpenFd
<1>5. fds' = [fds EXCEPT ![c.fd] = r] /\ used' = used
  BY <1>2, <1>4 DEF FillHandle
<1>6. DOMAIN fds' = Fds
  BY <1>5 DEF Kept
<1>7. Reserved'
  BY <1>1, <1>2, <1>3, <1>5, <1>6, IdleFacts DEF Kept, Reserved, Becomes, Taking
<1>8. NoHandleLost'
  <2> SUFFICES ASSUME NEW f \in used, f \notin InHand'
               PROVE  \E fd \in Fds : fds'[fd] # NoFd /\ fds'[fd].fid = f
    BY <1>5 DEF NoHandleLost
  <2>1. CASE f = c.fid
    BY <1>3, <1>4, <1>5, <2>1 DEF Kept
  <2>2. CASE f # c.fid
    <3>1. f \notin InHand
      BY <1>1, <1>2, <2>2, HandsKept
    <3>2. PICK fd \in Fds : fds[fd] # NoFd /\ fds[fd].fid = f
      BY <3>1 DEF Kept, NoHandleLost
    <3> QED
      BY <1>3, <1>5, <3>2 DEF Kept
  <2> QED
    BY <2>1, <2>2
<1> QED
  BY <1>6, <1>7, <1>8 DEF Kept

LEMMA FreeKept == ASSUME Shaped, Kept, NEW w \in Workers, FreeHandle(w) PROVE Kept'
<1>1. Becomes(w, Idle) /\ ~Taking(Idle)
  BY IdleFacts DEF FreeHandle, Return, Becomes, Shaped, Taking
<1>2. used' = used \ {call[w].fid} /\ fds' = fds
  BY DEF FreeHandle
<1>3. Reserved'
  BY <1>1, <1>2 DEF Kept, Reserved, Becomes
<1>4. \A f \in used' : f \in InHand => f \in InHand'
  BY <1>1, <1>2, HandsKept
<1>5. NoHandleLost'
  BY <1>2, <1>4 DEF Kept, NoHandleLost
<1> QED
  BY <1>2, <1>3, <1>5 DEF Kept

LEMMA ReleaseKept ==
    ASSUME Shaped, Kept, NEW w \in Workers, NEW fd \in Fds, BeginRelease(w, fd) PROVE Kept'
<1>1. PICK g : g = fds[fd].fid
  OBVIOUS
<1>2. PICK c : /\ Begin(w, c) /\ c.op = "release" /\ c.pc = "clear" /\ c.fid = g
               /\ fds' = [fds EXCEPT ![fd] = NoFd] /\ fds[fd] # NoFd /\ used' = used
  BY <1>1 DEF BeginRelease
<1>3. Becomes(w, c) /\ call[w].pc = "idle" /\ ~Taking(c)
  BY <1>2 DEF Begin, Becomes, Shaped, Busy, Taking
<1>4. Reserved'
  BY <1>2, <1>3 DEF Kept, Reserved, Becomes
<1>5. g \in InHand' /\ InHand \subseteq InHand'
  BY <1>2, <1>3, HandsKept DEF InPcs
<1>6. NoHandleLost'
  <2> SUFFICES ASSUME NEW f \in used, f \notin InHand'
               PROVE  \E x \in Fds : fds'[x] # NoFd /\ fds'[x].fid = f
    BY <1>2 DEF NoHandleLost
  <2>1. f # g /\ f \notin InHand
    BY <1>5
  <2>2. PICK x \in Fds : fds[x] # NoFd /\ fds[x].fid = f
    BY <2>1 DEF Kept, NoHandleLost
  <2> QED
    BY <1>1, <1>2, <2>1, <2>2 DEF Kept
<1> QED
  BY <1>2, <1>4, <1>6 DEF Kept

\* A call that begins takes no descriptor, or a free one that no call takes.
LEMMA BeginKept ==
    ASSUME Shaped, Kept, NEW w \in Workers, NEW c, Begin(w, c), UNCHANGED <<fds, used>>,
           Taking(c) => /\ c.fd \in Fds /\ fds[c.fd] = NoFd
                        /\ \A v \in Workers : Busy(v) => call[v].fd # c.fd
    PROVE  Kept'
<1>1. Becomes(w, c)
  BY DEF Begin, Becomes, Shaped
<1>2. \A v \in Workers : Taking(call[v]) => Busy(v)
  BY IdleFacts DEF Shaped, CallOK, CreateOK, OpenOK, ReleaseOK, WriteOK, UnlinkOK, CreatePcs, Taking, Busy
<1>3. Reserved'
  BY <1>1, <1>2 DEF Kept, Reserved, Becomes
<1>4. InHand \subseteq InHand'
  BY <1>1, HandsKept DEF Begin, Busy, InPcs
<1> QED
  BY <1>3, <1>4 DEF Kept, NoHandleLost

LEMMA NextKept == Shaped /\ Kept /\ [Next]_workerVars => Kept'
<1> SUFFICES ASSUME Shaped, Kept, [Next]_workerVars PROVE Kept'
  OBVIOUS
<1>1. CASE \E w \in Workers : Step(w)
  BY <1>1, OthersKeep, UseKept, FillKept, FreeKept
<1>2. ASSUME NEW w \in Workers, NEW x \in Files, NEW fd \in Fds, BeginCreate(w, x, fd)
      PROVE  Kept'
  <2>1. PICK c : /\ c.fd = fd /\ Begin(w, c)
                 /\ UNCHANGED <<fds, used>> /\ fds[fd] = NoFd
                 /\ \A v \in Workers : Busy(v) => call[v].fd # fd
    BY <1>2 DEF BeginCreate
  <2> QED
    BY <2>1, BeginKept
<1>3. ASSUME NEW w \in Workers, NEW x \in Files, NEW fd \in Fds, BeginOpen(w, x, fd)
      PROVE  Kept'
  <2>1. PICK c : /\ c.fd = fd /\ Begin(w, c)
                 /\ UNCHANGED <<fds, used>> /\ fds[fd] = NoFd
                 /\ \A v \in Workers : Busy(v) => call[v].fd # fd
    BY <1>3 DEF BeginOpen
  <2> QED
    BY <2>1, BeginKept
<1>4. ASSUME NEW w \in Workers, NEW fd \in Fds, BeginWrite(w, fd) PROVE Kept'
  <2>1. PICK c : c.op = "write" /\ Begin(w, c) /\ UNCHANGED <<fds, used>>
    BY <1>4 DEF BeginWrite
  <2> QED
    BY <2>1, BeginKept DEF Taking
<1>5. ASSUME NEW w \in Workers, NEW x \in Files, BeginUnlink(w, x) PROVE Kept'
  <2>1. PICK c : c.op = "unlink" /\ Begin(w, c) /\ UNCHANGED <<fds, used>>
    BY <1>5 DEF BeginUnlink
  <2> QED
    BY <2>1, BeginKept DEF Taking
<1>6. CASE UNCHANGED workerVars
  BY <1>6 DEF workerVars, Kept, Reserved, NoHandleLost, InHand
<1> QED
  BY <1>1, <1>2, <1>3, <1>4, <1>5, <1>6, ReleaseKept DEF Next

(***************************************************************************)
(* Whatever calls overlap in whatever order, a handle marked used belongs  *)
(* to a descriptor, to the call that fills it in or to the release that    *)
(* gives it back: two opens that find the same unused handle share it, and *)
(* none is left over.                                                      *)
(***************************************************************************)
THEOREM HandlesReleasable == Spec => []NoHandleLost
<1>1. Init => Shaped /\ Owed /\ Kept
  BY ShapedInit, KeptInit
<1>2. Shaped /\ Owed /\ Kept /\ [Next]_workerVars => (Shaped /\ Owed /\ Kept)'
  BY NextKeeps, NextKept
<1>3. Kept => NoHandleLost
  BY DEF Kept
<1> QED
  BY <1>1, <1>2, <1>3, PTL DEF Spec

-----------------------------------------------------------------------------
(* Types.                                                                  *)

Node == {n \in [type : {"NONE", "FILE"}, size : {0, 1}, blk : Blocks \cup {NoBlock}] :
            n.size = 0 <=> n.blk = NoBlock}

Memory == [sb : 0..NumInodes, ibmap : SUBSET Inos, dbmap : SUBSET Blocks, itable : [Inos -> Node]]

CreateTyped(c) ==
    /\ c \in [op : {"create"}, pc : CreatePcs, file : Files, fd : Fds, ino : Inos,
              map : {"ibmap"}, pos : 0..NumInodes, count : 0..NumInodes,
              reg : SUBSET Inos, done : 0..2, fid : Fids]
    /\ c.pc \in {"store", "hint", "enter"} => c.pos \in Inos

OpenTyped(c) ==
    c \in [op : {"open"}, pc : {"find", "use", "fill"}, file : Files, fd : Fds, ino : Inos,
           fid : Fids]

ReleaseTyped(c) ==
    c \in [op : {"release"}, pc : {"clear", "free"}, file : Files, fd : {NoFd}, fid : Fids]

WriteTyped(c) ==
    /\ c \in [op : {"write"}, pc : WritePcs, file : Files, fd : Fds, ino : Inos,
              type : {"NONE", "FILE"}, map : {"dbmap"}, pos : 0..NumBlocks,
              count : 0..NumBlocks, reg : SUBSET Blocks, done : 0..2]
    /\ c.pc \in {"store", "data", "back"} => c.pos \in Blocks
    /\ c.ino # 0 => c.type = "FILE"

UnlinkTyped(c) ==
    /\ c \in [op : {"unlink"}, pc : UnlinkPcs, file : Files, fd : {NoFd}, ino : Inos,
              map : {"ibmap", "dbmap"}, pos : Inos \cup Blocks, count : {0},
              reg : SUBSET (Inos \cup Blocks), done : 0..3]
    /\ c.map = "ibmap" => c.pos \in Inos
    /\ c.map = "dbmap" => c.pos \in Blocks
    /\ c.pc = "store" => c.reg \subseteq IF c.map = "ibmap" THEN Inos ELSE Blocks
    /\ c.pc = "zero" => c.map = "dbmap"
    /\ c.pc = "forget" => c.map = "ibmap"

CallTyped(c) == \/ c = Idle \/ CreateTyped(c) \/ OpenTyped(c) \/ WriteTyped(c) \/ UnlinkTyped(c)
                \/ ReleaseTyped(c)

BuffersTyped == mem \in Memory /\ disk \in Memory

TablesTyped == /\ names \in [Files -> Inos] /\ data \in [Blocks -> Inos]
               /\ file_table \in [Fids -> Inos] /\ used \subseteq Fids
               /\ DOMAIN fds = Fds
               /\ \A x \in Fds : fds[x] = NoFd \/ fds[x] \in [fid : Fids, file : Files]

CallsTyped == DOMAIN call = Workers /\ \A w \in Workers : CallTyped(call[w])

Typed == BuffersTyped /\ TablesTyped /\ CallsTyped

LEMMA FirstHandle == StartOpenFile \in Fids
  BY WorkersAssumption DEF StartOpenFile, Fids

LEMMA ConstantFacts ==
    /\ NumInodes \in Nat /\ NumInodes > 3 /\ NumBlocks \in Nat /\ NumBlocks > 0
    /\ MaxOpenFile \in Nat /\ MaxOpenFile > 3
    /\ 0 \in Inos /\ 0 \in Blocks /\ Inos \subseteq Nat /\ Blocks \subseteq Nat
    /\ Fids \subseteq Nat /\ 0 \notin Fids /\ NoBlock \notin Blocks
    /\ \A i \in 0..NumInodes : i < NumInodes => i \in Inos
    /\ \A b \in 0..NumBlocks : b < NumBlocks => b \in Blocks
    /\ \A i \in Inos : i + 1 \in 0..NumInodes
  BY WorkersAssumption DEF NumReserved, StartOpenFile, Inos, Blocks, Fids, NoBlock

\* What a call of each kind is called.
LEMMA Ops ==
    /\ \A c : CreateTyped(c) => c.op = "create" /\ c.pc \in CreatePcs
    /\ \A c : OpenTyped(c) => c.op = "open" /\ c.pc \in {"find", "use", "fill"}
    /\ \A c : WriteTyped(c) => c.op = "write" /\ c.pc \in WritePcs
    /\ \A c : UnlinkTyped(c) => c.op = "unlink" /\ c.pc \in UnlinkPcs
    /\ \A c : ReleaseTyped(c) => c.op = "release" /\ c.pc \in {"clear", "free"}
  BY DEF CreateTyped, OpenTyped, WriteTyped, UnlinkTyped, ReleaseTyped

LEMMA KindOf ==
    ASSUME NEW c, CallTyped(c)
    PROVE  /\ c.op = "create" => CreateTyped(c)
           /\ c.op = "open" => OpenTyped(c)
           /\ c.op = "write" => WriteTyped(c)
           /\ c.op = "unlink" => UnlinkTyped(c)
           /\ c.op = "release" => ReleaseTyped(c)
           /\ c.op \in {"none", "create", "open", "write", "unlink", "release"}
           /\ c.pc \in {"probe", "nothing"} => CreateTyped(c) \/ WriteTyped(c)
           /\ c.pc \in {"load", "store"} => CreateTyped(c) \/ WriteTyped(c) \/ UnlinkTyped(c)
           /\ c.pc \in {"hint", "enter"} => CreateTyped(c)
           /\ c.pc \in {"data", "back"} => WriteTyped(c)
           /\ c.pc \in {"zero", "forget"} => UnlinkTyped(c)
           /\ c.pc = "flush" => CreateTyped(c) \/ WriteTyped(c) \/ UnlinkTyped(c)
           /\ c.pc \in {"find", "use", "fill"} => CreateTyped(c) \/ OpenTyped(c)
           /\ c.pc \in {"clear", "free"} => ReleaseTyped(c)
           /\ c.op = "none" <=> c.pc = "idle"
<1>1. CASE c = Idle
  BY <1>1, IdleFacts
<1>2. CASE CreateTyped(c)
  BY <1>2, Ops DEF CreatePcs
<1>3. CASE OpenTyped(c)
  BY <1>3, Ops
<1>4. CASE WriteTyped(c)
  BY <1>4, Ops DEF WritePcs
<1>5. CASE UnlinkTyped(c)
  BY <1>5, Ops DEF UnlinkPcs
<1>6. CASE ReleaseTyped(c)
  BY <1>6, Ops
<1> QED
  BY <1>1, <1>2, <1>3, <1>4, <1>5, <1>6 DEF CallTyped

LEMMA TypedInit == Init => Typed
<1> SUFFICES ASSUME Init PROVE Typed
  OBVIOUS
<1>1. ZeroInode \in Node
  BY DEF ZeroInode, Node
<1>2. mem \in Memory
  BY <1>1, ConstantFacts DEF Init, Memory, NumReserved, Inos
<1>3. BuffersTyped
  BY <1>2 DEF Init, BuffersTyped
<1>4. TablesTyped
  BY ConstantFacts DEF Init, TablesTyped
<1>5. CallsTyped
  BY DEF Init, CallsTyped, CallTyped
<1> QED
  BY <1>3, <1>4, <1>5 DEF Typed

LEMMA TypedThen == Typed => WorkersTypeOK
<1> SUFFICES ASSUME Typed PROVE WorkersTypeOK
  OBVIOUS
<1>1. DOMAIN disk = DOMAIN mem
  BY DEF Typed, BuffersTyped, Memory
<1>2. mem \in [sb : 0..NumInodes, ibmap : SUBSET Inos, dbmap : SUBSET Blocks,
               itable : [Inos -> [type : {"NONE", "FILE"}, size : {0, 1},
                                  blk : Blocks \cup {NoBlock}]]]
  BY DEF Typed, BuffersTyped, Memory, Node
<1> QED
  BY <1>1, <1>2 DEF Typed, TablesTyped, WorkersTypeOK

-----------------------------------------------------------------------------
(* What the steps do to the calls.                                         *)

Same(c, d) == /\ d.op = c.op /\ d.file = c.file /\ d.fd = c.fd /\ d.ino = c.ino
              /\ d.map = c.map

\* A typed call that becomes another one.
Turns(w, d) == Becomes(w, d) /\ CallTyped(d) /\ d = call'[w]

LEMMA TurnsTyped ==
    ASSUME CallsTyped, NEW w \in Workers, NEW d, Turns(w, d)
    PROVE  CallsTyped'
  BY DEF CallsTyped, Turns, Becomes

LEMMA TurnsIdle ==
    ASSUME Typed, NEW w \in Workers, Return(w)
    PROVE  Turns(w, Idle) /\ CallsTyped'
<1>1. Turns(w, Idle)
  BY DEF Typed, CallsTyped, Return, Turns, Becomes, CallTyped
<1> QED
  BY <1>1, TurnsTyped DEF Typed

LEMMA BeginTurns ==
    ASSUME Typed, NEW w \in Workers, NEW d, Begin(w, d), CallTyped(d)
    PROVE  Turns(w, d) /\ CallsTyped'
<1>1. Turns(w, d)
  BY DEF Typed, CallsTyped, Begin, Turns, Becomes
<1> QED
  BY <1>1, TurnsTyped DEF Typed

LEMMA Wrap == \A n \in Nat : \A p \in 0..n : n > 0 => (p + 1) % n \in 0..n
  OBVIOUS

LEMMA ProbeTurns ==
    ASSUME Typed, NEW w \in Workers, Probe(w), NEW c, c = call[w], NEW d, d = call'[w]
    PROVE  /\ Turns(w, d) /\ Typed' /\ Same(c, d) /\ c.pc = "probe"
           /\ d.pc \in {"probe", "nothing", "load"}
           /\ d.pc = "load" => d.pos = c.pos /\ d.pos \notin mem[d.map]
           /\ c.op \in {"create", "write"} /\ c.map = IF c.op = "create" THEN "ibmap" ELSE "dbmap"
<1>1. c.pc = "probe" /\ CallTyped(c) /\ DOMAIN call = Workers
  BY DEF Typed, CallsTyped, Probe
<1>2. CreateTyped(c) \/ WriteTyped(c)
  BY <1>1, KindOf
<1>3. c.map = IF c.op = "create" THEN "ibmap" ELSE "dbmap"
  BY <1>2 DEF CreateTyped, WriteTyped
<1>4. SizeOf("ibmap") = NumInodes /\ SizeOf("dbmap") = NumBlocks
  BY DEF SizeOf
<1>5. \/ c.count = SizeOf(c.map) /\ d = [c EXCEPT !.pc = "nothing"]
      \/ c.pos \notin mem[c.map] /\ d = [c EXCEPT !.pc = "load"]
      \/ /\ c.count # SizeOf(c.map)
         /\ d = [c EXCEPT !.pos = (c.pos + 1) % SizeOf(c.map), !.count = c.count + 1]
  BY <1>1 DEF Probe, Goto
<1>6. Becomes(w, d)
  BY <1>1 DEF Probe, Goto, Becomes
<1>7. ASSUME CreateTyped(c)
      PROVE  /\ CallTyped(d) /\ Same(c, d) /\ c.op = "create"
             /\ d.pc \in {"probe", "nothing", "load"}
             /\ d.pc = "load" => d.pos = c.pos /\ d.pos \notin mem[d.map]
  <2>1. c.pos \in 0..NumInodes /\ c.count \in 0..NumInodes /\ c.op = "create"
    BY <1>7 DEF CreateTyped
  <2>2. (c.pos + 1) % NumInodes \in 0..NumInodes
    BY <2>1, ConstantFacts, Wrap
  <2>3. c.count # NumInodes => c.count + 1 \in 0..NumInodes
    BY <2>1, ConstantFacts
  <2>4. CreateTyped(d)
    <3>1. CASE d = [c EXCEPT !.pc = "nothing"]
      BY <1>7, <3>1 DEF CreateTyped, CreatePcs
    <3>2. CASE d = [c EXCEPT !.pc = "load"]
      BY <1>7, <3>2 DEF CreateTyped, CreatePcs
    <3>3. CASE /\ c.count # NumInodes
               /\ d = [c EXCEPT !.pos = (c.pos + 1) % NumInodes, !.count = c.count + 1]
      BY <1>1, <1>7, <2>2, <2>3, <3>3 DEF CreateTyped, CreatePcs
    <3> QED
      BY <1>3, <1>4, <1>5, <2>1, <3>1, <3>2, <3>3
  <2>5. Same(c, d) /\ d.pc \in {"probe", "nothing", "load"}
    BY <1>1, <1>5, <1>7 DEF CreateTyped, Same
  <2>6. d.pc = "load" => d.pos = c.pos /\ d.pos \notin mem[d.map]
    BY <1>1, <1>5, <1>7 DEF CreateTyped
  <2> QED
    BY <2>1, <2>4, <2>5, <2>6 DEF CallTyped
<1>8. ASSUME WriteTyped(c)
      PROVE  /\ CallTyped(d) /\ Same(c, d) /\ c.op = "write"
             /\ d.pc \in {"probe", "nothing", "load"}
             /\ d.pc = "load" => d.pos = c.pos /\ d.pos \notin mem[d.map]
  <2>1. c.pos \in 0..NumBlocks /\ c.count \in 0..NumBlocks /\ c.op = "write"
    BY <1>8 DEF WriteTyped
  <2>2. (c.pos + 1) % NumBlocks \in 0..NumBlocks
    BY <2>1, ConstantFacts, Wrap
  <2>3. c.count # NumBlocks => c.count + 1 \in 0..NumBlocks
    BY <2>1, ConstantFacts
  <2>4. WriteTyped(d)
    <3>1. CASE d = [c EXCEPT !.pc = "nothing"]
      BY <1>8, <3>1 DEF WriteTyped, WritePcs
    <3>2. CASE d = [c EXCEPT !.pc = "load"]
      BY <1>8, <3>2 DEF WriteTyped, WritePcs
    <3>3. CASE /\ c.count # NumBlocks
               /\ d = [c EXCEPT !.pos = (c.pos + 1) % NumBlocks, !.count = c.count + 1]
      BY <1>1, <1>8, <2>2, <2>3, <3>3 DEF WriteTyped, WritePcs
    <3> QED
      BY <1>3, <1>4, <1>5, <2>1, <3>1, <3>2, <3>3
  <2>5. Same(c, d) /\ d.pc \in {"probe", "nothing", "load"}
    BY <1>1, <1>5, <1>8 DEF WriteTyped, Same
  <2>6. d.pc = "load" => d.pos = c.pos /\ d.pos \notin mem[d.map]
    BY <1>1, <1>5, <1>8 DEF WriteTyped
  <2> QED
    BY <2>1, <2>4, <2>5, <2>6 DEF CallTyped
<1> QED
  <2>1. Turns(w, d)
    BY <1>2, <1>6, <1>7, <1>8 DEF Turns
  <2>2. Typed'
    BY <2>1, TurnsTyped DEF Typed, BuffersTyped, TablesTyped, Probe
  <2> QED
    BY <1>1, <1>2, <1>3, <1>7, <1>8, <2>1, <2>2

LEMMA NothingTurns ==
    ASSUME Typed, NEW w \in Workers, Nothing(w), NEW c, c = call[w]
    PROVE  /\ Turns(w, Idle) /\ Typed'
           /\ c.op \in {"create", "write"} /\ c.pc \in {"nothing", "load"}
           /\ c.op = "create" => /\ mem'.ibmap = disk.ibmap /\ mem'.dbmap = mem.dbmap
           /\ c.op = "write"  => /\ mem'.dbmap = disk.dbmap /\ mem'.ibmap = mem.ibmap
           /\ mem'.itable = mem.itable
<1>1. Turns(w, Idle) /\ CallsTyped'
  BY TurnsIdle DEF Nothing
<1>2. CallTyped(c) /\ (c.pc = "nothing" \/ (c.pc = "load" /\ c.op # "unlink"))
  BY DEF Typed, CallsTyped, Nothing
<1>3. CreateTyped(c) \/ WriteTyped(c)
  BY <1>2, KindOf DEF UnlinkTyped
<1>4. \/ c.op = "create" /\ c.map = "ibmap"
      \/ c.op = "write" /\ c.map = "dbmap"
  BY <1>3 DEF CreateTyped, WriteTyped
<1>5. mem' = [mem EXCEPT ![c.map] = disk[c.map]] /\ disk' = disk
  BY DEF Nothing
<1>6. mem \in Memory /\ disk \in Memory
  BY DEF Typed, BuffersTyped
<1>7. CASE c.op = "create" /\ c.map = "ibmap"
  <2>1. mem' = [mem EXCEPT !.ibmap = disk.ibmap]
    BY <1>5, <1>7
  <2>2. mem' \in Memory /\ mem'.ibmap = disk.ibmap /\ mem'.dbmap = mem.dbmap
        /\ mem'.itable = mem.itable
    BY <1>6, <2>1 DEF Memory
  <2> QED
    BY <1>1, <1>2, <1>5, <1>6, <1>7, <2>2 DEF Typed, BuffersTyped, TablesTyped, Nothing
<1>8. CASE c.op = "write" /\ c.map = "dbmap"
  <2>1. mem' = [mem EXCEPT !.dbmap = disk.dbmap]
    BY <1>5, <1>8
  <2>2. mem' \in Memory /\ mem'.dbmap = disk.dbmap /\ mem'.ibmap = mem.ibmap
        /\ mem'.itable = mem.itable
    BY <1>6, <2>1 DEF Memory
  <2> QED
    BY <1>1, <1>2, <1>5, <1>6, <1>8, <2>2 DEF Typed, BuffersTyped, TablesTyped, Nothing
<1> QED
  BY <1>4, <1>7, <1>8

LEMMA LoadTurns ==
    ASSUME Typed, NEW w \in Workers, Load(w), NEW c, c = call[w], NEW d, d = call'[w]
    PROVE  /\ Turns(w, d) /\ Typed' /\ Same(c, d)
           /\ c.op \in {"create", "write", "unlink"} /\ c.pc = "load" /\ d.pc = "store"
           /\ d.pos = c.pos /\ d.reg = mem[c.map]
<1>1. c.pc = "load" /\ CallTyped(c) /\ DOMAIN call = Workers /\ c.pos < SizeOf(c.map)
  BY DEF Typed, CallsTyped, Load
<1>2. CreateTyped(c) \/ WriteTyped(c) \/ UnlinkTyped(c)
  BY <1>1, KindOf
<1>3. PICK r : r = mem[c.map]
  OBVIOUS
<1>4. d = [c EXCEPT !.pc = "store", !.reg = r] /\ Becomes(w, d)
  BY <1>1, <1>3 DEF Load, Becomes
<1>5. mem \in Memory
  BY DEF Typed, BuffersTyped
<1>6. /\ c.map = "ibmap" => r \in SUBSET Inos
      /\ c.map = "dbmap" => r \in SUBSET Blocks
  BY <1>3, <1>5 DEF Memory
<1>7. SizeOf("ibmap") = NumInodes /\ SizeOf("dbmap") = NumBlocks
  BY DEF SizeOf
<1>8. ASSUME CreateTyped(c)
      PROVE  CallTyped(d) /\ Same(c, d) /\ d.pos = c.pos /\ d.pc = "store" /\ d.reg = r
             /\ c.op = "create"
  <2>1. c.map = "ibmap" /\ c.pos \in Inos
    BY <1>1, <1>7, <1>8, ConstantFacts DEF CreateTyped
  <2>2. CreateTyped(d)
    BY <1>1, <1>4, <1>6, <1>8, <2>1 DEF CreateTyped, CreatePcs
  <2> QED
    BY <1>4, <1>8, <2>2 DEF CallTyped, CreateTyped, Same
<1>9. ASSUME WriteTyped(c)
      PROVE  CallTyped(d) /\ Same(c, d) /\ d.pos = c.pos /\ d.pc = "store" /\ d.reg = r
             /\ c.op = "write"
  <2>1. c.map = "dbmap" /\ c.pos \in Blocks
    BY <1>1, <1>7, <1>9, ConstantFacts DEF WriteTyped
  <2>2. WriteTyped(d)
    BY <1>1, <1>4, <1>6, <1>9, <2>1 DEF WriteTyped, WritePcs
  <2> QED
    BY <1>4, <1>9, <2>2 DEF CallTyped, WriteTyped, Same
<1>10. ASSUME UnlinkTyped(c)
       PROVE  CallTyped(d) /\ Same(c, d) /\ d.pos = c.pos /\ d.pc = "store" /\ d.reg = r
              /\ c.op = "unlink"
  <2>1. UnlinkTyped(d)
    <3>1. c.map \in {"ibmap", "dbmap"} /\ r \in SUBSET (Inos \cup Blocks)
      BY <1>6, <1>10 DEF UnlinkTyped
    <3> QED
      BY <1>1, <1>4, <1>6, <1>10, <3>1 DEF UnlinkTyped, UnlinkPcs
  <2> QED
    BY <1>4, <1>10, <2>1 DEF CallTyped, UnlinkTyped, Same
<1>11. Turns(w, d)
  BY <1>2, <1>4, <1>8, <1>9, <1>10 DEF Turns
<1>12. Typed'
  BY <1>11, TurnsTyped DEF Typed, BuffersTyped, TablesTyped, Load
<1> QED
  BY <1>1, <1>2, <1>3, <1>8, <1>9, <1>10, <1>11, <1>12

\* The byte with the bit set or cleared.
NewMap(c) == IF c.op = "unlink" THEN c.reg \ {c.pos} ELSE c.reg \cup {c.pos}

LEMMA StoreTurns ==
    ASSUME Typed, NEW w \in Workers, Store(w), NEW c, c = call[w], NEW d, d = call'[w]
    PROVE  /\ Turns(w, d) /\ Typed' /\ Same(c, d) /\ c.pc = "store" /\ d.pos = c.pos
           /\ c.op \in {"create", "write", "unlink"} /\ d.pc = AfterStore(c.op, c.map)
           /\ \/ c.map = "ibmap" /\ c.op # "write"
              \/ c.map = "dbmap" /\ c.op # "create"
           /\ c.map = "ibmap" => mem'.ibmap = NewMap(c) /\ mem'.dbmap = mem.dbmap
           /\ c.map = "dbmap" => mem'.dbmap = NewMap(c) /\ mem'.ibmap = mem.ibmap
           /\ mem'.itable = mem.itable
<1>1. c.pc = "store" /\ CallTyped(c) /\ DOMAIN call = Workers
  BY DEF Typed, CallsTyped, Store
<1>2. CreateTyped(c) \/ WriteTyped(c) \/ UnlinkTyped(c)
  BY <1>1, KindOf
<1>3. PICK x, pc : x = NewMap(c) /\ pc = AfterStore(c.op, c.map)
  OBVIOUS
<1>4. d = [c EXCEPT !.pc = pc, !.count = 0, !.reg = {}] /\ Becomes(w, d)
  BY <1>1, <1>3 DEF Store, Becomes
<1>5. mem' = [mem EXCEPT ![c.map] = x] /\ disk' = disk
  BY <1>3 DEF Store, NewMap
<1>6. ASSUME CreateTyped(c)
      PROVE  CallTyped(d) /\ Same(c, d) /\ d.pos = c.pos /\ d.pc = pc
             /\ c.op = "create" /\ c.map = "ibmap" /\ x \in SUBSET Inos
  <2>1. c.op = "create" /\ c.map = "ibmap" /\ c.reg \in SUBSET Inos /\ c.pos \in Inos
    BY <1>1, <1>6 DEF CreateTyped
  <2>2. pc = "hint" /\ x \in SUBSET Inos
    BY <1>3, <2>1 DEF AfterStore, NewMap
  <2>3. CreateTyped(d)
    <3>1. 0 \in 0..NumInodes
      BY ConstantFacts
    <3> QED
      BY <1>1, <1>4, <1>6, <2>1, <2>2, <3>1 DEF CreateTyped, CreatePcs
  <2> QED
    BY <1>4, <1>6, <2>1, <2>2, <2>3 DEF CallTyped, CreateTyped, Same
<1>7. ASSUME WriteTyped(c)
      PROVE  CallTyped(d) /\ Same(c, d) /\ d.pos = c.pos /\ d.pc = pc
             /\ c.op = "write" /\ c.map = "dbmap" /\ x \in SUBSET Blocks
  <2>1. c.op = "write" /\ c.map = "dbmap" /\ c.reg \in SUBSET Blocks /\ c.pos \in Blocks
    BY <1>1, <1>7 DEF WriteTyped
  <2>2. pc = "data" /\ x \in SUBSET Blocks
    BY <1>3, <2>1 DEF AfterStore, NewMap
  <2>3. WriteTyped(d)
    <3>1. 0 \in 0..NumBlocks
      BY ConstantFacts
    <3> QED
      BY <1>1, <1>4, <1>7, <2>1, <2>2, <3>1 DEF WriteTyped, WritePcs
  <2> QED
    BY <1>4, <1>7, <2>1, <2>2, <2>3 DEF CallTyped, WriteTyped, Same
<1>8. ASSUME UnlinkTyped(c)
      PROVE  /\ CallTyped(d) /\ Same(c, d) /\ d.pos = c.pos /\ d.pc = pc
             /\ c.op = "unlink" /\ c.map \in {"ibmap", "dbmap"}
             /\ c.map = "ibmap" => x \in SUBSET Inos
             /\ c.map = "dbmap" => x \in SUBSET Blocks
  <2>1. /\ c.op = "unlink" /\ c.map \in {"ibmap", "dbmap"}
        /\ c.map = "ibmap" => c.reg \in SUBSET Inos
        /\ c.map = "dbmap" => c.reg \in SUBSET Blocks
    BY <1>1, <1>8 DEF UnlinkTyped
  <2>2. /\ pc = IF c.map = "dbmap" THEN "zero" ELSE "forget"
        /\ x = c.reg \ {c.pos}
    BY <1>3, <2>1 DEF AfterStore, NewMap
  <2>3. UnlinkTyped(d)
    BY <1>1, <1>4, <1>8, <2>1, <2>2 DEF UnlinkTyped, UnlinkPcs
  <2>4. Same(c, d) /\ d.pos = c.pos /\ d.pc = pc
    BY <1>4, <1>8 DEF UnlinkTyped, Same
  <2> QED
    BY <2>1, <2>2, <2>3, <2>4 DEF CallTyped
<1>9. Turns(w, d) /\ Same(c, d) /\ d.pos = c.pos /\ d.pc = pc
      /\ c.op \in {"create", "write", "unlink"}
  BY <1>2, <1>4, <1>6, <1>7, <1>8 DEF Turns
<1>10. \/ c.map = "ibmap" /\ c.op # "write" /\ x \in SUBSET Inos
       \/ c.map = "dbmap" /\ c.op # "create" /\ x \in SUBSET Blocks
  BY <1>2, <1>6, <1>7, <1>8
<1>11. mem \in Memory /\ disk \in Memory
  BY DEF Typed, BuffersTyped
<1>12. /\ mem' \in Memory
       /\ c.map = "ibmap" => mem'.ibmap = x /\ mem'.dbmap = mem.dbmap
       /\ c.map = "dbmap" => mem'.dbmap = x /\ mem'.ibmap = mem.ibmap
       /\ mem'.itable = mem.itable
  <2>1. CASE c.map = "ibmap" /\ x \in SUBSET Inos
    <3>1. mem' = [mem EXCEPT !.ibmap = x]
      BY <1>5, <2>1
    <3> QED
      BY <1>11, <2>1, <3>1 DEF Memory
  <2>2. CASE c.map = "dbmap" /\ x \in SUBSET Blocks
    <3>1. mem' = [mem EXCEPT !.dbmap = x]
      BY <1>5, <2>2
    <3> QED
      BY <1>11, <2>2, <3>1 DEF Memory
  <2> QED
    BY <1>10, <2>1, <2>2
<1>13. Typed'
  BY <1>5, <1>9, <1>11, <1>12, TurnsTyped DEF Typed, BuffersTyped, TablesTyped, Store
<1> QED
  BY <1>1, <1>3, <1>9, <1>10, <1>12, <1>13

\* A flushed cluster is what the buffer holds.
LEMMA FlushedTyped ==
    ASSUME NEW m \in Maps, NEW e, e = [disk EXCEPT ![m] = mem[m]], BuffersTyped
    PROVE  e \in Memory
  BY DEF BuffersTyped, Memory, Maps

LEMMA FlushTurns ==
    ASSUME Typed, NEW w \in Workers, Flush(w), NEW c, c = call[w], NEW d, d = call'[w]
    PROVE  /\ Turns(w, d) /\ Typed' /\ c.pc = "flush" /\ c.op \in {"create", "write", "unlink"}
           /\ \/ d = Idle
              \/ Same(c, d) /\ d.pc = "flush"
              \/ Same(c, d) /\ d.pc = "find" /\ c.op = "create"
<1>1. c.pc = "flush" /\ CallTyped(c) /\ DOMAIN call = Workers
  BY DEF Typed, CallsTyped, Flush
<1>2. CreateTyped(c) \/ WriteTyped(c) \/ UnlinkTyped(c)
  BY <1>1, KindOf
<1>3. PICK m, n : m = FlushOrder(c.op)[c.done + 1] /\ n = Len(FlushOrder(c.op))
  OBVIOUS
<1>4. /\ disk' = [disk EXCEPT ![m] = mem[m]] /\ mem' = mem
      /\ \/ c.done + 1 # n /\ call' = [call EXCEPT ![w].done = c.done + 1]
         \/ c.done + 1 = n /\ c.op = "create" /\ Goto(w, "find")
         \/ c.done + 1 = n /\ c.op # "create" /\ Return(w)
  BY <1>3 DEF Flush
<1>5. \/ c.done + 1 # n /\ d = [c EXCEPT !.done = c.done + 1]
      \/ c.done + 1 = n /\ c.op = "create" /\ d = [c EXCEPT !.pc = "find"]
      \/ c.done + 1 = n /\ c.op # "create" /\ d = Idle
  BY <1>1, <1>4 DEF Goto, Return
<1>6. Becomes(w, d)
  BY <1>1, <1>4 DEF Becomes, Goto, Return
<1>7. ASSUME CreateTyped(c)
      PROVE  /\ m \in Maps /\ CallTyped(d) /\ c.op = "create"
             /\ d = Idle \/ (Same(c, d) /\ d.pc \in {"flush", "find"})
  <2>1. c.op = "create" /\ c.done \in 0..2
    BY <1>7 DEF CreateTyped
  <2>2. n = 3 /\ m \in Maps
    BY <1>3, <2>1, Orders DEF Maps
  <2>3. CASE c.done + 1 # n /\ d = [c EXCEPT !.done = c.done + 1]
    <3>1. c.done + 1 \in 0..2
      BY <2>1, <2>2, <2>3
    <3>2. CreateTyped(d)
      BY <1>1, <1>7, <2>3, <3>1 DEF CreateTyped
    <3> QED
      BY <1>1, <1>7, <2>1, <2>2, <2>3, <3>2 DEF CallTyped, CreateTyped, Same
  <2>4. CASE d = [c EXCEPT !.pc = "find"]
    <3>1. CreateTyped(d)
      BY <1>1, <1>7, <2>4 DEF CreateTyped, CreatePcs
    <3> QED
      BY <1>7, <2>1, <2>2, <2>4, <3>1 DEF CallTyped, CreateTyped, Same
  <2> QED
    BY <1>5, <2>1, <2>3, <2>4
<1>8. ASSUME WriteTyped(c)
      PROVE  /\ m \in Maps /\ CallTyped(d) /\ c.op = "write"
             /\ d = Idle \/ (Same(c, d) /\ d.pc = "flush")
  <2>1. c.op = "write" /\ c.done \in 0..2
    BY <1>8 DEF WriteTyped
  <2>2. n = 3 /\ m \in Maps
    BY <1>3, <2>1, Orders DEF Maps
  <2>3. CASE c.done + 1 # n /\ d = [c EXCEPT !.done = c.done + 1]
    <3>1. c.done + 1 \in 0..2
      BY <2>1, <2>2, <2>3
    <3>2. WriteTyped(d)
      BY <1>1, <1>8, <2>3, <3>1 DEF WriteTyped
    <3> QED
      BY <1>1, <1>8, <2>1, <2>2, <2>3, <3>2 DEF CallTyped, WriteTyped, Same
  <2>4. CASE d = Idle
    BY <2>1, <2>2, <2>4 DEF CallTyped
  <2> QED
    BY <1>5, <2>1, <2>3, <2>4
<1>9. ASSUME UnlinkTyped(c)
      PROVE  /\ m \in Maps /\ CallTyped(d) /\ c.op = "unlink"
             /\ d = Idle \/ (Same(c, d) /\ d.pc = "flush")
  <2>1. c.op = "unlink" /\ c.done \in 0..3
    BY <1>9 DEF UnlinkTyped
  <2>2. n = 4 /\ m \in Maps
    BY <1>3, <2>1, Orders DEF Maps
  <2>3. CASE c.done + 1 # n /\ d = [c EXCEPT !.done = c.done + 1]
    <3>1. c.done + 1 \in 0..3
      BY <2>1, <2>2, <2>3
    <3>2. UnlinkTyped(d)
      BY <1>1, <1>9, <2>3, <3>1 DEF UnlinkTyped
    <3> QED
      BY <1>1, <1>9, <2>1, <2>2, <2>3, <3>2 DEF CallTyped, UnlinkTyped, Same
  <2>4. CASE d = Idle
    BY <2>1, <2>2, <2>4 DEF CallTyped
  <2> QED
    BY <1>5, <2>1, <2>3, <2>4
<1>10. Turns(w, d)
  BY <1>2, <1>6, <1>7, <1>8, <1>9 DEF Turns
<1>11. disk' \in Memory
  BY <1>2, <1>4, <1>7, <1>8, <1>9, FlushedTyped DEF Typed
<1>12. Typed'
  BY <1>4, <1>10, <1>11, TurnsTyped DEF Typed, BuffersTyped, TablesTyped, Flush
<1> QED
  BY <1>1, <1>2, <1>7, <1>8, <1>9, <1>10, <1>12

\* Goto, for a call of one kind.
LEMMA GotoTurns ==
    ASSUME Typed, NEW w \in Workers, NEW pc, Goto(w, pc), NEW c, c = call[w], NEW d, d = call'[w],
           \/ CreateTyped(c) /\ c.pc = "hint" /\ pc = "enter"
           \/ WriteTyped(c) /\ c.pc = "data" /\ pc = "back"
           \/ WriteTyped(c) /\ c.pc = "back" /\ pc = "flush"
           \/ UnlinkTyped(c) /\ c.pc = "forget" /\ pc = "flush"
    PROVE  Turns(w, d) /\ CallsTyped' /\ Same(c, d) /\ d.pc = pc /\ d.pos = c.pos
<1>1. d = [c EXCEPT !.pc = pc] /\ Becomes(w, d)
  BY DEF Typed, CallsTyped, Goto, Becomes
<1>2. CASE CreateTyped(c) /\ c.pc = "hint" /\ pc = "enter"
  <2>1. CreateTyped(d)
    BY <1>1, <1>2 DEF CreateTyped, CreatePcs
  <2>2. Same(c, d) /\ d.pc = pc /\ d.pos = c.pos
    BY <1>1, <1>2 DEF CreateTyped, Same
  <2> QED
    BY <1>1, <2>1, <2>2, TurnsTyped DEF Turns, CallTyped, Typed
<1>3. CASE WriteTyped(c) /\ c.pc \in {"data", "back"} /\ pc \in {"back", "flush"}
  <2>1. WriteTyped(d)
    BY <1>1, <1>3 DEF WriteTyped, WritePcs
  <2>2. Same(c, d) /\ d.pc = pc /\ d.pos = c.pos
    BY <1>1, <1>3 DEF WriteTyped, Same
  <2> QED
    BY <1>1, <2>1, <2>2, TurnsTyped DEF Turns, CallTyped, Typed
<1>4. CASE UnlinkTyped(c) /\ c.pc = "forget" /\ pc = "flush"
  <2>1. UnlinkTyped(d)
    BY <1>1, <1>4 DEF UnlinkTyped, UnlinkPcs
  <2>2. Same(c, d) /\ d.pc = pc /\ d.pos = c.pos
    BY <1>1, <1>4 DEF UnlinkTyped, Same
  <2> QED
    BY <1>1, <2>1, <2>2, TurnsTyped DEF Turns, CallTyped, Typed
<1> QED
  BY <1>2, <1>3, <1>4

LEMMA MoveHintTurns ==
    ASSUME Typed, NEW w \in Workers, MoveHint(w), NEW c, c = call[w], NEW d, d = call'[w]
    PROVE  /\ Turns(w, d) /\ Typed' /\ Same(c, d) /\ c.op = "create" /\ c.pc = "hint"
           /\ d.pc = "enter" /\ d.pos = c.pos
           /\ mem'.ibmap = mem.ibmap /\ mem'.dbmap = mem.dbmap /\ mem'.itable = mem.itable
<1>1. c.pc = "hint" /\ CallTyped(c) /\ Goto(w, "enter") /\ mem \in Memory
  BY DEF Typed, CallsTyped, BuffersTyped, MoveHint
<1>2. CreateTyped(c)
  BY <1>1, KindOf
<1>3. Turns(w, d) /\ CallsTyped' /\ Same(c, d) /\ d.pc = "enter" /\ d.pos = c.pos
  BY <1>1, <1>2, GotoTurns
<1>4. c.op = "create" /\ c.pos \in Inos
  BY <1>1, <1>2 DEF CreateTyped
<1>5. PICK p : p = c.pos + 1 /\ p \in 0..NumInodes
  BY <1>4, ConstantFacts
<1>6. mem' = [mem EXCEPT !.sb = p]
  BY <1>5 DEF MoveHint
<1>7. mem' \in Memory /\ mem'.ibmap = mem.ibmap /\ mem'.dbmap = mem.dbmap /\ mem'.itable = mem.itable
  BY <1>1, <1>5, <1>6 DEF Memory
<1>8. Typed'
  BY <1>3, <1>7 DEF Typed, BuffersTyped, TablesTyped, MoveHint
<1> QED
  BY <1>1, <1>3, <1>4, <1>7, <1>8

\* A new entry of the inode table.
LEMMA EntryTyped ==
    ASSUME mem \in Memory, NEW i \in Inos, NEW n \in Node, mem' = [mem EXCEPT !.itable[i] = n]
    PROVE  /\ mem' \in Memory /\ mem'.ibmap = mem.ibmap /\ mem'.dbmap = mem.dbmap
           /\ mem'.itable = [mem.itable EXCEPT ![i] = n]
  BY DEF Memory

NewFile == [type |-> "FILE", size |-> 0, blk |-> NoBlock]

LEMMA EnterTurns ==
    ASSUME Typed, NEW w \in Workers, Enter(w), NEW c, c = call[w], NEW d, d = call'[w]
    PROVE  /\ Turns(w, d) /\ Typed' /\ c.op = "create" /\ c.pc = "enter"
           /\ d.op = "create" /\ d.pc = "flush" /\ d.file = c.file /\ d.fd = c.fd
           /\ d.ino = c.pos /\ c.pos \in Inos /\ c.file \in Files
           /\ mem'.ibmap = mem.ibmap /\ mem'.dbmap = mem.dbmap
           /\ mem'.itable = [mem.itable EXCEPT ![c.pos] = NewFile]
           /\ names' = [names EXCEPT ![c.file] = c.pos]
<1>1. c.pc = "enter" /\ CallTyped(c) /\ DOMAIN call = Workers /\ mem \in Memory
  BY DEF Typed, CallsTyped, BuffersTyped, Enter
<1>2. CreateTyped(c)
  BY <1>1, KindOf
<1>3. c.op = "create" /\ c.pos \in Inos /\ c.file \in Files
  BY <1>1, <1>2 DEF CreateTyped
<1>4. d = [c EXCEPT !.pc = "flush", !.ino = c.pos] /\ Becomes(w, d)
  BY <1>1 DEF Enter, Becomes
<1>5. CreateTyped(d) /\ d.op = "create" /\ d.pc = "flush" /\ d.file = c.file /\ d.fd = c.fd
      /\ d.ino = c.pos
  BY <1>2, <1>3, <1>4 DEF CreateTyped, CreatePcs
<1>6. Turns(w, d) /\ CallsTyped'
  BY <1>4, <1>5, TurnsTyped DEF Turns, CallTyped, Typed
<1>7. NewFile \in Node
  BY DEF NewFile, Node
<1>8. mem' = [mem EXCEPT !.itable[c.pos] = NewFile] /\ names' = [names EXCEPT ![c.file] = c.pos]
  BY DEF Enter, NewFile
<1>9. /\ mem' \in Memory /\ mem'.ibmap = mem.ibmap /\ mem'.dbmap = mem.dbmap
      /\ mem'.itable = [mem.itable EXCEPT ![c.pos] = NewFile]
  BY <1>1, <1>3, <1>7, <1>8, EntryTyped
<1>10. names' \in [Files -> Inos]
  BY <1>3, <1>8 DEF Typed, TablesTyped
<1>11. Typed'
  BY <1>6, <1>9, <1>10 DEF Typed, BuffersTyped, TablesTyped, Enter
<1> QED
  BY <1>1, <1>3, <1>5, <1>6, <1>8, <1>9, <1>11

LEMMA FindHandleTurns ==
    ASSUME Typed, NEW w \in Workers, FindHandle(w), NEW c, c = call[w], NEW d, d = call'[w]
    PROVE  /\ Turns(w, d) /\ Typed' /\ c.pc = "find" /\ c.op \in {"create", "open"}
           /\ \/ d = Idle
              \/ /\ d.op = c.op /\ d.file = c.file /\ d.fd = c.fd /\ d.ino = c.ino
                 /\ d.pc \in {"find", "use"}
                 /\ d.pc = "use" => d.fid \notin used
<1>1. c.pc = "find" /\ CallTyped(c) /\ DOMAIN call = Workers
  BY DEF Typed, CallsTyped, FindHandle
<1>2. CreateTyped(c) \/ OpenTyped(c)
  BY <1>1, KindOf
<1>3. c.op \in {"create", "open"}
  BY <1>2 DEF CreateTyped, OpenTyped
<1>4. CASE Return(w)
  <2>1. d = Idle
    BY <1>1, <1>4 DEF Return
  <2>2. Turns(w, d) /\ CallsTyped'
    BY <1>4, <2>1, TurnsIdle
  <2> QED
    BY <1>1, <1>3, <2>1, <2>2 DEF FindHandle, Typed, BuffersTyped, TablesTyped
<1>5. CASE ~Return(w)
  <2>1. /\ Becomes(w, d)
        /\ \/ c.fid \notin used /\ d = [c EXCEPT !.pc = "use"]
           \/ c.fid + 1 \in Fids /\ d = [c EXCEPT !.fid = c.fid + 1]
    BY <1>1, <1>5 DEF FindHandle, Goto, Becomes
  <2>2. /\ CallTyped(d) /\ d.op = c.op /\ d.file = c.file /\ d.fd = c.fd /\ d.ino = c.ino
        /\ d.pc \in {"find", "use"} /\ (d.pc = "use" => d.fid \notin used)
    <3>1. CASE CreateTyped(c)
      <4>1. CreateTyped(d)
        BY <2>1, <3>1 DEF CreateTyped, CreatePcs
      <4> QED
        BY <1>1, <2>1, <3>1, <4>1 DEF CallTyped, CreateTyped
    <3>2. CASE OpenTyped(c)
      <4>1. OpenTyped(d)
        BY <2>1, <3>2 DEF OpenTyped
      <4> QED
        BY <1>1, <2>1, <3>2, <4>1 DEF CallTyped, OpenTyped
    <3> QED
      BY <1>2, <3>1, <3>2
  <2>3. Turns(w, d) /\ CallsTyped'
    BY <2>1, <2>2, TurnsTyped DEF Turns, Typed
  <2>4. Typed'
    BY <2>3 DEF FindHandle, Typed, BuffersTyped, TablesTyped
  <2> QED
    BY <1>1, <1>3, <2>2, <2>3, <2>4
<1> QED
  BY <1>4, <1>5

LEMMA UseHandleTurns ==
    ASSUME Typed, NEW w \in Workers, UseHandle(w), NEW c, c = call[w], NEW d, d = call'[w]
    PROVE  /\ Turns(w, d) /\ Typed' /\ c.pc = "use" /\ c.op \in {"create", "open"}
           /\ d.op = c.op /\ d.file = c.file /\ d.fd = c.fd /\ d.ino = c.ino
           /\ d.pc = "fill" /\ d.fid = c.fid /\ c.fid \in Fids
           /\ used' = used \cup {c.fid}
<1>1. c.pc = "use" /\ CallTyped(c) /\ DOMAIN call = Workers /\ Goto(w, "fill")
  BY DEF Typed, CallsTyped, UseHandle
<1>2. CreateTyped(c) \/ OpenTyped(c)
  BY <1>1, KindOf
<1>3. d = [c EXCEPT !.pc = "fill"] /\ Becomes(w, d)
  BY <1>1 DEF Goto, Becomes
<1>4. /\ CallTyped(d) /\ d.op = c.op /\ d.file = c.file /\ d.fd = c.fd /\ d.ino = c.ino
      /\ d.pc = "fill" /\ d.fid = c.fid /\ c.fid \in Fids /\ c.op \in {"create", "open"}
  <2>1. CASE CreateTyped(c)
    <3>1. CreateTyped(d)
      BY <1>3, <2>1 DEF CreateTyped, CreatePcs
    <3> QED
      BY <1>3, <2>1, <3>1 DEF CallTyped, CreateTyped
  <2>2. CASE OpenTyped(c)
    <3>1. OpenTyped(d)
      BY <1>3, <2>2 DEF OpenTyped
    <3> QED
      BY <1>3, <2>2, <3>1 DEF CallTyped, OpenTyped
  <2> QED
    BY <1>2, <2>1, <2>2
<1>5. Turns(w, d) /\ CallsTyped'
  BY <1>3, <1>4, TurnsTyped DEF Turns, Typed
<1>6. used' = used \cup {c.fid}
  BY DEF UseHandle
<1>7. Typed'
  BY <1>4, <1>5, <1>6 DEF UseHandle, Typed, BuffersTyped, TablesTyped
<1> QED
  BY <1>1, <1>4, <1>5, <1>6, <1>7

LEMMA FillHandleTurns ==
    ASSUME Typed, NEW w \in Workers, FillHandle(w), NEW c, c = call[w]
    PROVE  /\ Turns(w, Idle) /\ Typed' /\ c.pc = "fill" /\ c.op \in {"create", "open"}
           /\ c.fd \in Fds /\ c.fid \in Fids /\ c.file \in Files
           /\ file_table' = [file_table EXCEPT ![c.fid] = c.ino]
           /\ fds'[c.fd] # NoFd /\ fds'[c.fd].fid = c.fid /\ fds'[c.fd].file = c.file
           /\ \A x \in Fds \ {c.fd} : fds'[x] = fds[x]
<1>1. c.pc = "fill" /\ CallTyped(c) /\ DOMAIN call = Workers /\ Return(w)
  BY DEF Typed, CallsTyped, FillHandle
<1>2. CreateTyped(c) \/ OpenTyped(c)
  BY <1>1, KindOf
<1>3. c.op \in {"create", "open"} /\ c.fd \in Fds /\ c.fid \in Fids /\ c.file \in Files /\ c.ino \in Inos
  BY <1>1, <1>2 DEF CreateTyped, OpenTyped
<1>4. Turns(w, Idle) /\ CallsTyped'
  BY <1>1, TurnsIdle
<1>5. PICK r : /\ r = [fid |-> c.fid, file |-> c.file]
               /\ r \in [fid : Fids, file : Files] /\ r.fid = c.fid /\ r.file = c.file
  <2>1. PICK r : r = [fid |-> c.fid, file |-> c.file]
    OBVIOUS
  <2>2. r \in [fid : Fids, file : Files]
    BY <1>3, <2>1
  <2> QED
    BY <2>1, <2>2
<1>6. r # NoFd
  BY <1>5, OpenFd
<1>7. fds' = [fds EXCEPT ![c.fd] = r] /\ file_table' = [file_table EXCEPT ![c.fid] = c.ino]
  BY <1>5 DEF FillHandle
<1>8. TablesTyped'
  BY <1>3, <1>5, <1>7 DEF FillHandle, Typed, TablesTyped
<1>9. Typed'
  BY <1>4, <1>8 DEF FillHandle, Typed, BuffersTyped
<1> QED
  BY <1>1, <1>3, <1>4, <1>5, <1>6, <1>7, <1>9 DEF Typed, TablesTyped

LEMMA ClearHandleTurns ==
    ASSUME Typed, NEW w \in Workers, ClearHandle(w), NEW c, c = call[w], NEW d, d = call'[w]
    PROVE  /\ Turns(w, d) /\ Typed' /\ c.pc = "clear" /\ c.op = "release"
           /\ d.op = "release" /\ d.pc = "free" /\ d.fid = c.fid /\ d.file = c.file
           /\ c.fid \in Fids
           /\ file_table' = [file_table EXCEPT ![c.fid] = 0]
<1>1. c.pc = "clear" /\ CallTyped(c) /\ DOMAIN call = Workers /\ Goto(w, "free")
  BY DEF Typed, CallsTyped, ClearHandle
<1>2. ReleaseTyped(c)
  BY <1>1, KindOf
<1>3. d = [c EXCEPT !.pc = "free"] /\ Becomes(w, d)
  BY <1>1 DEF Goto, Becomes
<1>4. /\ ReleaseTyped(d) /\ d.op = "release" /\ c.op = "release" /\ d.pc = "free"
      /\ d.fid = c.fid /\ d.file = c.file /\ c.fid \in Fids
  BY <1>2, <1>3 DEF ReleaseTyped
<1>5. Turns(w, d) /\ CallsTyped'
  BY <1>3, <1>4, TurnsTyped DEF Turns, Typed, CallTyped
<1>6. file_table' = [file_table EXCEPT ![c.fid] = 0]
  BY DEF ClearHandle
<1>7. Typed'
  BY <1>4, <1>5, <1>6, ConstantFacts DEF ClearHandle, Typed, BuffersTyped, TablesTyped
<1> QED
  BY <1>1, <1>4, <1>5, <1>6, <1>7

LEMMA FreeHandleTurns ==
    ASSUME Typed, NEW w \in Workers, FreeHandle(w), NEW c, c = call[w]
    PROVE  /\ Turns(w, Idle) /\ Typed' /\ c.pc = "free" /\ c.op = "release"
           /\ used' = used \ {c.fid}
<1>1. c.pc = "free" /\ CallTyped(c) /\ Return(w) /\ used' = used \ {c.fid}
  BY DEF Typed, CallsTyped, FreeHandle
<1>2. c.op = "release"
  BY <1>1, KindOf DEF ReleaseTyped
<1>3. Turns(w, Idle) /\ CallsTyped'
  BY <1>1, TurnsIdle
<1>4. Typed'
  BY <1>1, <1>3 DEF FreeHandle, Typed, BuffersTyped, TablesTyped
<1> QED
  BY <1>1, <1>2, <1>3, <1>4

LEMMA WriteDataTurns ==
    ASSUME Typed, NEW w \in Workers, WriteData(w), NEW c, c = call[w], NEW d, d = call'[w]
    PROVE  /\ Turns(w, d) /\ Typed' /\ Same(c, d) /\ c.op = "write" /\ c.pc = "data"
           /\ d.pc = "back" /\ d.pos = c.pos /\ c.pos \in Blocks
           /\ data' = [data EXCEPT ![c.pos] = c.ino]
<1>1. c.pc = "data" /\ CallTyped(c) /\ Goto(w, "back")
  BY DEF Typed, CallsTyped, WriteData
<1>2. WriteTyped(c)
  BY <1>1, KindOf
<1>3. Turns(w, d) /\ CallsTyped' /\ Same(c, d) /\ d.pc = "back" /\ d.pos = c.pos
  BY <1>1, <1>2, GotoTurns
<1>4. c.op = "write" /\ c.pos \in Blocks /\ c.ino \in Inos
  BY <1>1, <1>2 DEF WriteTyped
<1>5. data' = [data EXCEPT ![c.pos] = c.ino]
  BY DEF WriteData
<1>6. Typed'
  BY <1>3, <1>4, <1>5 DEF Typed, BuffersTyped, TablesTyped, WriteData
<1> QED
  BY <1>1, <1>3, <1>4, <1>5, <1>6

Written(c) == [type |-> c.type, size |-> 1, blk |-> c.pos]

LEMMA WriteBackTurns ==
    ASSUME Typed, NEW w \in Workers, WriteBack(w), NEW c, c = call[w], NEW d, d = call'[w]
    PROVE  /\ Turns(w, d) /\ Typed' /\ Same(c, d) /\ c.op = "write" /\ c.pc = "back"
           /\ d.pc = "flush" /\ c.pos \in Blocks /\ c.ino \in Inos
           /\ c.ino # 0 => c.type = "FILE"
           /\ mem'.ibmap = mem.ibmap /\ mem'.dbmap = mem.dbmap
           /\ mem'.itable = [mem.itable EXCEPT ![c.ino] = Written(c)]
<1>1. c.pc = "back" /\ CallTyped(c) /\ Goto(w, "flush") /\ mem \in Memory
  BY DEF Typed, CallsTyped, BuffersTyped, WriteBack
<1>2. WriteTyped(c)
  BY <1>1, KindOf
<1>3. Turns(w, d) /\ CallsTyped' /\ Same(c, d) /\ d.pc = "flush"
  BY <1>1, <1>2, GotoTurns
<1>4. /\ c.op = "write" /\ c.pos \in Blocks /\ c.ino \in Inos /\ c.type \in {"NONE", "FILE"}
      /\ c.ino # 0 => c.type = "FILE"
  BY <1>1, <1>2 DEF WriteTyped
<1>5. Written(c) \in Node
  BY <1>4, ConstantFacts DEF Written, Node
<1>6. mem' = [mem EXCEPT !.itable[c.ino] = Written(c)]
  BY DEF WriteBack, Written
<1>7. /\ mem' \in Memory /\ mem'.ibmap = mem.ibmap /\ mem'.dbmap = mem.dbmap
      /\ mem'.itable = [mem.itable EXCEPT ![c.ino] = Written(c)]
  BY <1>1, <1>4, <1>5, <1>6, EntryTyped
<1>8. Typed'
  BY <1>3, <1>7 DEF Typed, BuffersTyped, TablesTyped, WriteBack
<1> QED
  BY <1>1, <1>3, <1>4, <1>7, <1>8

LEMMA ZeroBlockTurns ==
    ASSUME Typed, NEW w \in Workers, ZeroBlock(w), NEW c, c = call[w], NEW d, d = call'[w]
    PROVE  /\ Turns(w, d) /\ Typed' /\ c.op = "unlink" /\ c.pc = "zero" /\ c.map = "dbmap"
           /\ d.op = "unlink" /\ d.pc = "load" /\ d.file = c.file /\ d.ino = c.ino
           /\ d.map = "ibmap" /\ d.pos = c.ino /\ c.pos \in Blocks
           /\ data' = [data EXCEPT ![c.pos] = 0]
<1>1. c.pc = "zero" /\ CallTyped(c) /\ DOMAIN call = Workers
  BY DEF Typed, CallsTyped, ZeroBlock
<1>2. UnlinkTyped(c)
  BY <1>1, KindOf
<1>3. d = [c EXCEPT !.pc = "load", !.map = "ibmap", !.pos = c.ino] /\ Becomes(w, d)
  BY <1>1 DEF ZeroBlock, Becomes
<1>4. /\ c.op = "unlink" /\ c.ino \in Inos /\ c.map = "dbmap" /\ c.pos \in Blocks
  BY <1>1, <1>2 DEF UnlinkTyped
<1>5. UnlinkTyped(d) /\ d.op = "unlink" /\ d.pc = "load" /\ d.file = c.file /\ d.ino = c.ino
      /\ d.map = "ibmap" /\ d.pos = c.ino
  BY <1>2, <1>3, <1>4 DEF UnlinkTyped, UnlinkPcs
<1>6. Turns(w, d) /\ CallsTyped'
  BY <1>3, <1>5, TurnsTyped DEF Turns, CallTyped, Typed
<1>7. data' = [data EXCEPT ![c.pos] = 0]
  BY DEF ZeroBlock
<1>8. Typed'
  BY <1>4, <1>6, <1>7, ConstantFacts DEF Typed, BuffersTyped, TablesTyped, ZeroBlock
<1> QED
  BY <1>1, <1>4, <1>5, <1>6, <1>7, <1>8

LEMMA ForgetTurns ==
    ASSUME Typed, NEW w \in Workers, Forget(w), NEW c, c = call[w], NEW d, d = call'[w]
    PROVE  /\ Turns(w, d) /\ Typed' /\ Same(c, d) /\ c.op = "unlink" /\ c.pc = "forget"
           /\ d.pc = "flush" /\ c.ino \in Inos /\ c.file \in Files /\ c.map = "ibmap"
           /\ mem'.ibmap = mem.ibmap /\ mem'.dbmap = mem.dbmap
           /\ mem'.itable = [mem.itable EXCEPT ![c.ino] = ZeroInode]
           /\ names' = [names EXCEPT ![c.file] = 0]
<1>1. c.pc = "forget" /\ CallTyped(c) /\ Goto(w, "flush") /\ mem \in Memory
  BY DEF Typed, CallsTyped, BuffersTyped, Forget
<1>2. UnlinkTyped(c)
  BY <1>1, KindOf
<1>3. Turns(w, d) /\ CallsTyped' /\ Same(c, d) /\ d.pc = "flush"
  BY <1>1, <1>2, GotoTurns
<1>4. c.op = "unlink" /\ c.ino \in Inos /\ c.file \in Files /\ c.map = "ibmap"
  BY <1>1, <1>2 DEF UnlinkTyped
<1>5. ZeroInode \in Node
  BY DEF ZeroInode, Node
<1>6. mem' = [mem EXCEPT !.itable[c.ino] = ZeroInode] /\ names' = [names EXCEPT ![c.file] = 0]
  BY DEF Forget
<1>7. /\ mem' \in Memory /\ mem'.ibmap = mem.ibmap /\ mem'.dbmap = mem.dbmap
      /\ mem'.itable = [mem.itable EXCEPT ![c.ino] = ZeroInode]
  BY <1>1, <1>4, <1>5, <1>6, EntryTyped
<1>8. names' \in [Files -> Inos]
  BY <1>4, <1>6, ConstantFacts DEF Typed, TablesTyped
<1>9. Typed'
  BY <1>3, <1>7, <1>8 DEF Typed, BuffersTyped, TablesTyped, Forget
<1> QED
  BY <1>1, <1>3, <1>4, <1>6, <1>7, <1>9

-----------------------------------------------------------------------------
(* Calls that begin.                                                       *)

LEMMA BeginCreateTurns ==
    ASSUME Typed, NEW w \in Workers, NEW x \in Files, NEW fd \in Fds, BeginCreate(w, x, fd),
           NEW d, d = call'[w]
    PROVE  /\ Turns(w, d) /\ Typed' /\ Begin(w, d)
           /\ d.op = "create" /\ d.pc = "probe" /\ d.file = x
<1>1. PICK c : c = [op |-> "create", pc |-> "probe", file |-> x, fd |-> fd, ino |-> 0,
                    map |-> "ibmap", pos |-> mem.sb, count |-> 0, reg |-> {}, done |-> 0,
                    fid |-> StartOpenFile] /\ Begin(w, c)
  BY DEF BeginCreate
<1>2. mem.sb \in 0..NumInodes /\ 0 \in 0..NumInodes
  BY ConstantFacts DEF Typed, BuffersTyped, Memory
<1>3. CreateTyped(c) /\ c.op = "create" /\ c.pc = "probe" /\ c.file = x
  BY <1>1, <1>2, ConstantFacts, FirstHandle DEF CreateTyped, CreatePcs
<1>4. Turns(w, c) /\ CallsTyped'
  BY <1>1, <1>3, BeginTurns DEF CallTyped
<1>5. c = d
  BY <1>4 DEF Turns
<1>6. Typed'
  BY <1>4 DEF BeginCreate, Typed, BuffersTyped, TablesTyped
<1> QED
  BY <1>1, <1>3, <1>4, <1>5, <1>6

LEMMA BeginOpenTurns ==
    ASSUME Typed, NEW w \in Workers, NEW x \in Files, NEW fd \in Fds, BeginOpen(w, x, fd),
           NEW d, d = call'[w]
    PROVE  /\ Turns(w, d) /\ Typed' /\ Begin(w, d)
           /\ d.op = "open" /\ d.pc = "find" /\ d.file = x /\ d.ino = names[x]
<1>1. PICK c : c = [op |-> "open", pc |-> "find", file |-> x, fd |-> fd, ino |-> names[x],
                    fid |-> StartOpenFile] /\ Begin(w, c)
  BY DEF BeginOpen
<1>2. names[x] \in Inos
  BY DEF Typed, TablesTyped
<1>3. OpenTyped(c) /\ c.op = "open" /\ c.pc = "find" /\ c.file = x /\ c.ino = names[x]
  BY <1>1, <1>2, FirstHandle DEF OpenTyped
<1>4. Turns(w, c) /\ CallsTyped'
  BY <1>1, <1>3, BeginTurns DEF CallTyped
<1>5. c = d
  BY <1>4 DEF Turns
<1>6. Typed'
  BY <1>4 DEF BeginOpen, Typed, BuffersTyped, TablesTyped
<1> QED
  BY <1>1, <1>3, <1>4, <1>5, <1>6

LEMMA NodeFacts ==
    ASSUME Typed, NEW i \in Inos, NEW n, n = mem.itable[i]
    PROVE  /\ n.type \in {"NONE", "FILE"} /\ n.size \in {0, 1}
           /\ n.size # 0 <=> n.blk # NoBlock
           /\ n.blk # NoBlock => n.blk \in Blocks
<1>1. n \in Node
  BY DEF Typed, BuffersTyped, Memory
<1> QED
  BY <1>1 DEF Node

LEMMA BeginWriteTurns ==
    ASSUME Typed, NEW w \in Workers, NEW fd \in Fds, BeginWrite(w, fd), NEW d, d = call'[w]
    PROVE  /\ Turns(w, d) /\ Typed' /\ Begin(w, d) /\ d.op = "write" /\ d.map = "dbmap"
           /\ \E ino \in Inos \ {0} :
                 /\ d.ino = IF mem.itable[ino].type = "NONE" THEN 0 ELSE ino
                 /\ \/ mem.itable[ino].size = 0 /\ d.pc = "probe"
                    \/ mem.itable[ino].size # 0 /\ d.pc = "data" /\ d.pos = mem.itable[ino].blk
<1>1. PICK x, ino : x = fds[fd].file /\ ino = file_table[fds[fd].fid]
  OBVIOUS
<1>2. PICK node : node = mem.itable[ino]
  OBVIOUS
<1>3. fds[fd] # NoFd /\ ino # 0
  BY <1>1 DEF BeginWrite
<1>4. x \in Files /\ ino \in Inos
  BY <1>1, <1>3 DEF Typed, TablesTyped
<1>5. /\ node.type \in {"NONE", "FILE"} /\ node.size \in {0, 1}
      /\ node.size # 0 => node.blk \in Blocks
  BY <1>2, <1>4, NodeFacts
<1>6. PICK pc, i, pos :
        /\ pc = IF node.size = 0 THEN "probe" ELSE "data"
        /\ i = IF node.type = "NONE" THEN 0 ELSE ino
        /\ pos = IF node.size = 0 THEN 1 ELSE node.blk
  OBVIOUS
<1>7. PICK c : /\ c = [op |-> "write", pc |-> pc, file |-> x, fd |-> fd, ino |-> i,
                       type |-> node.type, map |-> "dbmap", pos |-> pos,
                       count |-> 0, reg |-> {}, done |-> 0]
               /\ Begin(w, c)
  BY <1>1, <1>2, <1>6 DEF BeginWrite
<1>8. /\ pc \in {"probe", "data"} /\ i \in Inos /\ pos \in 0..NumBlocks /\ 0 \in 0..NumBlocks
      /\ pc = "data" => pos \in Blocks
      /\ i # 0 => node.type = "FILE"
  <2>1. 0 \in 0..NumBlocks /\ 1 \in 0..NumBlocks /\ Blocks \subseteq 0..NumBlocks
    BY ConstantFacts DEF Blocks
  <2> QED
    BY <1>4, <1>5, <1>6, <2>1, ConstantFacts
<1>9. /\ WriteTyped(c) /\ c.op = "write" /\ c.map = "dbmap" /\ c.pc = pc /\ c.ino = i
      /\ c.pos = pos
  BY <1>4, <1>5, <1>7, <1>8 DEF WriteTyped, WritePcs
<1>10. Turns(w, c) /\ CallsTyped'
  BY <1>7, <1>9, BeginTurns DEF CallTyped
<1>11. c = d
  BY <1>10 DEF Turns
<1>12. Typed'
  BY <1>10 DEF BeginWrite, Typed, BuffersTyped, TablesTyped
<1>13. /\ ino \in Inos \ {0}
       /\ d.ino = IF mem.itable[ino].type = "NONE" THEN 0 ELSE ino
       /\ \/ mem.itable[ino].size = 0 /\ d.pc = "probe"
          \/ mem.itable[ino].size # 0 /\ d.pc = "data" /\ d.pos = mem.itable[ino].blk
  BY <1>2, <1>3, <1>4, <1>6, <1>9, <1>11
<1> QED
  BY <1>7, <1>9, <1>10, <1>11, <1>12, <1>13

LEMMA BeginUnlinkTurns ==
    ASSUME Typed, NEW w \in Workers, NEW x \in Files, BeginUnlink(w, x), NEW d, d = call'[w]
    PROVE  /\ Turns(w, d) /\ Typed' /\ Begin(w, d)
           /\ d.op = "unlink" /\ d.pc = "load" /\ d.file = x /\ d.ino = names[x]
           /\ \/ d.map = "ibmap" /\ d.pos = names[x]
              \/ /\ d.map = "dbmap" /\ mem.itable[names[x]].size > 0
                 /\ d.pos = mem.itable[names[x]].blk
<1>1. PICK ino, node : ino = names[x] /\ node = mem.itable[ino]
  OBVIOUS
<1>2. ino \in Inos
  BY <1>1 DEF Typed, TablesTyped
<1>3. node.size \in {0, 1} /\ (node.size # 0 => node.blk \in Blocks)
  BY <1>1, <1>2, NodeFacts
<1>4. PICK map, pos : /\ map = IF node.size > 0 THEN "dbmap" ELSE "ibmap"
                      /\ pos = IF node.size > 0 THEN node.blk ELSE ino
  OBVIOUS
<1>5. PICK c : /\ c = [op |-> "unlink", pc |-> "load", file |-> x, fd |-> NoFd, ino |-> ino,
                       map |-> map, pos |-> pos, count |-> 0, reg |-> {}, done |-> 0]
               /\ Begin(w, c)
  BY <1>1, <1>4 DEF BeginUnlink
<1>6. \/ map = "ibmap" /\ pos = ino
      \/ map = "dbmap" /\ node.size > 0 /\ pos = node.blk /\ pos \in Blocks
  BY <1>3, <1>4
<1>7. /\ UnlinkTyped(c) /\ c.op = "unlink" /\ c.pc = "load" /\ c.file = x /\ c.ino = ino
      /\ c.map = map /\ c.pos = pos
  BY <1>2, <1>5, <1>6 DEF UnlinkTyped, UnlinkPcs
<1>8. Turns(w, c) /\ CallsTyped'
  BY <1>5, <1>7, BeginTurns DEF CallTyped
<1>9. c = d
  BY <1>8 DEF Turns
<1>10. Typed'
  BY <1>8 DEF BeginUnlink, Typed, BuffersTyped, TablesTyped
<1> QED
  BY <1>1, <1>5, <1>6, <1>7, <1>8, <1>9, <1>10

LEMMA BeginReleaseTurns ==
    ASSUME Typed, NEW w \in Workers, NEW fd \in Fds, BeginRelease(w, fd), NEW d, d = call'[w]
    PROVE  /\ Turns(w, d) /\ Typed' /\ Begin(w, d) /\ d.op = "release" /\ d.pc = "clear"
           /\ fds[fd] # NoFd /\ d.fid = fds[fd].fid /\ d.file = fds[fd].file
           /\ fds'[fd] = NoFd /\ \A x \in Fds \ {fd} : fds'[x] = fds[x]
<1>1. PICK f, x : f = fds[fd].fid /\ x = fds[fd].file
  OBVIOUS
<1>2. PICK c : /\ c = [op |-> "release", pc |-> "clear", file |-> x, fd |-> NoFd, fid |-> f]
               /\ Begin(w, c) /\ fds' = [fds EXCEPT ![fd] = NoFd] /\ fds[fd] # NoFd
  BY <1>1 DEF BeginRelease
<1>3. f \in Fids /\ x \in Files
  BY <1>1, <1>2 DEF Typed, TablesTyped
<1>4. ReleaseTyped(c) /\ c.op = "release" /\ c.pc = "clear" /\ c.fid = f /\ c.file = x
  BY <1>2, <1>3 DEF ReleaseTyped
<1>5. Turns(w, c) /\ CallsTyped'
  BY <1>2, <1>4, BeginTurns DEF CallTyped
<1>6. c = d
  BY <1>5 DEF Turns
<1>7. TablesTyped'
  BY <1>2 DEF BeginRelease, Typed, TablesTyped
<1>8. Typed'
  BY <1>5, <1>7 DEF BeginRelease, Typed, BuffersTyped
<1> QED
  BY <1>1, <1>2, <1>4, <1>5, <1>6, <1>8 DEF Typed, TablesTyped

LEMMA TypedNext == Typed /\ [Next]_workerVars => Typed'
<1> SUFFICES ASSUME Typed, [Next]_workerVars PROVE Typed'
  OBVIOUS
<1>1. ASSUME NEW w \in Workers, Step(w) PROVE Typed'
  BY <1>1, ProbeTurns, NothingTurns, LoadTurns, StoreTurns, FlushTurns, MoveHintTurns,
     EnterTurns, FindHandleTurns, UseHandleTurns, FillHandleTurns, ClearHandleTurns,
     FreeHandleTurns, WriteDataTurns, WriteBackTurns, ZeroBlockTurns, ForgetTurns DEF Step
<1>2. ASSUME NEW w \in Workers, NEW x \in Files, BeginUnlink(w, x) PROVE Typed'
  BY <1>2, BeginUnlinkTurns
<1>3. ASSUME NEW w \in Workers, NEW x \in Files, NEW fd \in Fds,
             BeginCreate(w, x, fd) \/ BeginOpen(w, x, fd)
      PROVE  Typed'
  BY <1>3, BeginCreateTurns, BeginOpenTurns
<1>4. ASSUME NEW w \in Workers, NEW fd \in Fds, BeginWrite(w, fd) PROVE Typed'
  BY <1>4, BeginWriteTurns
<1>5. ASSUME NEW w \in Workers, NEW fd \in Fds, BeginRelease(w, fd) PROVE Typed'
  BY <1>5, BeginReleaseTurns
<1>6. CASE UNCHANGED workerVars
  BY <1>6 DEF workerVars, Typed, BuffersTyped, TablesTyped, CallsTyped
<1> QED
  BY <1>1, <1>2, <1>3, <1>4, <1>5, <1>6 DEF Next

(***************************************************************************)
(* Whatever calls overlap in whatever order, the buffers, the directories, *)
(* the blocks and the handles hold values of their types: no scan hands    *)
(* out a position past the end of its bitmap.                              *)
(***************************************************************************)
THEOREM WorkersTyped == Spec => []WorkersTypeOK
<1>1. Init => Typed
  BY TypedInit
<1>2. Typed /\ [Next]_workerVars => Typed'
  BY TypedNext
<1>3. Typed => WorkersTypeOK
  BY TypedThen
<1> QED
  BY <1>1, <1>2, <1>3, PTL DEF Spec

-----------------------------------------------------------------------------
(* Calls that have not overlapped.                                         *)

Takers == [number |-> {"create", "unlink"}, block |-> {"write", "unlink"},
           handle |-> {"create", "open"}]

Sole(k) == \A v, w \in Workers : call[v].op \in Takers[k] /\ call[w].op \in Takers[k] => v = w

Apart == \A k \in {"number", "block", "handle"} : k \notin raced => Sole(k)

LEMMA TakersKinds ==
    \A op \in {"create", "open", "write", "unlink", "release"}, k \in {"number", "block", "handle"} :
        op \in Takers[k] => k \in Kinds(op)
  BY DEF Takers, Kinds

LEMMA NoneTakes == \A k \in {"number", "block", "handle"} : "none" \notin Takers[k]
  BY DEF Takers

LEMMA ApartInit == Init => Apart
  BY NoneTakes, IdleFacts DEF Init, Apart, Sole

\* A step that leaves the kind of the call, or ends it.
LEMMA ApartStays ==
    ASSUME Apart, NEW w \in Workers, NEW d, Turns(w, d), d = Idle \/ d.op = call[w].op,
           raced' = raced
    PROVE  Apart'
<1> SUFFICES ASSUME NEW k \in {"number", "block", "handle"}, k \notin raced PROVE Sole(k)'
  BY DEF Apart
<1>1. Sole(k) /\ "none" \notin Takers[k]
  BY NoneTakes DEF Apart
<1>2. \A v \in Workers : call'[v].op \in Takers[k] => call[v].op \in Takers[k]
  BY <1>1, IdleFacts DEF Turns, Becomes
<1> QED
  BY <1>1, <1>2 DEF Sole

LEMMA ApartBegins ==
    ASSUME Typed, Apart, NEW w \in Workers, NEW d, Turns(w, d), Begin(w, d),
           d.op \in {"create", "open", "write", "unlink", "release"}
    PROVE  Apart' /\ raced \subseteq raced'
<1>1. PICK R : /\ R = UNION {Kinds(d.op) \cap Kinds(call[v].op) : v \in {u \in Workers : Busy(u)}}
               /\ raced' = raced \cup R
  BY DEF Begin
<1> SUFFICES ASSUME NEW k \in {"number", "block", "handle"}, k \notin raced'
             PROVE  Sole(k)'
  BY <1>1 DEF Apart
<1>2. Sole(k) /\ "none" \notin Takers[k] /\ k \notin R
  BY <1>1, NoneTakes DEF Apart
<1>3. ASSUME NEW v \in Workers \ {w}, call[v].op \in Takers[k], d.op \in Takers[k] PROVE FALSE
  <2>1. CallTyped(call[v])
    BY DEF Typed, CallsTyped
  <2>2. Busy(v) /\ call[v].op \in {"create", "open", "write", "unlink", "release"}
    BY <1>2, <1>3, <2>1, KindOf DEF Busy
  <2>3. k \in Kinds(d.op) /\ k \in Kinds(call[v].op)
    BY <1>3, <2>2, TakersKinds
  <2> QED
    BY <1>1, <1>2, <2>2, <2>3
<1>4. ~Busy(w)
  BY DEF Begin
<1> QED
  BY <1>2, <1>3 DEF Sole, Turns, Becomes

LEMMA EnterOp ==
    ASSUME Typed, NEW w \in Workers, Enter(w)
    PROVE  Turns(w, call'[w]) /\ call'[w].op = call[w].op
<1>1. PICK c, d : c = call[w] /\ d = call'[w]
  OBVIOUS
<1>2. /\ Becomes(w, d) /\ CallTyped(d) /\ c.op = "create" /\ c.pc = "enter" /\ d.op = "create"
      /\ c.pos \in Inos /\ c.file \in Files
      /\ mem'.dbmap = mem.dbmap
      /\ mem'.itable = [mem.itable EXCEPT ![c.pos] = NewFile]
      /\ names' = [names EXCEPT ![c.file] = c.pos]
  BY <1>1, EnterTurns DEF Turns
<1> QED
  BY <1>1, <1>2 DEF Turns

LEMMA ApartNext == Typed /\ Apart /\ [Next]_workerVars => Apart' /\ raced \subseteq raced'
<1> SUFFICES ASSUME Typed, Apart, [Next]_workerVars PROVE Apart' /\ raced \subseteq raced'
  OBVIOUS
<1>1. ASSUME NEW w \in Workers, Step(w) PROVE Apart' /\ raced \subseteq raced'
  <2>1. raced' = raced
    BY <1>1 DEF Step, Probe, Nothing, Load, Store, Flush, MoveHint, Enter, FindHandle,
                UseHandle, FillHandle, ClearHandle, FreeHandle, WriteData, WriteBack,
                ZeroBlock, Forget
  <2>2. PICK c, d : c = call[w] /\ d = call'[w]
    OBVIOUS
  <2>3. Turns(w, d) /\ (d = Idle \/ d.op = c.op)
    <3>1. CASE Nothing(w) \/ FillHandle(w) \/ FreeHandle(w)
      BY <2>2, <3>1, NothingTurns, FillHandleTurns, FreeHandleTurns DEF Turns
    <3>2. CASE Probe(w) \/ Load(w) \/ Store(w) \/ Flush(w)
      BY <2>2, <3>2, ProbeTurns, LoadTurns, StoreTurns, FlushTurns DEF Same
    <3>3. CASE MoveHint(w)
      BY <2>2, <3>3, MoveHintTurns DEF Same
    <3>4. CASE Enter(w)
      BY <2>2, <3>4, EnterOp
    <3>5. CASE FindHandle(w)
      BY <2>2, <3>5, FindHandleTurns
    <3>6. CASE WriteData(w)
      BY <2>2, <3>6, WriteDataTurns DEF Same
    <3>7. CASE WriteBack(w)
      BY <2>2, <3>7, WriteBackTurns DEF Same
    <3>8. CASE ZeroBlock(w)
      BY <2>2, <3>8, ZeroBlockTurns
    <3>9. CASE Forget(w)
      BY <2>2, <3>9, ForgetTurns DEF Same
    <3>10. CASE UseHandle(w) \/ ClearHandle(w)
      BY <2>2, <3>10, UseHandleTurns, ClearHandleTurns
    <3> QED
      BY <1>1, <3>1, <3>2, <3>3, <3>4, <3>5, <3>6, <3>7, <3>8, <3>9, <3>10 DEF Step
  <2> QED
    BY <2>1, <2>2, <2>3, ApartStays
<1>2. ASSUME NEW w \in Workers, NEW x \in Files, BeginUnlink(w, x)
      PROVE  Apart' /\ raced \subseteq raced'
  BY <1>2, BeginUnlinkTurns, ApartBegins
<1>3. ASSUME NEW w \in Workers, NEW x \in Files, NEW fd \in Fds,
             BeginCreate(w, x, fd) \/ BeginOpen(w, x, fd)
      PROVE  Apart' /\ raced \subseteq raced'
  BY <1>3, BeginCreateTurns, BeginOpenTurns, ApartBegins
<1>4. ASSUME NEW w \in Workers, NEW fd \in Fds, BeginWrite(w, fd) \/ BeginRelease(w, fd)
      PROVE  Apart' /\ raced \subseteq raced'
  BY <1>4, BeginWriteTurns, BeginReleaseTurns, ApartBegins
<1>5. CASE UNCHANGED <<call, raced>>
  BY <1>5 DEF Apart, Sole
<1> QED
  BY <1>1, <1>2, <1>3, <1>4, <1>5 DEF Next, workerVars

-----------------------------------------------------------------------------
(* Numbers.                                                                *)

\* An unlink has cleared the bit of the number i and is to delete its entry.
Forgetting(i) == \E w \in Workers : /\ call[w].op = "unlink" /\ call[w].pc = "forget"
                                    /\ call[w].ino = i

\* What the call c knows of the number it takes or gives back.
NumCall(c) ==
    /\ c.op = "create" /\ c.pc \in {"load", "store"} => c.pos \notin mem.ibmap
    /\ c.op = "create" /\ c.pc \in {"hint", "enter"} => c.pos \in mem.ibmap
    /\ c.op = "create" /\ c.pc \in {"load", "store", "hint", "enter"} =>
           \A x \in Files : names[x] # c.pos
    /\ c.op = "create" /\ c.pc \notin {"flush", "find", "use", "fill"} => names[c.file] = 0
    /\ c.op \in {"create", "unlink"} /\ c.pc = "store" /\ c.map = "ibmap" => c.reg = mem.ibmap
    /\ c.op = "unlink" /\ c.pc # "flush" =>
           /\ names[c.file] = c.ino /\ c.ino # 0
           /\ c.map = "ibmap" => c.pos = c.ino

NumNames == /\ DistinctNumbers
            /\ 0 \in mem.ibmap
            /\ \A x \in Files : names[x] # 0 => NodeOf(x).type = "FILE"
            /\ \A x \in Files : names[x] # 0 => names[x] \in mem.ibmap \/ Forgetting(names[x])

Numbered == NumNames /\ \A w \in Workers : NumCall(call[w])

NumInv == "number" \notin raced => Numbered

LEMMA NumInit == Init => Numbered
<1> SUFFICES ASSUME Init PROVE Numbered
  OBVIOUS
<1>1. mem.ibmap = 0..(NumReserved - 1) /\ \A x \in Files : names[x] = 0
  BY DEF Init
<1>2. 0 \in mem.ibmap
  BY <1>1 DEF NumReserved
<1>3. \A w \in Workers : call[w].op = "none"
  BY IdleFacts DEF Init
<1> QED
  BY <1>1, <1>2, <1>3 DEF Numbered, NumNames, NumCall, DistinctNumbers

LEMMA OnlyNumber ==
    ASSUME Sole("number"), NEW w \in Workers, call[w].op \in {"create", "unlink"},
           NEW v \in Workers, call[v].op \in {"create", "unlink"}
    PROVE  v = w
  BY DEF Sole, Takers

\* A step that leaves names, numbers and entries alone.
LEMMA NumStays ==
    ASSUME Numbered, NEW w \in Workers, NEW d, Becomes(w, d), call[w].pc # "forget",
           names' = names, mem'.ibmap = mem.ibmap, mem'.itable = mem.itable, NumCall(d)'
    PROVE  Numbered'
<1>1. NumNames'
  BY DEF Numbered, NumNames, DistinctNumbers, NodeOf, Forgetting, Becomes
<1>2. ASSUME NEW v \in Workers \ {w} PROVE NumCall(call[v])'
  <2>1. NumCall(call[v]) /\ call'[v] = call[v]
    BY DEF Numbered, Becomes
  <2> QED
    BY <2>1 DEF NumCall
<1> QED
  BY <1>1, <1>2 DEF Numbered, Becomes

LEMMA NumIdle == \A d : d.op \in {"none", "open", "write", "release"} => NumCall(d)'
  BY DEF NumCall

LEMMA NumProbe ==
    ASSUME Typed, Numbered, Sole("number"), NEW w \in Workers, Probe(w) PROVE Numbered'
<1>1. PICK c, d : c = call[w] /\ d = call'[w]
  OBVIOUS
<1>2. /\ Becomes(w, d) /\ Same(c, d) /\ c.pc = "probe"
      /\ d.pc \in {"probe", "nothing", "load"}
      /\ d.pc = "load" => d.pos = c.pos /\ d.pos \notin mem[d.map]
      /\ c.op \in {"create", "write"} /\ c.map = IF c.op = "create" THEN "ibmap" ELSE "dbmap"
  BY <1>1, ProbeTurns DEF Turns
<1>3. names' = names /\ mem' = mem
  BY DEF Probe
<1>4. NumCall(d)'
  <2>1. CASE c.op = "write"
    BY <1>2, <2>1, NumIdle DEF Same
  <2>2. CASE c.op = "create"
    <3>1. d.op = "create" /\ d.file = c.file /\ d.map = "ibmap" /\ names[c.file] = 0
      BY <1>1, <1>2, <2>2 DEF Same, Numbered, NumCall
    <3>2. ASSUME d.pc = "load", NEW x \in Files, names[x] = d.pos PROVE FALSE
      <4>1. d.pos \notin mem.ibmap
        BY <1>2, <3>1, <3>2
      <4>2. names[x] # 0
        BY <3>2, <4>1 DEF Numbered, NumNames
      <4>3. Forgetting(names[x])
        BY <3>2, <4>1, <4>2 DEF Numbered, NumNames
      <4>4. PICK v \in Workers : call[v].op = "unlink" /\ call[v].pc = "forget"
        BY <4>3 DEF Forgetting
      <4> QED
        BY <1>1, <2>2, <4>4, OnlyNumber
    <3> QED
      BY <1>2, <1>3, <3>1, <3>2 DEF NumCall
  <2> QED
    BY <1>2, <2>1, <2>2
<1> QED
  BY <1>1, <1>2, <1>3, <1>4, NumStays

\* The number bitmap on the device is behind only while a call is to flush it.
LEMMA NumDurable ==
    ASSUME Typed, Shaped, Owed, Sole("number"), NEW w \in Workers,
           call[w].op = "create", call[w].pc \in {"nothing", "load"}
    PROVE  disk.ibmap = mem.ibmap
<1> SUFFICES ASSUME disk.ibmap # mem.ibmap PROVE FALSE
  OBVIOUS
<1>1. PICK v \in Workers : "ibmap" \in Owes(call[v])
  BY DEF Owed, Behind, Maps
<1>2. PICK c : c = call[v]
  OBVIOUS
<1>3. <<c.op, c.pc>> \in Changed /\ "ibmap" \in {FlushOrder(c.op)[k] : k \in (c.done + 1)..Len(FlushOrder(c.op))}
  BY <1>1, <1>2 DEF Owes
<1>4. c.op \in {"create", "write", "unlink"}
  BY <1>3 DEF Changed
<1>5. c.op # "write"
  <2> SUFFICES ASSUME c.op = "write" PROVE FALSE
    OBVIOUS
  <2>1. WriteTyped(c)
    BY <1>2, KindOf DEF Typed, CallsTyped
  <2>2. c.done \in 0..2
    BY <2>1 DEF WriteTyped
  <2>3. PICK k \in (c.done + 1)..3 : FlushOrder("write")[k] = "ibmap"
    BY <1>3, Orders
  <2>4. k \in {1, 2, 3}
    BY <2>2, <2>3
  <2> QED
    BY <2>3, <2>4, Orders
<1>6. v = w
  BY <1>2, <1>4, <1>5, OnlyNumber
<1> QED
  BY <1>1, <1>6, NotChanged

LEMMA NumNothing ==
    ASSUME Typed, Shaped, Owed, Numbered, Sole("number"), NEW w \in Workers, Nothing(w)
    PROVE  Numbered'
<1>1. PICK c : c = call[w]
  OBVIOUS
<1>2. /\ Becomes(w, Idle) /\ c.op \in {"create", "write"} /\ c.pc \in {"nothing", "load"}
      /\ c.op = "create" => mem'.ibmap = disk.ibmap
      /\ c.op = "write"  => mem'.ibmap = mem.ibmap
      /\ mem'.itable = mem.itable
  BY <1>1, NothingTurns DEF Turns
<1>3. mem'.ibmap = mem.ibmap
  BY <1>1, <1>2, NumDurable
<1>4. NumCall(Idle)' /\ names' = names
  BY IdleFacts, NumIdle DEF Nothing
<1> QED
  BY <1>1, <1>2, <1>3, <1>4, NumStays

LEMMA NumLoad ==
    ASSUME Typed, Numbered, NEW w \in Workers, Load(w) PROVE Numbered'
<1>1. PICK c, d : c = call[w] /\ d = call'[w]
  OBVIOUS
<1>2. /\ Becomes(w, d) /\ Same(c, d) /\ c.pc = "load" /\ d.pc = "store"
      /\ d.pos = c.pos /\ d.reg = mem[c.map]
  BY <1>1, LoadTurns DEF Turns
<1>3. names' = names /\ mem' = mem /\ NumCall(c)
  BY <1>1 DEF Load, Numbered
<1>4. NumCall(d)'
  BY <1>2, <1>3 DEF NumCall, Same
<1> QED
  BY <1>1, <1>2, <1>3, <1>4, NumStays

LEMMA NumStore ==
    ASSUME Typed, Numbered, Sole("number"), NEW w \in Workers, Store(w) PROVE Numbered'
<1>1. PICK c, d : c = call[w] /\ d = call'[w]
  OBVIOUS
<1>2. /\ Becomes(w, d) /\ Same(c, d) /\ c.pc = "store" /\ d.pos = c.pos
      /\ c.op \in {"create", "write", "unlink"} /\ d.pc = AfterStore(c.op, c.map)
      /\ \/ c.map = "ibmap" /\ c.op # "write"
         \/ c.map = "dbmap" /\ c.op # "create"
      /\ c.map = "ibmap" => mem'.ibmap = NewMap(c)
      /\ c.map = "dbmap" => mem'.ibmap = mem.ibmap
      /\ mem'.itable = mem.itable
  BY <1>1, StoreTurns DEF Turns
<1>3. names' = names /\ NumCall(c)
  BY <1>1 DEF Store, Numbered
<1>4. CASE c.op = "write"
  <2>1. NumCall(d)' /\ mem'.ibmap = mem.ibmap
    BY <1>2, <1>4, NumIdle DEF Same
  <2> QED
    BY <1>1, <1>2, <1>3, <2>1, NumStays
<1>5. CASE c.op = "unlink" /\ c.map = "dbmap"
  <2>1. d.pc = "zero"
    BY <1>2, <1>5 DEF AfterStore
  <2>2. NumCall(d)'
    BY <1>2, <1>3, <1>5, <2>1 DEF NumCall, Same
  <2> QED
    BY <1>1, <1>2, <1>3, <1>5, <2>2, NumStays
<1>6. ASSUME c.op \in {"create", "unlink"}, NEW v \in Workers \ {w} PROVE NumCall(call[v])'
  <2>1. call'[v] = call[v] /\ call[v].op \notin {"create", "unlink"}
    BY <1>1, <1>2, <1>6, OnlyNumber DEF Becomes
  <2> QED
    BY <2>1 DEF NumCall
<1>7. CASE c.op = "create"
  <2>1. d.pc = "hint" /\ d.op = "create" /\ d.file = c.file /\ c.map = "ibmap"
    BY <1>2, <1>7 DEF AfterStore, Same
  <2>2. mem'.ibmap = mem.ibmap \cup {c.pos}
    BY <1>2, <1>3, <1>7, <2>1 DEF NumCall, NewMap
  <2>3. NumCall(d)'
    BY <1>2, <1>3, <1>7, <2>1, <2>2 DEF NumCall
  <2>4. NumNames'
    <3>1. \A i : Forgetting(i) => Forgetting(i)'
      BY <1>1, <1>2, <1>7 DEF Forgetting, Becomes
    <3> QED
      BY <1>2, <1>3, <2>2, <3>1 DEF Numbered, NumNames, DistinctNumbers, NodeOf
  <2> QED
    BY <1>2, <1>6, <1>7, <2>3, <2>4 DEF Numbered, Becomes
<1>8. CASE c.op = "unlink" /\ c.map = "ibmap"
  <2>1. d.pc = "forget" /\ d.op = "unlink" /\ d.file = c.file /\ d.ino = c.ino /\ d.map = "ibmap"
    BY <1>2, <1>8 DEF AfterStore, Same
  <2>2. mem'.ibmap = mem.ibmap \ {c.ino} /\ c.ino # 0 /\ names[c.file] = c.ino /\ c.pos = c.ino
    BY <1>2, <1>3, <1>8 DEF NumCall, NewMap
  <2>3. NumCall(d)'
    BY <1>2, <1>3, <2>1, <2>2 DEF NumCall
  <2>4. NumNames'
    <3>1. Forgetting(c.ino)'
      BY <1>2, <2>1 DEF Forgetting, Becomes
    <3>2. \A i : ~Forgetting(i)
      BY <1>1, <1>2, <1>8, OnlyNumber DEF Forgetting
    <3> QED
      BY <1>2, <1>3, <2>2, <3>1, <3>2 DEF Numbered, NumNames, DistinctNumbers, NodeOf
  <2> QED
    BY <1>2, <1>6, <1>8, <2>3, <2>4 DEF Numbered, Becomes
<1> QED
  BY <1>2, <1>4, <1>5, <1>7, <1>8

LEMMA NumMoveHint ==
    ASSUME Typed, Numbered, NEW w \in Workers, MoveHint(w) PROVE Numbered'
<1>1. PICK c, d : c = call[w] /\ d = call'[w]
  OBVIOUS
<1>2. /\ Becomes(w, d) /\ Same(c, d) /\ c.op = "create" /\ c.pc = "hint" /\ d.pc = "enter"
      /\ d.pos = c.pos /\ mem'.ibmap = mem.ibmap /\ mem'.itable = mem.itable
  BY <1>1, MoveHintTurns DEF Turns
<1>3. names' = names /\ NumCall(c)
  BY <1>1 DEF MoveHint, Numbered
<1>4. NumCall(d)'
  BY <1>2, <1>3 DEF NumCall, Same
<1> QED
  BY <1>1, <1>2, <1>3, <1>4, NumStays

LEMMA NumEnter ==
    ASSUME Typed, Numbered, Sole("number"), NEW w \in Workers, Enter(w) PROVE Numbered'
<1>1. PICK c, d : c = call[w] /\ d = call'[w]
  OBVIOUS
<1>2. /\ Becomes(w, d) /\ c.op = "create" /\ c.pc = "enter"
      /\ d.op = "create" /\ d.pc = "flush" /\ c.pos \in Inos /\ c.file \in Files
      /\ mem'.ibmap = mem.ibmap
      /\ mem'.itable = [mem.itable EXCEPT ![c.pos] = NewFile]
      /\ names' = [names EXCEPT ![c.file] = c.pos]
  BY <1>1, EnterTurns DEF Turns
<1>3. c.pos \in mem.ibmap /\ \A x \in Files : names[x] # c.pos
  BY <1>1, <1>2 DEF Numbered, NumCall
<1>4. /\ names'[c.file] = c.pos /\ mem'.itable[c.pos] = NewFile
      /\ \A x \in Files \ {c.file} : names'[x] = names[x] /\ mem'.itable[names[x]] = mem.itable[names[x]]
  <2>1. names \in [Files -> Inos] /\ mem.itable \in [Inos -> Node]
    BY DEF Typed, TablesTyped, BuffersTyped, Memory
  <2> QED
    BY <1>2, <1>3, <2>1
<1>5. NumNames'
  <2>1. DistinctNumbers'
    BY <1>3, <1>4 DEF Numbered, NumNames, DistinctNumbers
  <2>2. ASSUME NEW x \in Files, names'[x] # 0 PROVE NodeOf(x)'.type = "FILE"
    <3>1. CASE x = c.file
      BY <1>4, <3>1 DEF NodeOf, NewFile
    <3>2. CASE x # c.file
      BY <1>4, <2>2, <3>2 DEF NodeOf, Numbered, NumNames
    <3> QED
      BY <3>1, <3>2
  <2>3. ASSUME NEW x \in Files, names'[x] # 0
        PROVE  names'[x] \in mem'.ibmap \/ Forgetting(names[x])'
    <3>1. CASE x = c.file
      BY <1>2, <1>3, <1>4, <3>1
    <3>2. CASE x # c.file
      <4>1. names[x] \in mem.ibmap \/ Forgetting(names[x])
        BY <1>4, <2>3, <3>2 DEF Numbered, NumNames
      <4>2. ~Forgetting(names[x])
        BY <1>1, <1>2, OnlyNumber DEF Forgetting
      <4> QED
        BY <1>2, <1>4, <3>2, <4>1, <4>2
    <3> QED
      BY <3>1, <3>2
  <2> QED
    BY <1>2, <2>1, <2>2, <2>3 DEF Numbered, NumNames
<1>6. ASSUME NEW v \in Workers \ {w} PROVE NumCall(call[v])'
  <2>1. call'[v] = call[v] /\ call[v].op \notin {"create", "unlink"}
    BY <1>1, <1>2, OnlyNumber DEF Becomes
  <2> QED
    BY <2>1 DEF NumCall
<1>7. NumCall(d)'
  BY <1>2 DEF NumCall
<1> QED
  BY <1>2, <1>5, <1>6, <1>7 DEF Numbered, Becomes

LEMMA NumFlush ==
    ASSUME Typed, Numbered, NEW w \in Workers, Flush(w) PROVE Numbered'
<1>1. PICK c, d : c = call[w] /\ d = call'[w]
  OBVIOUS
<1>2. /\ Becomes(w, d) /\ c.pc = "flush"
      /\ d = Idle \/ (/\ Same(c, d) /\ d.pc \in {"flush", "find"}
                      /\ d.pc = "find" => c.op = "create")
  BY <1>1, FlushTurns DEF Turns
<1>3. names' = names /\ mem' = mem
  BY DEF Flush
<1>4. NumCall(d)'
  BY <1>2, IdleFacts DEF NumCall, Same
<1> QED
  BY <1>1, <1>2, <1>3, <1>4, NumStays

LEMMA NumFindHandle ==
    ASSUME Typed, Numbered, NEW w \in Workers, FindHandle(w) PROVE Numbered'
<1>1. PICK c, d : c = call[w] /\ d = call'[w]
  OBVIOUS
<1>2. /\ Becomes(w, d) /\ c.pc = "find" /\ c.op \in {"create", "open"}
      /\ d = Idle \/ (d.op = c.op /\ d.pc \in {"find", "use"})
  BY <1>1, FindHandleTurns DEF Turns
<1>3. names' = names /\ mem' = mem
  BY DEF FindHandle
<1>4. NumCall(d)'
  BY <1>2, IdleFacts DEF NumCall
<1> QED
  BY <1>1, <1>2, <1>3, <1>4, NumStays

LEMMA NumUseHandle ==
    ASSUME Typed, Numbered, NEW w \in Workers, UseHandle(w) \/ ClearHandle(w) PROVE Numbered'
<1>1. PICK c, d : c = call[w] /\ d = call'[w]
  OBVIOUS
<1>2. /\ Becomes(w, d) /\ c.pc \in {"use", "clear"}
      /\ \/ d.op \in {"create", "open"} /\ d.pc = "fill"
         \/ d.op = "release"
  BY <1>1, UseHandleTurns, ClearHandleTurns DEF Turns
<1>3. names' = names /\ mem' = mem
  BY DEF UseHandle, ClearHandle
<1>4. NumCall(d)'
  BY <1>2 DEF NumCall
<1> QED
  BY <1>1, <1>2, <1>3, <1>4, NumStays

LEMMA NumFillHandle ==
    ASSUME Typed, Numbered, NEW w \in Workers, FillHandle(w) \/ FreeHandle(w) PROVE Numbered'
<1>1. Becomes(w, Idle) /\ call[w].pc \in {"fill", "free"}
  BY FillHandleTurns, FreeHandleTurns DEF Turns
<1>2. names' = names /\ mem' = mem
  BY DEF FillHandle, FreeHandle
<1> QED
  BY <1>1, <1>2, NumStays, NumIdle, IdleFacts

LEMMA NumWriteData ==
    ASSUME Typed, Numbered, NEW w \in Workers, WriteData(w) PROVE Numbered'
<1>1. PICK c, d : c = call[w] /\ d = call'[w]
  OBVIOUS
<1>2. Becomes(w, d) /\ c.pc = "data" /\ d.op = "write"
  BY <1>1, WriteDataTurns DEF Turns, Same
<1>3. names' = names /\ mem' = mem
  BY DEF WriteData
<1> QED
  BY <1>1, <1>2, <1>3, NumStays, NumIdle

LEMMA NumWriteBack ==
    ASSUME Typed, Numbered, NEW w \in Workers, WriteBack(w) PROVE Numbered'
<1>1. PICK c, d : c = call[w] /\ d = call'[w]
  OBVIOUS
<1>2. /\ Becomes(w, d) /\ Same(c, d) /\ c.op = "write" /\ c.pc = "back"
      /\ c.ino \in Inos /\ (c.ino # 0 => c.type = "FILE")
      /\ mem'.ibmap = mem.ibmap
      /\ mem'.itable = [mem.itable EXCEPT ![c.ino] = Written(c)]
  BY <1>1, WriteBackTurns DEF Turns
<1>3. names' = names
  BY DEF WriteBack
<1>4. \A x \in Files : names[x] # 0 => NodeOf(x)'.type = "FILE"
  <2> SUFFICES ASSUME NEW x \in Files, names[x] # 0 PROVE NodeOf(x)'.type = "FILE"
    OBVIOUS
  <2>1. names[x] \in Inos /\ mem.itable \in [Inos -> Node]
    BY DEF Typed, TablesTyped, BuffersTyped, Memory
  <2>2. CASE names[x] = c.ino
    BY <1>2, <1>3, <2>1, <2>2 DEF NodeOf, Written
  <2>3. CASE names[x] # c.ino
    BY <1>2, <1>3, <2>1, <2>3 DEF NodeOf, Numbered, NumNames
  <2> QED
    BY <2>2, <2>3
<1>5. NumNames'
  <2>1. \A i : Forgetting(i) => Forgetting(i)'
    BY <1>1, <1>2 DEF Forgetting, Becomes
  <2> QED
    BY <1>2, <1>3, <1>4, <2>1 DEF Numbered, NumNames, DistinctNumbers
<1>6. ASSUME NEW v \in Workers \ {w} PROVE NumCall(call[v])'
  <2>1. NumCall(call[v]) /\ call'[v] = call[v]
    BY <1>2 DEF Numbered, Becomes
  <2> QED
    BY <1>2, <1>3, <2>1 DEF NumCall
<1>7. NumCall(d)'
  BY <1>2, NumIdle DEF Same
<1> QED
  BY <1>2, <1>5, <1>6, <1>7 DEF Numbered, Becomes

LEMMA NumZeroBlock ==
    ASSUME Typed, Numbered, NEW w \in Workers, ZeroBlock(w) PROVE Numbered'
<1>1. PICK c, d : c = call[w] /\ d = call'[w]
  OBVIOUS
<1>2. /\ Becomes(w, d) /\ c.op = "unlink" /\ c.pc = "zero"
      /\ d.op = "unlink" /\ d.pc = "load" /\ d.file = c.file /\ d.ino = c.ino
      /\ d.map = "ibmap" /\ d.pos = c.ino
  BY <1>1, ZeroBlockTurns DEF Turns
<1>3. names' = names /\ mem' = mem /\ NumCall(c)
  BY <1>1 DEF ZeroBlock, Numbered
<1>4. NumCall(d)'
  BY <1>2, <1>3 DEF NumCall
<1> QED
  BY <1>1, <1>2, <1>3, <1>4, NumStays

LEMMA NumForget ==
    ASSUME Typed, Numbered, Sole("number"), NEW w \in Workers, Forget(w) PROVE Numbered'
<1>1. PICK c, d : c = call[w] /\ d = call'[w]
  OBVIOUS
<1>2. /\ Becomes(w, d) /\ Same(c, d) /\ c.op = "unlink" /\ c.pc = "forget" /\ d.pc = "flush"
      /\ c.ino \in Inos /\ c.file \in Files
      /\ mem'.ibmap = mem.ibmap
      /\ mem'.itable = [mem.itable EXCEPT ![c.ino] = ZeroInode]
      /\ names' = [names EXCEPT ![c.file] = 0]
  BY <1>1, ForgetTurns DEF Turns
<1>3. names[c.file] = c.ino /\ c.ino # 0
  BY <1>1, <1>2 DEF Numbered, NumCall
<1>4. names'[c.file] = 0 /\ \A x \in Files \ {c.file} : names'[x] = names[x]
  BY <1>2 DEF Typed, TablesTyped
<1>5. ASSUME NEW x \in Files, names'[x] # 0
      PROVE  /\ x # c.file /\ names[x] # 0 /\ names[x] # c.ino
             /\ mem'.itable[names[x]] = mem.itable[names[x]]
  <2>1. x # c.file /\ names[x] # 0 /\ names[x] # c.ino
    BY <1>2, <1>3, <1>4, <1>5 DEF Numbered, NumNames, DistinctNumbers
  <2>2. names[x] \in Inos /\ mem.itable \in [Inos -> Node]
    BY DEF Typed, TablesTyped, BuffersTyped, Memory
  <2> QED
    BY <1>2, <2>1, <2>2
<1>6. NumNames'
  <2>1. DistinctNumbers'
    BY <1>4, <1>5 DEF Numbered, NumNames, DistinctNumbers
  <2>2. \A x \in Files : names'[x] # 0 => NodeOf(x)'.type = "FILE"
    BY <1>4, <1>5 DEF Numbered, NumNames, NodeOf
  <2>3. ASSUME NEW x \in Files, names'[x] # 0 PROVE names'[x] \in mem'.ibmap
    <3>1. names[x] \in mem.ibmap \/ Forgetting(names[x])
      BY <1>5, <2>3 DEF Numbered, NumNames
    <3>2. ~Forgetting(names[x])
      BY <1>1, <1>2, <1>5, <2>3, OnlyNumber DEF Forgetting
    <3> QED
      BY <1>2, <1>4, <1>5, <2>3, <3>1, <3>2
  <2> QED
    BY <1>2, <2>1, <2>2, <2>3 DEF Numbered, NumNames
<1>7. ASSUME NEW v \in Workers \ {w} PROVE NumCall(call[v])'
  <2>1. call'[v] = call[v] /\ call[v].op \notin {"create", "unlink"}
    BY <1>1, <1>2, <1>7, OnlyNumber DEF Becomes
  <2> QED
    BY <2>1 DEF NumCall
<1>8. NumCall(d)'
  BY <1>2 DEF NumCall, Same
<1> QED
  BY <1>2, <1>6, <1>7, <1>8 DEF Numbered, Becomes

LEMMA NumBegins ==
    ASSUME Typed, Numbered, NEW w \in Workers, NEW d, Turns(w, d), Begin(w, d),
           UNCHANGED <<mem, names>>, NumCall(d)
    PROVE  Numbered'
<1>1. Becomes(w, d) /\ call[w].pc # "forget" /\ NumCall(d)' /\ names' = names /\ mem' = mem
  BY DEF Turns, Begin, Busy, NumCall
<1> QED
  BY <1>1, NumStays

LEMMA NumNext ==
    ASSUME Typed, Shaped, Owed, Apart, NumInv, [Next]_workerVars, raced \subseteq raced'
    PROVE  NumInv'
<1> SUFFICES ASSUME "number" \notin raced' PROVE Numbered'
  BY DEF NumInv
<1>1. Numbered /\ Sole("number")
  BY DEF NumInv, Apart
<1>2. ASSUME NEW w \in Workers, Step(w) PROVE Numbered'
  BY <1>1, <1>2, NumProbe, NumNothing, NumLoad, NumStore, NumFlush, NumMoveHint, NumEnter,
     NumFindHandle, NumUseHandle, NumFillHandle, NumWriteData, NumWriteBack, NumZeroBlock,
     NumForget DEF Step
<1>3. ASSUME NEW w \in Workers, NEW x \in Files, BeginUnlink(w, x) PROVE Numbered'
  <2>1. PICK d : d = call'[w]
    OBVIOUS
  <2>2. /\ Turns(w, d) /\ Begin(w, d) /\ d.op = "unlink" /\ d.pc = "load" /\ d.file = x
        /\ d.ino = names[x] /\ (d.map # "ibmap" \/ d.pos = names[x])
    BY <1>3, <2>1, BeginUnlinkTurns
  <2>3. names[x] # 0 /\ UNCHANGED <<mem, names>>
    BY <1>3 DEF BeginUnlink
  <2>4. NumCall(d)
    BY <2>2, <2>3 DEF NumCall
  <2> QED
    BY <1>1, <2>2, <2>3, <2>4, NumBegins
<1>4. ASSUME NEW w \in Workers, NEW x \in Files, NEW fd \in Fds, BeginCreate(w, x, fd)
      PROVE  Numbered'
  <2>1. PICK d : d = call'[w]
    OBVIOUS
  <2>2. Turns(w, d) /\ Begin(w, d) /\ d.op = "create" /\ d.pc = "probe" /\ d.file = x
    BY <1>4, <2>1, BeginCreateTurns
  <2>3. names[x] = 0 /\ UNCHANGED <<mem, names>>
    BY <1>4 DEF BeginCreate
  <2>4. NumCall(d)
    BY <2>2, <2>3 DEF NumCall
  <2> QED
    BY <1>1, <2>2, <2>3, <2>4, NumBegins
<1>5. ASSUME NEW w \in Workers, NEW x \in Files, NEW fd \in Fds, BeginOpen(w, x, fd)
      PROVE  Numbered'
  <2>1. PICK d : d = call'[w] /\ Turns(w, d) /\ Begin(w, d) /\ d.op = "open"
    BY <1>5, BeginOpenTurns
  <2>2. NumCall(d) /\ UNCHANGED <<mem, names>>
    BY <1>5, <2>1 DEF NumCall, BeginOpen
  <2> QED
    BY <1>1, <2>1, <2>2, NumBegins
<1>6. ASSUME NEW w \in Workers, NEW fd \in Fds, BeginWrite(w, fd) PROVE Numbered'
  <2>1. PICK d : d = call'[w] /\ Turns(w, d) /\ Begin(w, d) /\ d.op = "write"
    BY <1>6, BeginWriteTurns
  <2>2. NumCall(d) /\ UNCHANGED <<mem, names>>
    BY <1>6, <2>1 DEF NumCall, BeginWrite
  <2> QED
    BY <1>1, <2>1, <2>2, NumBegins
<1>7. ASSUME NEW w \in Workers, NEW fd \in Fds, BeginRelease(w, fd) PROVE Numbered'
  <2>1. PICK d : d = call'[w] /\ Turns(w, d) /\ Begin(w, d) /\ d.op = "release"
    BY <1>7, BeginReleaseTurns
  <2>2. NumCall(d) /\ UNCHANGED <<mem, names>>
    BY <1>7, <2>1 DEF NumCall, BeginRelease
  <2> QED
    BY <1>1, <2>1, <2>2, NumBegins
<1>8. CASE UNCHANGED <<mem, names, call>>
  BY <1>1, <1>8 DEF Numbered, NumNames, NumCall, DistinctNumbers, NodeOf, Forgetting
<1> QED
  BY <1>2, <1>3, <1>4, <1>5, <1>6, <1>7, <1>8 DEF Next, workerVars

\* While an unlink has not deleted the entry it uses the name.
LEMMA ForgettingUses ==
    ASSUME Typed, Numbered, NEW w \in Workers, call[w].op = "unlink", call[w].pc # "flush",
           NEW x \in Files, names[x] = call[w].ino
    PROVE  Using(x) # {}
<1>1. PICK c : c = call[w]
  OBVIOUS
<1>2. UnlinkTyped(c)
  BY <1>1, KindOf DEF Typed, CallsTyped
<1>3. c.file \in Files /\ c.pc \in UnlinkPcs
  BY <1>2 DEF UnlinkTyped
<1>4. names[c.file] = c.ino /\ c.ino # 0
  BY <1>1 DEF Numbered, NumCall
<1>5. c.file = x
  BY <1>1, <1>3, <1>4 DEF Numbered, NumNames, DistinctNumbers
<1>6. w \in Using(x)
  BY <1>1, <1>3, <1>5 DEF Using, Busy, UnlinkPcs
<1> QED
  BY <1>6

LEMMA NumThen == Typed /\ NumInv => NumbersSafe
<1> SUFFICES ASSUME Typed, Numbered PROVE
             DistinctNumbers /\ \A x \in Settled : NodeOf(x).type = "FILE" /\ names[x] \in mem.ibmap
  BY DEF NumInv, NumbersSafe
<1>1. ASSUME NEW x \in Settled PROVE NodeOf(x).type = "FILE" /\ names[x] \in mem.ibmap
  <2>1. x \in Files /\ names[x] # 0 /\ Using(x) = {}
    BY DEF Settled
  <2>2. ~Forgetting(names[x])
    BY <2>1, ForgettingUses DEF Forgetting
  <2> QED
    BY <2>1, <2>2 DEF Numbered, NumNames
<1> QED
  BY <1>1 DEF Numbered, NumNames

-----------------------------------------------------------------------------
(* Blocks.                                                                 *)

\* An unlink is deleting the inode i.
Going(i) == \E w \in Workers : /\ call[w].op = "unlink" /\ call[w].pc # "flush"
                               /\ call[w].ino = i

\* The inodes that have a block, and the block.
Owners == {i \in Inos \ {0} : mem.itable[i].size > 0}

Blk(i) == mem.itable[i].blk

\* What the call c knows of the block it takes or gives back.
BlkCall(c) ==
    /\ c.op = "write" /\ c.ino # 0 => mem.itable[c.ino].type = "FILE"
    /\ c.op = "write" /\ c.pc \in {"load", "store"} => c.pos \notin mem.dbmap
    /\ c.op = "write" /\ c.pc \in {"data", "back"} =>
           c.pos \in mem.dbmap /\ \A i \in Owners : Blk(i) = c.pos => i = c.ino
    /\ c.op = "write" /\ c.pc = "back" => data[c.pos] = c.ino
    /\ c.op \in {"write", "unlink"} /\ c.pc = "store" /\ c.map = "dbmap" => c.reg = mem.dbmap
    /\ c.op = "unlink" /\ c.pc # "flush" /\ c.map = "dbmap" =>
           c.ino \in Owners /\ c.pos = Blk(c.ino)

BlkEntries ==
    /\ \A i \in Inos \ {0} : mem.itable[i].type = "FILE" => \E x \in Files : names[x] = i
    /\ \A i \in Owners : mem.itable[i].type = "FILE"
    /\ \A i, j \in Owners : Blk(i) = Blk(j) => i = j
    /\ \A i \in Owners : ~Going(i) => Blk(i) \in mem.dbmap /\ data[Blk(i)] = i

Blocked == BlkEntries /\ \A w \in Workers : BlkCall(call[w])

BlkInv == raced \cap {"number", "block"} = {} => Blocked

LEMMA BlkInit == Init => Blocked
<1> SUFFICES ASSUME Init PROVE Blocked
  OBVIOUS
<1>1. \A i \in Inos : mem.itable[i].type = "NONE" /\ mem.itable[i].size = 0
  BY DEF Init, ZeroInode
<1>2. Owners = {}
  BY <1>1 DEF Owners
<1>3. \A w \in Workers : call[w].op = "none"
  BY IdleFacts DEF Init
<1> QED
  BY <1>1, <1>2, <1>3 DEF Blocked, BlkEntries, BlkCall

LEMMA OnlyBlock ==
    ASSUME Sole("block"), NEW w \in Workers, call[w].op \in {"write", "unlink"},
           NEW v \in Workers, call[v].op \in {"write", "unlink"}
    PROVE  v = w
  BY DEF Sole, Takers

\* A call that deletes goes on deleting.
Keeps(c, d) == c.op = "unlink" /\ c.pc # "flush" =>
                   d.op = "unlink" /\ d.pc # "flush" /\ d.ino = c.ino

LEMMA StillGoing ==
    ASSUME NEW w \in Workers, NEW d, Becomes(w, d), Keeps(call[w], d), NEW i, Going(i)
    PROVE  Going(i)'
  BY DEF Going, Becomes, Keeps

\* A step that leaves names, blocks and entries alone.
LEMMA BlkStays ==
    ASSUME Blocked, NEW w \in Workers, NEW d, Becomes(w, d), Keeps(call[w], d),
           names' = names, mem'.dbmap = mem.dbmap, mem'.itable = mem.itable, data' = data,
           BlkCall(d)'
    PROVE  Blocked'
<1>1. Owners' = Owners /\ \A i : Blk(i)' = Blk(i)
  BY DEF Owners, Blk
<1>2. \A i : Going(i) => Going(i)'
  BY StillGoing
<1>3. BlkEntries'
  BY <1>1, <1>2 DEF Blocked, BlkEntries
<1>4. ASSUME NEW v \in Workers \ {w} PROVE BlkCall(call[v])'
  <2>1. BlkCall(call[v]) /\ call'[v] = call[v]
    BY DEF Blocked, Becomes
  <2> QED
    BY <1>1, <2>1 DEF BlkCall
<1> QED
  BY <1>3, <1>4 DEF Blocked, Becomes

LEMMA BlkIdle == \A d : d.op \in {"none", "open", "create", "release"} => BlkCall(d)'
  BY DEF BlkCall

LEMMA BlkProbe ==
    ASSUME Typed, Blocked, NEW w \in Workers, Probe(w) PROVE Blocked'
<1>1. PICK c, d : c = call[w] /\ d = call'[w]
  OBVIOUS
<1>2. /\ Becomes(w, d) /\ Same(c, d) /\ c.pc = "probe"
      /\ d.pc \in {"probe", "nothing", "load"}
      /\ d.pc = "load" => d.pos = c.pos /\ d.pos \notin mem[d.map]
      /\ c.op \in {"create", "write"} /\ c.map = IF c.op = "create" THEN "ibmap" ELSE "dbmap"
  BY <1>1, ProbeTurns DEF Turns
<1>3. names' = names /\ mem' = mem /\ data' = data /\ BlkCall(c)
  BY <1>1 DEF Probe, Blocked
<1>4. BlkCall(d)'
  <2>1. CASE c.op = "create"
    BY <1>2, <2>1, BlkIdle DEF Same
  <2>2. CASE c.op = "write"
    <3>1. d.op = "write" /\ d.map = "dbmap" /\ d.ino = c.ino
      BY <1>2, <2>2 DEF Same
    <3>2. d.pc = "load" => d.pos \notin mem.dbmap
      BY <1>2, <3>1
    <3> QED
      BY <1>2, <1>3, <2>2, <3>1, <3>2 DEF BlkCall
  <2> QED
    BY <1>2, <2>1, <2>2
<1>5. Keeps(c, d)
  BY <1>2 DEF Keeps
<1> QED
  BY <1>1, <1>2, <1>3, <1>4, <1>5, BlkStays

\* The block bitmap on the device is behind only while a call is to flush it.
LEMMA BlkDurable ==
    ASSUME Typed, Shaped, Owed, Sole("block"), NEW w \in Workers,
           call[w].op = "write", call[w].pc \in {"nothing", "load"}
    PROVE  disk.dbmap = mem.dbmap
<1> SUFFICES ASSUME disk.dbmap # mem.dbmap PROVE FALSE
  OBVIOUS
<1>1. PICK v \in Workers : "dbmap" \in Owes(call[v])
  BY DEF Owed, Behind, Maps
<1>2. PICK c : c = call[v]
  OBVIOUS
<1>3. <<c.op, c.pc>> \in Changed /\ "dbmap" \in {FlushOrder(c.op)[k] : k \in (c.done + 1)..Len(FlushOrder(c.op))}
  BY <1>1, <1>2 DEF Owes
<1>4. c.op \in {"create", "write", "unlink"}
  BY <1>3 DEF Changed
<1>5. c.op # "create"
  <2> SUFFICES ASSUME c.op = "create" PROVE FALSE
    OBVIOUS
  <2>1. CreateTyped(c)
    BY <1>2, KindOf DEF Typed, CallsTyped
  <2>2. c.done \in 0..2
    BY <2>1 DEF CreateTyped
  <2>3. PICK k \in (c.done + 1)..3 : FlushOrder("create")[k] = "dbmap"
    BY <1>3, Orders
  <2>4. k \in {1, 2, 3}
    BY <2>2, <2>3
  <2> QED
    BY <2>3, <2>4, Orders
<1>6. v = w
  BY <1>2, <1>4, <1>5, OnlyBlock
<1> QED
  BY <1>1, <1>6, NotChanged

LEMMA BlkNothing ==
    ASSUME Typed, Shaped, Owed, Blocked, Sole("block"), NEW w \in Workers, Nothing(w)
    PROVE  Blocked'
<1>1. PICK c : c = call[w]
  OBVIOUS
<1>2. /\ Becomes(w, Idle) /\ c.op \in {"create", "write"} /\ c.pc \in {"nothing", "load"}
      /\ c.op = "create" => mem'.dbmap = mem.dbmap
      /\ c.op = "write"  => mem'.dbmap = disk.dbmap
      /\ mem'.itable = mem.itable
  BY <1>1, NothingTurns DEF Turns
<1>3. mem'.dbmap = mem.dbmap
  BY <1>1, <1>2, BlkDurable
<1>4. BlkCall(Idle)' /\ names' = names /\ data' = data /\ Keeps(c, Idle)
  BY <1>2, IdleFacts, BlkIdle DEF Nothing, Keeps
<1> QED
  BY <1>1, <1>2, <1>3, <1>4, BlkStays

LEMMA BlkLoad ==
    ASSUME Typed, Blocked, NEW w \in Workers, Load(w) PROVE Blocked'
<1>1. PICK c, d : c = call[w] /\ d = call'[w]
  OBVIOUS
<1>2. /\ Becomes(w, d) /\ Same(c, d) /\ c.pc = "load" /\ d.pc = "store"
      /\ c.op \in {"create", "write", "unlink"}
      /\ d.pos = c.pos /\ d.reg = mem[c.map]
  BY <1>1, LoadTurns DEF Turns
<1>3. names' = names /\ mem' = mem /\ data' = data /\ BlkCall(c)
  BY <1>1 DEF Load, Blocked
<1>4. BlkCall(d)'
  <2>1. CASE c.op = "create"
    BY <1>2, <2>1, BlkIdle DEF Same
  <2>2. CASE c.op = "write"
    BY <1>2, <1>3, <2>2 DEF BlkCall, Same
  <2>3. CASE c.op = "unlink"
    <3>1. d.op = "unlink" /\ d.map = c.map /\ d.ino = c.ino
      BY <1>2, <2>3 DEF Same
    <3>2. d.map = "dbmap" => d.reg = mem.dbmap
      BY <1>2, <3>1
    <3>3. Owners' = Owners /\ \A i : Blk(i)' = Blk(i)
      BY <1>3 DEF Owners, Blk
    <3> QED
      BY <1>2, <1>3, <2>3, <3>1, <3>2, <3>3 DEF BlkCall
  <2> QED
    BY <1>2, <2>1, <2>2, <2>3
<1>5. Keeps(c, d)
  BY <1>2 DEF Keeps, Same
<1> QED
  BY <1>1, <1>2, <1>3, <1>4, <1>5, BlkStays

\* Other calls than the only one that writes or unlinks know nothing.
LEMMA BlkOthers ==
    ASSUME Sole("block"), NEW w \in Workers, call[w].op \in {"write", "unlink"},
           NEW v \in Workers \ {w}, NEW d, Becomes(w, d)
    PROVE  BlkCall(call[v])' /\ call[v].op \notin {"write", "unlink"}
<1>1. call'[v] = call[v] /\ call[v].op \notin {"write", "unlink"}
  BY OnlyBlock DEF Becomes
<1> QED
  BY <1>1 DEF BlkCall

LEMMA BlkStore ==
    ASSUME Typed, Blocked, Sole("block"), NEW w \in Workers, Store(w) PROVE Blocked'
<1>1. PICK c, d : c = call[w] /\ d = call'[w]
  OBVIOUS
<1>2. /\ Becomes(w, d) /\ Same(c, d) /\ c.pc = "store" /\ d.pos = c.pos
      /\ c.op \in {"create", "write", "unlink"} /\ d.pc = AfterStore(c.op, c.map)
      /\ \/ c.map = "ibmap" /\ c.op # "write"
         \/ c.map = "dbmap" /\ c.op # "create"
      /\ c.map = "ibmap" => mem'.dbmap = mem.dbmap
      /\ c.map = "dbmap" => mem'.dbmap = NewMap(c)
      /\ mem'.itable = mem.itable
  BY <1>1, StoreTurns DEF Turns
<1>3. names' = names /\ data' = data /\ BlkCall(c)
  BY <1>1 DEF Store, Blocked
<1>4. Owners' = Owners /\ \A i : Blk(i)' = Blk(i)
  BY <1>2 DEF Owners, Blk
<1>5. CASE c.op = "create"
  <2>1. BlkCall(d)' /\ mem'.dbmap = mem.dbmap /\ Keeps(c, d)
    BY <1>2, <1>5, BlkIdle DEF Same, Keeps
  <2> QED
    BY <1>1, <1>2, <1>3, <2>1, BlkStays
<1>6. CASE c.op = "unlink" /\ c.map = "ibmap"
  <2>1. d.pc = "forget" /\ d.op = "unlink" /\ d.map = "ibmap" /\ d.ino = c.ino
    BY <1>2, <1>6 DEF AfterStore, Same
  <2>2. BlkCall(d)' /\ mem'.dbmap = mem.dbmap /\ Keeps(c, d)
    BY <1>2, <1>6, <2>1 DEF BlkCall, Keeps
  <2> QED
    BY <1>1, <1>2, <1>3, <2>2, BlkStays
<1>7. CASE c.op = "write"
  <2>1. d.pc = "data" /\ d.op = "write" /\ d.map = "dbmap" /\ d.ino = c.ino /\ c.map = "dbmap"
    BY <1>2, <1>7 DEF AfterStore, Same
  <2>2. mem'.dbmap = mem.dbmap \cup {c.pos} /\ c.pos \notin mem.dbmap
    BY <1>2, <1>3, <1>7, <2>1 DEF BlkCall, NewMap
  <2>3. \A i : ~Going(i)
    BY <1>1, <1>7, OnlyBlock DEF Going
  <2>4. \A i \in Owners : Blk(i) \in mem.dbmap /\ data[Blk(i)] = i /\ Blk(i) # c.pos
    BY <2>2, <2>3 DEF Blocked, BlkEntries
  <2>5. BlkCall(d)'
    BY <1>2, <1>3, <1>4, <1>7, <2>1, <2>2, <2>4 DEF BlkCall
  <2>6. BlkEntries'
    BY <1>2, <1>3, <1>4, <2>2, <2>4 DEF Blocked, BlkEntries
  <2> QED
    BY <1>1, <1>2, <1>7, <2>5, <2>6, BlkOthers DEF Blocked, Becomes
<1>8. CASE c.op = "unlink" /\ c.map = "dbmap"
  <2>1. d.pc = "zero" /\ d.op = "unlink" /\ d.map = "dbmap" /\ d.ino = c.ino
    BY <1>2, <1>8 DEF AfterStore, Same
  <2>2. mem'.dbmap = mem.dbmap \ {c.pos} /\ c.ino \in Owners /\ c.pos = Blk(c.ino)
    BY <1>2, <1>3, <1>8 DEF BlkCall, NewMap
  <2>3. \A i : Going(i) => Going(i)'
    BY <1>1, <1>2, <1>8, <2>1, StillGoing DEF Keeps
  <2>4. Going(c.ino)
    BY <1>1, <1>2, <1>8 DEF Going
  <2>5. ASSUME NEW i \in Owners, ~Going(i)'
        PROVE  Blk(i) \in mem'.dbmap /\ data[Blk(i)] = i
    <3>1. ~Going(i) /\ i # c.ino
      BY <2>3, <2>4, <2>5
    <3>2. Blk(i) \in mem.dbmap /\ data[Blk(i)] = i /\ Blk(i) # c.pos
      BY <2>2, <3>1 DEF Blocked, BlkEntries
    <3> QED
      BY <2>2, <3>2
  <2>6. BlkEntries'
    BY <1>2, <1>3, <1>4, <2>5 DEF Blocked, BlkEntries
  <2>7. BlkCall(d)'
    BY <1>2, <1>4, <2>1, <2>2 DEF BlkCall
  <2> QED
    BY <1>1, <1>2, <1>8, <2>6, <2>7, BlkOthers DEF Blocked, Becomes
<1> QED
  BY <1>2, <1>5, <1>6, <1>7, <1>8

LEMMA BlkMoveHint ==
    ASSUME Typed, Blocked, NEW w \in Workers, MoveHint(w) PROVE Blocked'
<1>1. PICK c, d : c = call[w] /\ d = call'[w]
  OBVIOUS
<1>2. /\ Becomes(w, d) /\ Same(c, d) /\ c.op = "create"
      /\ mem'.dbmap = mem.dbmap /\ mem'.itable = mem.itable
  BY <1>1, MoveHintTurns DEF Turns
<1>3. names' = names /\ data' = data /\ Keeps(c, d) /\ BlkCall(d)'
  BY <1>2, BlkIdle DEF MoveHint, Keeps, Same
<1> QED
  BY <1>1, <1>2, <1>3, BlkStays

LEMMA BlkEnter ==
    ASSUME Typed, Numbered, Blocked, NEW w \in Workers, Enter(w)
    PROVE  Blocked'
<1>1. PICK c, d : c = call[w] /\ d = call'[w]
  OBVIOUS
<1>2. /\ Becomes(w, d) /\ c.op = "create" /\ c.pc = "enter" /\ d.op = "create"
      /\ c.pos \in Inos /\ c.file \in Files
      /\ mem'.dbmap = mem.dbmap
      /\ mem'.itable = [mem.itable EXCEPT ![c.pos] = NewFile]
      /\ names' = [names EXCEPT ![c.file] = c.pos]
  BY <1>1, EnterTurns DEF Turns
<1>3. data' = data /\ names[c.file] = 0
  BY <1>1, <1>2 DEF Enter, Numbered, NumCall
<1>4. /\ mem'.itable[c.pos] = NewFile
      /\ \A i \in Inos \ {c.pos} : mem'.itable[i] = mem.itable[i]
      /\ names'[c.file] = c.pos /\ \A x \in Files \ {c.file} : names'[x] = names[x]
  BY <1>2 DEF Typed, TablesTyped, BuffersTyped, Memory
<1>5. Owners' = Owners \ {c.pos} /\ \A i \in Owners \ {c.pos} : Blk(i)' = Blk(i)
  BY <1>4 DEF Owners, Blk, NewFile
<1>6. Keeps(c, d)
  BY <1>2 DEF Keeps
<1>7. BlkEntries'
  <2>1. ASSUME NEW i \in Inos \ {0}, mem'.itable[i].type = "FILE" PROVE \E x \in Files : names'[x] = i
    <3>1. CASE i = c.pos
      BY <1>2, <1>4, <3>1
    <3>2. CASE i # c.pos
      <4>1. PICK x \in Files : names[x] = i
        BY <1>4, <2>1, <3>2 DEF Blocked, BlkEntries
      <4> QED
        BY <1>3, <1>4, <4>1
    <3> QED
      BY <3>1, <3>2
  <2>2. \A i \in Owners \ {c.pos} : mem'.itable[i].type = "FILE"
    BY <1>4 DEF Blocked, BlkEntries, Owners
  <2>3. \A i : Going(i) => Going(i)'
    BY <1>1, <1>2, <1>6, StillGoing
  <2>4. \A i \in Owners \ {c.pos} : ~Going(i)' => Blk(i) \in mem'.dbmap /\ data'[Blk(i)] = i
    BY <1>2, <1>3, <2>3 DEF Blocked, BlkEntries
  <2> QED
    BY <1>5, <2>1, <2>2, <2>4 DEF Blocked, BlkEntries
<1>8. ASSUME NEW v \in Workers \ {w} PROVE BlkCall(call[v])'
  <2>1. PICK b : b = call[v] /\ call'[v] = b /\ BlkCall(b) /\ CallTyped(b)
    BY <1>2 DEF Blocked, Becomes, Typed, CallsTyped
  <2>2. CASE b.op = "write"
    <3>1. b.ino \in Inos
      BY <2>1, <2>2, KindOf DEF WriteTyped
    <3>2. b.ino # 0 => mem'.itable[b.ino].type = "FILE"
      BY <1>4, <2>1, <2>2, <3>1 DEF BlkCall, NewFile
    <3>3. BlkCall(b)'
      BY <1>2, <1>3, <1>5, <2>1, <2>2, <3>2 DEF BlkCall
    <3> QED
      BY <2>1, <3>3
  <2>3. CASE b.op = "unlink"
    <3>1. b.pc # "flush" => names[b.file] = b.ino /\ b.ino # 0
      BY <2>1, <2>3 DEF Numbered, NumCall
    <3>2. b.pc # "flush" => b.ino # c.pos
      <4>1. b.file \in Files
        BY <2>1, <2>3, KindOf DEF UnlinkTyped
      <4>2. \A x \in Files : names[x] # c.pos
        BY <1>1, <1>2 DEF Numbered, NumCall
      <4> QED
        BY <3>1, <4>1, <4>2
    <3>3. BlkCall(b)'
      BY <1>2, <1>3, <1>5, <2>1, <2>3, <3>2 DEF BlkCall
    <3> QED
      BY <2>1, <3>3
  <2> QED
    BY <2>1, <2>2, <2>3 DEF BlkCall
<1>9. BlkCall(d)'
  BY <1>2, BlkIdle
<1> QED
  BY <1>2, <1>7, <1>8, <1>9 DEF Blocked, Becomes

LEMMA BlkFlush ==
    ASSUME Typed, Blocked, NEW w \in Workers, Flush(w) PROVE Blocked'
<1>1. PICK c, d : c = call[w] /\ d = call'[w]
  OBVIOUS
<1>2. /\ Becomes(w, d) /\ c.pc = "flush"
      /\ d = Idle \/ (/\ Same(c, d) /\ d.pc \in {"flush", "find"}
                      /\ d.pc = "find" => c.op = "create")
  BY <1>1, FlushTurns DEF Turns
<1>3. names' = names /\ mem' = mem /\ data' = data /\ BlkCall(c)
  BY <1>1 DEF Flush, Blocked
<1>4. BlkCall(d)'
  BY <1>2, <1>3, IdleFacts DEF BlkCall, Same
<1>5. Keeps(c, d)
  BY <1>2 DEF Keeps
<1> QED
  BY <1>1, <1>2, <1>3, <1>4, <1>5, BlkStays

LEMMA BlkHandles ==
    ASSUME Typed, Blocked, NEW w \in Workers,
           FindHandle(w) \/ UseHandle(w) \/ FillHandle(w) \/ ClearHandle(w) \/ FreeHandle(w)
    PROVE  Blocked'
<1>1. PICK c, d : c = call[w] /\ d = call'[w]
  OBVIOUS
<1>2. Becomes(w, d) /\ c.op \in {"create", "open", "release"} /\ (d = Idle \/ d.op = c.op)
  BY <1>1, FindHandleTurns, UseHandleTurns, FillHandleTurns, ClearHandleTurns, FreeHandleTurns
     DEF Turns
<1>3. names' = names /\ mem' = mem /\ data' = data
  BY DEF FindHandle, UseHandle, FillHandle, ClearHandle, FreeHandle
<1>4. BlkCall(d)' /\ Keeps(c, d)
  BY <1>2, IdleFacts, BlkIdle DEF Keeps
<1> QED
  BY <1>1, <1>2, <1>3, <1>4, BlkStays

LEMMA BlkWriteData ==
    ASSUME Typed, Blocked, Sole("block"), NEW w \in Workers, WriteData(w) PROVE Blocked'
<1>1. PICK c, d : c = call[w] /\ d = call'[w]
  OBVIOUS
<1>2. /\ Becomes(w, d) /\ Same(c, d) /\ c.op = "write" /\ c.pc = "data" /\ d.pc = "back"
      /\ d.pos = c.pos /\ c.pos \in Blocks
      /\ data' = [data EXCEPT ![c.pos] = c.ino]
  BY <1>1, WriteDataTurns DEF Turns
<1>3. names' = names /\ mem' = mem /\ BlkCall(c)
  BY <1>1 DEF WriteData, Blocked
<1>4. data'[c.pos] = c.ino /\ \A b \in Blocks \ {c.pos} : data'[b] = data[b]
  BY <1>2 DEF Typed, TablesTyped
<1>5. Owners' = Owners /\ \A i : Blk(i)' = Blk(i)
  BY <1>3 DEF Owners, Blk
<1>6. \A i : Going(i) => Going(i)'
  BY <1>1, <1>2, StillGoing DEF Keeps
<1>7. ASSUME NEW i \in Owners, ~Going(i)' PROVE Blk(i) \in mem.dbmap /\ data'[Blk(i)] = i
  <2>1. Blk(i) \in mem.dbmap /\ data[Blk(i)] = i
    BY <1>6, <1>7 DEF Blocked, BlkEntries
  <2>2. mem.dbmap \subseteq Blocks
    BY DEF Typed, BuffersTyped, Memory
  <2>3. Blk(i) = c.pos => i = c.ino
    BY <1>2, <1>3 DEF BlkCall
  <2> QED
    BY <1>4, <2>1, <2>2, <2>3
<1>8. BlkEntries'
  BY <1>3, <1>5, <1>7 DEF Blocked, BlkEntries
<1>9. BlkCall(d)'
  BY <1>2, <1>3, <1>4, <1>5 DEF BlkCall, Same
<1> QED
  BY <1>1, <1>2, <1>8, <1>9, BlkOthers DEF Blocked, Becomes

LEMMA BlkWriteBack ==
    ASSUME Typed, Blocked, Sole("block"), NEW w \in Workers, WriteBack(w) PROVE Blocked'
<1>1. PICK c, d : c = call[w] /\ d = call'[w]
  OBVIOUS
<1>2. /\ Becomes(w, d) /\ Same(c, d) /\ c.op = "write" /\ c.pc = "back" /\ d.pc = "flush"
      /\ c.ino \in Inos /\ (c.ino # 0 => c.type = "FILE")
      /\ mem'.dbmap = mem.dbmap
      /\ mem'.itable = [mem.itable EXCEPT ![c.ino] = Written(c)]
  BY <1>1, WriteBackTurns DEF Turns
<1>3. names' = names /\ data' = data /\ BlkCall(c)
  BY <1>1 DEF WriteBack, Blocked
<1>4. /\ mem'.itable[c.ino].type = c.type /\ mem'.itable[c.ino].size = 1
      /\ mem'.itable[c.ino].blk = c.pos
      /\ \A i \in Inos \ {c.ino} : mem'.itable[i] = mem.itable[i]
  BY <1>2 DEF Typed, BuffersTyped, Memory, Written
<1>5. /\ Owners' = Owners \cup ({c.ino} \ {0})
      /\ Blk(c.ino)' = c.pos /\ \A i \in Inos \ {c.ino} : Blk(i)' = Blk(i)
  BY <1>2, <1>4 DEF Owners, Blk
<1>6. c.pos \in mem.dbmap /\ data[c.pos] = c.ino /\ \A i \in Owners : Blk(i) = c.pos => i = c.ino
  BY <1>2, <1>3 DEF BlkCall
<1>7. \A i : Going(i) => Going(i)'
  BY <1>1, <1>2, StillGoing DEF Keeps
<1>8. Owners \subseteq Inos
  BY DEF Owners
<1>9. BlkEntries'
  <2>1. ASSUME NEW i \in Inos \ {0}, mem'.itable[i].type = "FILE" PROVE \E x \in Files : names[x] = i
    <3>1. mem.itable[i].type = "FILE"
      BY <1>2, <1>3, <1>4, <2>1 DEF BlkCall
    <3> QED
      BY <3>1 DEF Blocked, BlkEntries
  <2>2. ASSUME NEW i \in Owners' PROVE mem'.itable[i].type = "FILE"
    <3>1. CASE i = c.ino
      BY <1>2, <1>4, <1>5, <1>8, <3>1 DEF Owners
    <3>2. CASE i # c.ino
      BY <1>4, <1>5, <1>8, <3>2 DEF Blocked, BlkEntries
    <3> QED
      BY <3>1, <3>2
  <2>3. ASSUME NEW i \in Owners', NEW j \in Owners', Blk(i)' = Blk(j)' PROVE i = j
    BY <1>5, <1>6, <1>8, <2>3 DEF Blocked, BlkEntries
  <2>4. ASSUME NEW i \in Owners', ~Going(i)' PROVE Blk(i)' \in mem.dbmap /\ data[Blk(i)'] = i
    BY <1>5, <1>6, <1>7, <1>8, <2>4 DEF Blocked, BlkEntries
  <2> QED
    BY <1>2, <1>3, <2>1, <2>2, <2>3, <2>4 DEF BlkEntries
<1>10. BlkCall(d)'
  BY <1>2, <1>4 DEF BlkCall, Same
<1> QED
  BY <1>1, <1>2, <1>9, <1>10, BlkOthers DEF Blocked, Becomes

LEMMA BlkZeroBlock ==
    ASSUME Typed, Blocked, Sole("block"), NEW w \in Workers, ZeroBlock(w) PROVE Blocked'
<1>1. PICK c, d : c = call[w] /\ d = call'[w]
  OBVIOUS
<1>2. /\ Becomes(w, d) /\ c.op = "unlink" /\ c.pc = "zero" /\ c.map = "dbmap"
      /\ d.op = "unlink" /\ d.pc = "load" /\ d.ino = c.ino /\ d.map = "ibmap"
      /\ c.pos \in Blocks /\ data' = [data EXCEPT ![c.pos] = 0]
  BY <1>1, ZeroBlockTurns DEF Turns
<1>3. names' = names /\ mem' = mem /\ BlkCall(c)
  BY <1>1 DEF ZeroBlock, Blocked
<1>4. \A b \in Blocks \ {c.pos} : data'[b] = data[b]
  BY <1>2 DEF Typed, TablesTyped
<1>5. Owners' = Owners /\ \A i : Blk(i)' = Blk(i)
  BY <1>3 DEF Owners, Blk
<1>6. \A i : Going(i) => Going(i)'
  BY <1>1, <1>2, StillGoing DEF Keeps
<1>7. Going(c.ino) /\ c.ino \in Owners /\ c.pos = Blk(c.ino)
  BY <1>1, <1>2, <1>3 DEF Going, BlkCall
<1>8. ASSUME NEW i \in Owners, ~Going(i)' PROVE Blk(i) \in mem.dbmap /\ data'[Blk(i)] = i
  <2>1. Blk(i) \in mem.dbmap /\ data[Blk(i)] = i /\ i # c.ino
    BY <1>6, <1>7, <1>8 DEF Blocked, BlkEntries
  <2>2. Blk(i) # c.pos
    BY <1>7, <2>1 DEF Blocked, BlkEntries
  <2>3. mem.dbmap \subseteq Blocks
    BY DEF Typed, BuffersTyped, Memory
  <2> QED
    BY <1>4, <2>1, <2>2, <2>3
<1>9. BlkEntries'
  BY <1>3, <1>5, <1>8 DEF Blocked, BlkEntries
<1>10. BlkCall(d)'
  BY <1>2 DEF BlkCall
<1> QED
  BY <1>1, <1>2, <1>9, <1>10, BlkOthers DEF Blocked, Becomes

LEMMA BlkForget ==
    ASSUME Typed, Numbered, Blocked, Sole("block"), NEW w \in Workers, Forget(w) PROVE Blocked'
<1>1. PICK c, d : c = call[w] /\ d = call'[w]
  OBVIOUS
<1>2. /\ Becomes(w, d) /\ Same(c, d) /\ c.op = "unlink" /\ c.pc = "forget" /\ d.pc = "flush"
      /\ c.ino \in Inos /\ c.file \in Files
      /\ mem'.dbmap = mem.dbmap
      /\ mem'.itable = [mem.itable EXCEPT ![c.ino] = ZeroInode]
      /\ names' = [names EXCEPT ![c.file] = 0]
  BY <1>1, ForgetTurns DEF Turns
<1>3. data' = data /\ names[c.file] = c.ino
  BY <1>1, <1>2 DEF Forget, Numbered, NumCall
<1>4. /\ mem'.itable[c.ino].type = "NONE" /\ mem'.itable[c.ino].size = 0
      /\ \A i \in Inos \ {c.ino} : mem'.itable[i] = mem.itable[i]
      /\ \A x \in Files \ {c.file} : names'[x] = names[x]
  BY <1>2 DEF Typed, TablesTyped, BuffersTyped, Memory, ZeroInode
<1>5. Owners' = Owners \ {c.ino} /\ \A i \in Owners \ {c.ino} : Blk(i)' = Blk(i)
  BY <1>2, <1>4 DEF Owners, Blk
<1>6. \A i : Going(i) => i = c.ino
  BY <1>1, <1>2, OnlyBlock DEF Going
<1>7. BlkEntries'
  <2>1. ASSUME NEW i \in Inos \ {0}, mem'.itable[i].type = "FILE" PROVE \E x \in Files : names'[x] = i
    <3>1. i # c.ino /\ mem.itable[i].type = "FILE"
      BY <1>4, <2>1
    <3>2. PICK x \in Files : names[x] = i
      BY <3>1 DEF Blocked, BlkEntries
    <3> QED
      BY <1>3, <1>4, <3>1, <3>2
  <2>2. \A i \in Owners \ {c.ino} : mem'.itable[i].type = "FILE"
    BY <1>4 DEF Blocked, BlkEntries, Owners
  <2>3. \A i \in Owners \ {c.ino} : Blk(i) \in mem'.dbmap /\ data'[Blk(i)] = i
    BY <1>2, <1>3, <1>6 DEF Blocked, BlkEntries
  <2> QED
    BY <1>5, <2>1, <2>2, <2>3 DEF Blocked, BlkEntries
<1>8. BlkCall(d)'
  BY <1>2 DEF BlkCall, Same
<1> QED
  BY <1>1, <1>2, <1>7, <1>8, BlkOthers DEF Blocked, Becomes

LEMMA BlkBegins ==
    ASSUME Typed, Blocked, NEW w \in Workers, NEW d, Turns(w, d), Begin(w, d),
           UNCHANGED <<mem, names, data>>, BlkCall(d)
    PROVE  Blocked'
<1>1. /\ Becomes(w, d) /\ call[w].pc = "idle" /\ CallTyped(call[w])
      /\ names' = names /\ mem' = mem /\ data' = data
  BY DEF Turns, Begin, Busy, Typed, CallsTyped
<1>2. Keeps(call[w], d)
  BY <1>1, KindOf DEF Keeps
<1>3. BlkCall(d)'
  BY <1>1 DEF BlkCall, Owners, Blk
<1> QED
  BY <1>1, <1>2, <1>3, BlkStays

LEMMA BlkNext ==
    ASSUME Typed, Shaped, Owed, Apart, Apart', NumInv, BlkInv, [Next]_workerVars,
           raced \subseteq raced'
    PROVE  BlkInv'
<1> SUFFICES ASSUME "number" \notin raced', "block" \notin raced' PROVE Blocked'
  BY DEF BlkInv
<1>1. Numbered /\ Blocked /\ Sole("number") /\ Sole("block") /\ Sole("block")'
  <2>1. "number" \notin raced /\ "block" \notin raced
    OBVIOUS
  <2> QED
    BY <2>1 DEF NumInv, BlkInv, Apart
<1>2. ASSUME NEW w \in Workers, Step(w) PROVE Blocked'
  BY <1>1, <1>2, BlkProbe, BlkNothing, BlkLoad, BlkStore, BlkFlush, BlkMoveHint, BlkEnter,
     BlkHandles, BlkWriteData, BlkWriteBack, BlkZeroBlock, BlkForget DEF Step
<1>3. ASSUME NEW w \in Workers, NEW x \in Files, BeginUnlink(w, x) PROVE Blocked'
  <2>1. PICK d : d = call'[w]
    OBVIOUS
  <2>2. /\ Turns(w, d) /\ Begin(w, d) /\ d.op = "unlink" /\ d.pc = "load"
        /\ d.ino = names[x]
        /\ \/ d.map = "ibmap"
           \/ /\ d.map = "dbmap" /\ mem.itable[names[x]].size > 0
              /\ d.pos = mem.itable[names[x]].blk
    BY <1>3, <2>1, BeginUnlinkTurns
  <2>3. names[x] \in Inos \ {0} /\ UNCHANGED <<mem, names, data>>
    BY <1>3 DEF BeginUnlink, Typed, TablesTyped
  <2>4. BlkCall(d)
    BY <2>2, <2>3 DEF BlkCall, Owners, Blk
  <2> QED
    BY <1>1, <2>2, <2>3, <2>4, BlkBegins
<1>4. ASSUME NEW w \in Workers, NEW x \in Files, NEW fd \in Fds,
             BeginCreate(w, x, fd) \/ BeginOpen(w, x, fd)
      PROVE  Blocked'
  <2>1. PICK d : d = call'[w]
    OBVIOUS
  <2>2. Turns(w, d) /\ Begin(w, d) /\ d.op \in {"create", "open"}
    BY <1>4, <2>1, BeginCreateTurns, BeginOpenTurns
  <2>3. BlkCall(d) /\ UNCHANGED <<mem, names, data>>
    BY <1>4, <2>2 DEF BlkCall, BeginCreate, BeginOpen
  <2> QED
    BY <1>1, <2>2, <2>3, BlkBegins
<1>5. ASSUME NEW w \in Workers, NEW fd \in Fds, BeginWrite(w, fd) PROVE Blocked'
  <2>1. PICK d : d = call'[w]
    OBVIOUS
  <2>2. /\ Turns(w, d) /\ Begin(w, d) /\ d.op = "write" /\ d.map = "dbmap"
        /\ \E ino \in Inos \ {0} :
              /\ d.ino = IF mem.itable[ino].type = "NONE" THEN 0 ELSE ino
              /\ \/ mem.itable[ino].size = 0 /\ d.pc = "probe"
                 \/ mem.itable[ino].size # 0 /\ d.pc = "data" /\ d.pos = mem.itable[ino].blk
    BY <1>5, <2>1, BeginWriteTurns
  <2>3. PICK ino \in Inos \ {0} :
              /\ d.ino = IF mem.itable[ino].type = "NONE" THEN 0 ELSE ino
              /\ \/ mem.itable[ino].size = 0 /\ d.pc = "probe"
                 \/ mem.itable[ino].size # 0 /\ d.pc = "data" /\ d.pos = mem.itable[ino].blk
    BY <2>2
  <2>4. UNCHANGED <<mem, names, data>>
    BY <1>5 DEF BeginWrite
  <2>5. mem.itable[ino].type \in {"NONE", "FILE"} /\ mem.itable[ino].size \in {0, 1}
    BY NodeFacts
  <2>6. d.ino # 0 => mem.itable[d.ino].type = "FILE"
    BY <2>3, <2>5
  <2>7. CASE d.pc = "probe"
    <3>1. BlkCall(d)
      BY <2>2, <2>6, <2>7 DEF BlkCall
    <3> QED
      BY <1>1, <2>2, <2>4, <3>1, BlkBegins
  <2>8. CASE mem.itable[ino].size # 0 /\ d.pc = "data" /\ d.pos = mem.itable[ino].blk
    <3>1. ino \in Owners /\ d.pos = Blk(ino)
      BY <2>5, <2>8 DEF Owners, Blk
    <3>2. d.ino = ino
      BY <1>1, <2>3, <3>1 DEF Blocked, BlkEntries
    <3>3. ~Going(ino)
      <4> SUFFICES ASSUME NEW v \in Workers, call[v].op = "unlink" PROVE FALSE
        BY DEF Going
      <4>1. v # w
        <5>1. call[w].pc = "idle" /\ CallTyped(call[w])
          BY <2>2 DEF Begin, Busy, Typed, CallsTyped
        <5> QED
          BY <5>1, KindOf
      <4>2. call'[v].op = "unlink" /\ call'[w].op = "write"
        BY <2>1, <2>2, <4>1 DEF Turns, Becomes
      <4> QED
        BY <1>1, <4>1, <4>2 DEF Sole, Takers
    <3>4. Blk(ino) \in mem.dbmap /\ \A i \in Owners : Blk(i) = Blk(ino) => i = ino
      BY <1>1, <3>1, <3>3 DEF Blocked, BlkEntries
    <3>5. BlkCall(d)
      BY <2>2, <2>6, <2>8, <3>1, <3>2, <3>4 DEF BlkCall
    <3> QED
      BY <1>1, <2>2, <2>4, <3>5, BlkBegins
  <2> QED
    BY <2>3, <2>7, <2>8
<1>6. ASSUME NEW w \in Workers, NEW fd \in Fds, BeginRelease(w, fd) PROVE Blocked'
  <2>1. PICK d : d = call'[w] /\ Turns(w, d) /\ Begin(w, d) /\ d.op = "release"
    BY <1>6, BeginReleaseTurns
  <2>2. BlkCall(d) /\ UNCHANGED <<mem, names, data>>
    BY <1>6, <2>1 DEF BlkCall, BeginRelease
  <2> QED
    BY <1>1, <2>1, <2>2, BlkBegins
<1>7. CASE UNCHANGED <<mem, names, data, call>>
  BY <1>1, <1>7 DEF Blocked, BlkEntries, BlkCall, Owners, Blk, Going
<1> QED
  BY <1>2, <1>3, <1>4, <1>5, <1>6, <1>7 DEF Next, workerVars

LEMMA BlkThen == Typed /\ NumInv /\ BlkInv => BlocksSafe
<1> SUFFICES ASSUME Typed, NumInv, BlkInv, "number" \notin raced, "block" \notin raced,
                    NEW x \in Settled, NodeOf(x).size > 0
             PROVE  /\ NodeOf(x).blk \in mem.dbmap
                    /\ data[NodeOf(x).blk] = names[x]
                    /\ \A y \in Settled : NodeOf(y).blk = NodeOf(x).blk => x = y
  BY DEF BlocksSafe
<1>1. Numbered /\ Blocked
  BY DEF NumInv, BlkInv
<1>2. \A y \in Settled : y \in Files /\ names[y] \in Inos \ {0} /\ Using(y) = {}
  BY DEF Settled, Typed, TablesTyped
<1>3. names[x] \in Owners /\ NodeOf(x).blk = Blk(names[x])
  BY <1>2 DEF Owners, Blk, NodeOf
<1>4. ~Going(names[x])
  BY <1>1, <1>2, ForgettingUses DEF Going
<1>5. ASSUME NEW y \in Settled, NodeOf(y).blk = NodeOf(x).blk PROVE x = y
  <2>1. NodeOf(x).blk # NoBlock
    <3>1. PICK n : n = NodeOf(x) /\ (n.size # 0 <=> n.blk # NoBlock) /\ n.size \in {0, 1}
      BY <1>2, NodeFacts DEF NodeOf
    <3> QED
      BY <3>1
  <2>2. NodeOf(y).size > 0
    <3>1. PICK n : n = NodeOf(y) /\ (n.size # 0 <=> n.blk # NoBlock) /\ n.size \in {0, 1}
      BY <1>2, NodeFacts DEF NodeOf
    <3> QED
      BY <1>5, <2>1, <3>1
  <2>3. names[y] \in Owners /\ Blk(names[y]) = Blk(names[x])
    BY <1>2, <1>3, <1>5, <2>2 DEF Owners, Blk, NodeOf
  <2>4. names[y] = names[x]
    BY <1>1, <1>3, <2>3 DEF Blocked, BlkEntries
  <2> QED
    BY <1>1, <1>2, <2>4 DEF Numbered, NumNames, DistinctNumbers
<1> QED
  BY <1>1, <1>3, <1>4, <1>5 DEF Blocked, BlkEntries

-----------------------------------------------------------------------------
(* Handles.                                                                *)

\* The handle of the call c is marked used, and no descriptor has it.
Held(c) == c.fid \in used /\ \A x \in Fds : fds[x] # NoFd => fds[x].fid # c.fid

\* What the call c knows of the file and of the handle it opens or releases.
HndCall(c) ==
    /\ c.op = "open" \/ (c.op = "create" /\ c.pc \in {"flush", "find", "use", "fill"}) =>
           names[c.file] = c.ino /\ c.ino # 0
    /\ c.pc = "use" => c.fid \notin used
    /\ c.pc \in InPcs => Held(c)

HndFds == /\ \A x \in Fds : fds[x] # NoFd =>
                 /\ fds[x].fid \in used
                 /\ file_table[fds[x].fid] = names[fds[x].file]
                 /\ names[fds[x].file] # 0
          /\ \A x, y \in Fds : fds[x] # NoFd /\ fds[y] # NoFd /\ fds[y].fid = fds[x].fid => x = y

\* No two calls have one handle in hand.
HndOwn == \A v, w \in Workers :
              (call[v].pc \in InPcs /\ call[w].pc \in InPcs /\ call[v].fid = call[w].fid) => v = w

\* What is unlinked is not open, and no call is opening it.
HndGone == \A w \in Workers : call[w].op = "unlink" =>
               /\ \A x \in Fds : fds[x] # NoFd => fds[x].file # call[w].file
               /\ \A v \in Workers : call[v].op \in {"open", "create"} =>
                                         call[v].file # call[w].file

Handled == HndFds /\ HndGone /\ HndOwn /\ \A w \in Workers : HndCall(call[w])

HndInv == raced \cap {"number", "handle"} = {} => Handled

LEMMA HndInit == Init => Handled
  BY IdleFacts DEF Init, Handled, HndFds, HndGone, HndOwn, HndCall, InPcs

LEMMA OnlyHandle ==
    ASSUME Sole("handle"), NEW w \in Workers, call[w].op \in {"create", "open"},
           NEW v \in Workers, call[v].op \in {"create", "open"}
    PROVE  v = w
  BY DEF Sole, Takers

\* A call that ends, or goes on with its file.
Follows(c, d) == d = Idle \/ (d.op = c.op /\ d.file = c.file)

LEMMA GoneStays ==
    ASSUME HndGone, NEW w \in Workers, NEW d, Becomes(w, d), Follows(call[w], d), fds' = fds
    PROVE  HndGone'
  BY IdleFacts DEF HndGone, Becomes, Follows

LEMMA OwnStays ==
    ASSUME HndOwn, NEW w \in Workers, NEW d, Becomes(w, d),
           d.pc \in InPcs => call[w].pc \in InPcs /\ d.fid = call[w].fid
    PROVE  HndOwn'
  BY DEF HndOwn, Becomes

\* A step that leaves names and handles alone.
LEMMA HndStays ==
    ASSUME Handled, NEW w \in Workers, NEW d, Becomes(w, d), Follows(call[w], d),
           d.pc \notin InPcs, UNCHANGED <<names, fds, file_table, used>>, HndCall(d)
    PROVE  Handled'
<1>1. HndGone' /\ HndOwn'
  BY GoneStays, OwnStays DEF Handled
<1>2. HndFds'
  BY DEF Handled, HndFds
<1>3. \A v \in Workers : HndCall(call'[v])
  BY DEF Handled, Becomes
<1>4. \A v \in Workers : HndCall(call[v])'
  BY <1>3 DEF HndCall, Held
<1> QED
  BY <1>1, <1>2, <1>4 DEF Handled

\* Places of a call where it has nothing to do with handles.
AwayPcs == {"idle", "probe", "nothing", "load", "store", "hint", "enter", "data", "back", "zero",
            "forget"}

LEMMA HndVacuous ==
    \A d : d.op # "open" /\ d.pc \in AwayPcs => HndCall(d) /\ d.pc \notin InPcs
  BY DEF HndCall, AwayPcs, InPcs

\* The steps that leave names and handles alone.
LEMMA HndQuiet ==
    ASSUME Typed, Handled, NEW w \in Workers, Step(w), ~Enter(w), ~Forget(w),
           ~UseHandle(w), ~FillHandle(w), ~ClearHandle(w), ~FreeHandle(w)
    PROVE  Handled'
<1>1. PICK c, d : c = call[w] /\ d = call'[w]
  OBVIOUS
<1>2. UNCHANGED <<names, fds, file_table, used>> /\ HndCall(c)
  BY <1>1 DEF Step, Probe, Nothing, Load, Store, Flush, MoveHint, FindHandle,
              WriteData, WriteBack, ZeroBlock, Handled
<1>3. Becomes(w, d) /\ Follows(c, d) /\ HndCall(d) /\ d.pc \notin InPcs
  <2>1. CASE Probe(w)
    BY <1>1, <2>1, ProbeTurns, HndVacuous DEF AwayPcs, Same, Turns, Follows
  <2>2. CASE Nothing(w)
    <3>1. Turns(w, Idle)
      BY <2>2, NothingTurns
    <3> QED
      BY <1>1, <3>1, IdleFacts, HndVacuous DEF AwayPcs, Turns, Follows
  <2>3. CASE Load(w)
    BY <1>1, <2>3, LoadTurns, HndVacuous DEF AwayPcs, Same, Turns, Follows
  <2>4. CASE Store(w)
    <3>1. /\ Turns(w, d) /\ Same(c, d) /\ c.op \in {"create", "write", "unlink"}
          /\ d.pc = AfterStore(c.op, c.map)
      BY <1>1, <2>4, StoreTurns
    <3>2. d.pc \in {"hint", "data", "zero", "forget"}
      BY <3>1 DEF AfterStore
    <3> QED
      BY <3>1, <3>2, HndVacuous DEF AwayPcs, Same, Turns, Follows
  <2>5. CASE Flush(w)
    <3>1. /\ Turns(w, d) /\ c.pc = "flush" /\ c.op \in {"create", "write", "unlink"}
          /\ \/ d = Idle
             \/ Same(c, d) /\ d.pc = "flush"
             \/ Same(c, d) /\ d.pc = "find" /\ c.op = "create"
      BY <1>1, <2>5, FlushTurns
    <3>2. HndCall(d) /\ d.pc \notin InPcs
      BY <1>2, <3>1, IdleFacts DEF HndCall, Same, InPcs
    <3> QED
      BY <3>1, <3>2 DEF Same, Turns, Follows
  <2>6. CASE MoveHint(w)
    BY <1>1, <2>6, MoveHintTurns, HndVacuous DEF AwayPcs, Same, Turns, Follows
  <2>7. CASE FindHandle(w)
    <3>1. /\ Turns(w, d) /\ c.pc = "find" /\ c.op \in {"create", "open"}
          /\ \/ d = Idle
             \/ /\ d.op = c.op /\ d.file = c.file /\ d.ino = c.ino
                /\ d.pc \in {"find", "use"} /\ (d.pc = "use" => d.fid \notin used)
      BY <1>1, <2>7, FindHandleTurns
    <3>2. HndCall(d) /\ d.pc \notin InPcs
      BY <1>2, <3>1, IdleFacts DEF HndCall, InPcs
    <3> QED
      BY <3>1, <3>2 DEF Turns, Follows
  <2>8. CASE WriteData(w)
    BY <1>1, <2>8, WriteDataTurns, HndVacuous DEF AwayPcs, Same, Turns, Follows
  <2>9. CASE WriteBack(w)
    <3>1. Turns(w, d) /\ Same(c, d) /\ c.op = "write" /\ d.pc = "flush"
      BY <1>1, <2>9, WriteBackTurns
    <3> QED
      BY <3>1 DEF Same, Turns, Follows, HndCall, InPcs
  <2>10. CASE ZeroBlock(w)
    BY <1>1, <2>10, ZeroBlockTurns, HndVacuous DEF AwayPcs, Turns, Follows
  <2> QED
    BY <2>1, <2>2, <2>3, <2>4, <2>5, <2>6, <2>7, <2>8, <2>9, <2>10 DEF Step
<1> QED
  BY <1>1, <1>2, <1>3, HndStays

\* Descriptors in use, when a name comes or goes that they do not have.
LEMMA OpenFacts ==
    ASSUME Typed, NEW x \in Fds, fds[x] # NoFd
    PROVE  fds[x].fid \in Fids /\ fds[x].file \in Files
  BY DEF Typed, TablesTyped

LEMMA HndEnter ==
    ASSUME Typed, Numbered, Handled, Sole("number"), NEW w \in Workers, Enter(w)
    PROVE  Handled'
<1>1. PICK c, d : c = call[w] /\ d = call'[w]
  OBVIOUS
<1>2. /\ Becomes(w, d) /\ c.op = "create" /\ c.pc = "enter"
      /\ d.op = "create" /\ d.pc = "flush" /\ d.file = c.file
      /\ d.ino = c.pos /\ c.pos \in Inos /\ c.file \in Files
      /\ mem'.itable = [mem.itable EXCEPT ![c.pos] = NewFile]
      /\ names' = [names EXCEPT ![c.file] = c.pos]
  BY <1>1, EnterTurns DEF Turns
<1>3. fds' = fds /\ file_table' = file_table /\ used' = used
  BY DEF Enter
<1>4. names[c.file] = 0 /\ c.pos # 0
  BY <1>1, <1>2 DEF Numbered, NumCall
<1>5. names'[c.file] = c.pos /\ \A x \in Files \ {c.file} : names'[x] = names[x]
  BY <1>2 DEF Typed, TablesTyped
<1>6. HndFds'
  <2>1. ASSUME NEW x \in Fds, fds[x] # NoFd
        PROVE  /\ fds[x].fid \in used
               /\ file_table[fds[x].fid] = names'[fds[x].file] /\ names'[fds[x].file] # 0
    BY <1>4, <1>5, <2>1, OpenFacts DEF Handled, HndFds
  <2> QED
    BY <1>3, <2>1 DEF Handled, HndFds
<1>7. HndGone' /\ HndOwn'
  BY <1>1, <1>2, <1>3, GoneStays, OwnStays DEF Handled, Follows, InPcs
<1>8. ASSUME NEW v \in Workers \ {w} PROVE HndCall(call[v])'
  <2>1. PICK b : b = call[v] /\ call'[v] = b /\ HndCall(b) /\ CallTyped(b)
    BY <1>2 DEF Handled, Becomes, Typed, CallsTyped
  <2>2. CASE b.op = "open"
    <3>1. b.file \in Files /\ names[b.file] = b.ino /\ b.ino # 0
      BY <2>1, <2>2, KindOf DEF OpenTyped, HndCall
    <3>2. names'[b.file] = b.ino
      BY <1>4, <1>5, <3>1
    <3> QED
      BY <1>3, <2>1, <2>2, <3>1, <3>2 DEF HndCall, Held
  <2>3. CASE b.op # "open"
    <3>1. b.op # "create"
      BY <1>1, <1>2, <2>1, OnlyNumber
    <3> QED
      BY <1>3, <2>1, <2>3, <3>1 DEF HndCall, Held
  <2> QED
    BY <2>2, <2>3
<1>9. HndCall(d)'
  BY <1>2, <1>4, <1>5 DEF HndCall, InPcs
<1> QED
  BY <1>2, <1>6, <1>7, <1>8, <1>9 DEF Handled, Becomes

\* Handles of other calls are not the one a call has in hand, nor one it takes.
LEMMA HandsApart ==
    ASSUME Handled, NEW w \in Workers, NEW v \in Workers \ {w}, call[v].pc \in InPcs
    PROVE  /\ call[v].fid \in used /\ \A x \in Fds : fds[x] # NoFd => fds[x].fid # call[v].fid
           /\ call[w].pc \in InPcs => call[v].fid # call[w].fid
  BY DEF Handled, HndOwn, HndCall, Held

\* No other call opens while one that may not overlap does.
LEMMA OthersAway ==
    ASSUME Typed, Sole("handle"), NEW w \in Workers, call[w].op \in {"create", "open"},
           NEW v \in Workers \ {w}
    PROVE  call[v].op \notin {"create", "open"} /\ call[v].pc # "use"
<1>1. call[v].op \notin {"create", "open"}
  BY OnlyHandle
<1>2. CallTyped(call[v])
  BY DEF Typed, CallsTyped
<1> QED
  BY <1>1, <1>2, KindOf, Ops

LEMMA HndUse ==
    ASSUME Typed, Handled, Sole("handle"), NEW w \in Workers, UseHandle(w)
    PROVE  Handled'
<1>1. PICK c, d : c = call[w] /\ d = call'[w]
  OBVIOUS
<1>2. /\ Becomes(w, d) /\ c.pc = "use" /\ c.op \in {"create", "open"}
      /\ d.op = c.op /\ d.file = c.file /\ d.ino = c.ino
      /\ d.pc = "fill" /\ d.fid = c.fid /\ used' = used \cup {c.fid}
  BY <1>1, UseHandleTurns DEF Turns
<1>3. UNCHANGED <<names, fds, file_table>>
  BY DEF UseHandle
<1>4. names[c.file] = c.ino /\ c.ino # 0 /\ c.fid \notin used
  BY <1>1, <1>2 DEF Handled, HndCall
<1>5. HndFds'
  BY <1>2, <1>3 DEF Handled, HndFds
<1>6. HndGone'
  BY <1>1, <1>2, <1>3, GoneStays DEF Handled, Follows
<1>7. \A v \in Workers \ {w} : call[v].pc \in InPcs => call[v].fid # d.fid
  BY <1>2, <1>4, HandsApart
<1>8. HndOwn'
  BY <1>2, <1>7 DEF Handled, HndOwn, Becomes
<1>9. HndCall(d)'
  BY <1>2, <1>3, <1>4 DEF HndCall, Held, Handled, HndFds
<1>10. ASSUME NEW v \in Workers \ {w} PROVE HndCall(call[v])'
  <2>1. PICK b : b = call[v] /\ call'[v] = b /\ HndCall(b)
    BY <1>2 DEF Handled, Becomes
  <2>2. b.op \notin {"create", "open"} /\ b.pc # "use"
    BY <1>1, <1>2, <2>1, OthersAway
  <2> QED
    BY <1>2, <1>3, <2>1, <2>2 DEF HndCall, Held
<1> QED
  BY <1>2, <1>5, <1>6, <1>8, <1>9, <1>10 DEF Handled, Becomes

LEMMA HndFill ==
    ASSUME Typed, Handled, Sole("handle"), NEW w \in Workers, FillHandle(w)
    PROVE  Handled'
<1>1. PICK c : c = call[w]
  OBVIOUS
<1>2. /\ Becomes(w, Idle) /\ c.pc = "fill" /\ c.op \in {"create", "open"}
      /\ c.fd \in Fds /\ c.fid \in Fids /\ c.file \in Files
      /\ file_table' = [file_table EXCEPT ![c.fid] = c.ino]
      /\ fds'[c.fd] # NoFd /\ fds'[c.fd].fid = c.fid /\ fds'[c.fd].file = c.file
      /\ \A x \in Fds \ {c.fd} : fds'[x] = fds[x]
  BY <1>1, FillHandleTurns DEF Turns
<1>3. names' = names /\ used' = used
  BY DEF FillHandle
<1>4. names[c.file] = c.ino /\ c.ino # 0 /\ Held(c)
  BY <1>1, <1>2 DEF Handled, HndCall, InPcs
<1>5. file_table'[c.fid] = c.ino /\ \A f \in Fids \ {c.fid} : file_table'[f] = file_table[f]
  BY <1>2 DEF Typed, TablesTyped
<1>6. ASSUME NEW x \in Fds, fds[x] # NoFd PROVE fds[x].fid # c.fid /\ fds[x].fid \in Fids
  BY <1>4, <1>6, OpenFacts DEF Held
<1>7. HndFds'
  <2>1. ASSUME NEW x \in Fds, fds'[x] # NoFd
        PROVE  /\ fds'[x].fid \in used
               /\ file_table'[fds'[x].fid] = names[fds'[x].file] /\ names[fds'[x].file] # 0
    <3>1. CASE x = c.fd
      BY <1>2, <1>4, <1>5, <3>1 DEF Held
    <3>2. CASE x # c.fd
      BY <1>2, <1>5, <1>6, <2>1, <3>2 DEF Handled, HndFds
    <3> QED
      BY <3>1, <3>2
  <2>2. ASSUME NEW x \in Fds, NEW y \in Fds, fds'[x] # NoFd, fds'[y] # NoFd, fds'[y].fid = fds'[x].fid
        PROVE  x = y
    BY <1>2, <1>6, <2>2 DEF Handled, HndFds
  <2> QED
    BY <1>3, <2>1, <2>2 DEF HndFds
<1>8. HndGone'
  <2> SUFFICES ASSUME NEW v \in Workers, call'[v].op = "unlink"
               PROVE  /\ \A x \in Fds : fds'[x] # NoFd => fds'[x].file # call'[v].file
                      /\ \A u \in Workers : call'[u].op \in {"open", "create"} =>
                                                call'[u].file # call'[v].file
    BY DEF HndGone
  <2>1. v # w /\ call'[v] = call[v]
    BY <1>2, IdleFacts DEF Becomes
  <2>2. c.file # call[v].file
    BY <1>1, <1>2, <2>1 DEF Handled, HndGone
  <2> QED
    BY <1>2, <2>1, <2>2, IdleFacts DEF Handled, HndGone, Becomes
<1>9. HndOwn'
  BY <1>2, OwnStays, IdleFacts DEF Handled, InPcs
<1>10. ASSUME NEW v \in Workers \ {w} PROVE HndCall(call[v])'
  <2>1. PICK b : b = call[v] /\ call'[v] = b /\ HndCall(b)
    BY <1>2 DEF Handled, Becomes
  <2>2. b.op \notin {"create", "open"} /\ b.pc # "use"
    BY <1>1, <1>2, <2>1, OthersAway
  <2>3. b.pc \in InPcs => b.fid \in used /\ b.fid # c.fid
                          /\ \A x \in Fds : fds[x] # NoFd => fds[x].fid # b.fid
    BY <1>1, <1>2, <2>1, HandsApart DEF InPcs
  <2>4. b.pc \in InPcs => \A x \in Fds : fds'[x] # NoFd => fds'[x].fid # b.fid
    BY <1>2, <2>3
  <2> QED
    BY <1>3, <2>1, <2>2, <2>3, <2>4 DEF HndCall, Held
<1>11. HndCall(Idle)'
  BY IdleFacts DEF HndCall, InPcs
<1> QED
  BY <1>2, <1>7, <1>8, <1>9, <1>10, <1>11 DEF Handled, Becomes

LEMMA HndClear ==
    ASSUME Typed, Handled, NEW w \in Workers, ClearHandle(w)
    PROVE  Handled'
<1>1. PICK c, d : c = call[w] /\ d = call'[w]
  OBVIOUS
<1>2. /\ Becomes(w, d) /\ c.pc = "clear" /\ c.op = "release"
      /\ d.op = "release" /\ d.pc = "free" /\ d.fid = c.fid /\ d.file = c.file /\ c.fid \in Fids
      /\ file_table' = [file_table EXCEPT ![c.fid] = 0]
  BY <1>1, ClearHandleTurns DEF Turns
<1>3. UNCHANGED <<names, fds, used>>
  BY DEF ClearHandle
<1>4. Held(c)
  BY <1>1, <1>2 DEF Handled, HndCall, InPcs
<1>5. \A f \in Fids \ {c.fid} : file_table'[f] = file_table[f]
  BY <1>2 DEF Typed, TablesTyped
<1>6. ASSUME NEW x \in Fds, fds[x] # NoFd PROVE file_table'[fds[x].fid] = names[fds[x].file]
  <2>1. fds[x].fid # c.fid /\ fds[x].fid \in Fids
    BY <1>4, <1>6, OpenFacts DEF Held
  <2> QED
    BY <1>5, <1>6, <2>1 DEF Handled, HndFds
<1>7. HndFds'
  BY <1>3, <1>6 DEF Handled, HndFds
<1>8. HndGone' /\ HndOwn'
  BY <1>1, <1>2, <1>3, GoneStays, OwnStays DEF Handled, Follows, InPcs
<1>9. HndCall(d)'
  BY <1>2, <1>3, <1>4 DEF HndCall, Held
<1>10. ASSUME NEW v \in Workers \ {w} PROVE HndCall(call[v])'
  <2>1. PICK b : b = call[v] /\ call'[v] = b /\ HndCall(b)
    BY <1>2 DEF Handled, Becomes
  <2> QED
    BY <1>3, <2>1 DEF HndCall, Held
<1> QED
  BY <1>2, <1>7, <1>8, <1>9, <1>10 DEF Handled, Becomes

LEMMA HndFree ==
    ASSUME Typed, Handled, NEW w \in Workers, FreeHandle(w)
    PROVE  Handled'
<1>1. PICK c : c = call[w]
  OBVIOUS
<1>2. Becomes(w, Idle) /\ c.pc = "free" /\ used' = used \ {c.fid}
  BY <1>1, FreeHandleTurns DEF Turns
<1>3. UNCHANGED <<names, fds, file_table>>
  BY DEF FreeHandle
<1>4. Held(c)
  BY <1>1, <1>2 DEF Handled, HndCall, InPcs
<1>5. HndFds'
  BY <1>2, <1>3, <1>4 DEF Handled, HndFds, Held
<1>6. HndGone' /\ HndOwn'
  BY <1>1, <1>2, <1>3, GoneStays, OwnStays, IdleFacts DEF Handled, Follows, InPcs
<1>7. HndCall(Idle)'
  BY IdleFacts DEF HndCall, InPcs
<1>8. ASSUME NEW v \in Workers \ {w} PROVE HndCall(call[v])'
  <2>1. PICK b : b = call[v] /\ call'[v] = b /\ HndCall(b)
    BY <1>2 DEF Handled, Becomes
  <2>2. b.pc \in InPcs => b.fid # c.fid
    BY <1>1, <1>2, <2>1, HandsApart DEF InPcs
  <2> QED
    BY <1>2, <1>3, <2>1, <2>2 DEF HndCall, Held
<1> QED
  BY <1>2, <1>5, <1>6, <1>7, <1>8 DEF Handled, Becomes

LEMMA HndForget ==
    ASSUME Typed, Numbered, Handled, Sole("number"), NEW w \in Workers, Forget(w)
    PROVE  Handled'
<1>1. PICK c, d : c = call[w] /\ d = call'[w]
  OBVIOUS
<1>2. /\ Becomes(w, d) /\ Same(c, d) /\ c.op = "unlink" /\ c.pc = "forget" /\ d.pc = "flush"
      /\ c.ino \in Inos /\ c.file \in Files
      /\ mem'.ibmap = mem.ibmap
      /\ mem'.itable = [mem.itable EXCEPT ![c.ino] = ZeroInode]
      /\ names' = [names EXCEPT ![c.file] = 0]
  BY <1>1, ForgetTurns DEF Turns
<1>3. fds' = fds /\ file_table' = file_table /\ used' = used
  BY DEF Forget
<1>4. \A x \in Files \ {c.file} : names'[x] = names[x]
  BY <1>2 DEF Typed, TablesTyped
<1>5. /\ \A x \in Fds : fds[x] # NoFd => fds[x].file # c.file
      /\ \A v \in Workers : call[v].op \in {"open", "create"} => call[v].file # c.file
  BY <1>1, <1>2 DEF Handled, HndGone
<1>6. HndFds'
  <2>1. ASSUME NEW x \in Fds, fds[x] # NoFd
        PROVE  /\ fds[x].fid \in used
               /\ file_table[fds[x].fid] = names'[fds[x].file] /\ names'[fds[x].file] # 0
    BY <1>4, <1>5, <2>1, OpenFacts DEF Handled, HndFds
  <2> QED
    BY <1>3, <2>1 DEF Handled, HndFds
<1>7. HndGone' /\ HndOwn'
  BY <1>1, <1>2, <1>3, GoneStays, OwnStays DEF Handled, Follows, Same, InPcs
<1>8. ASSUME NEW v \in Workers \ {w} PROVE HndCall(call[v])'
  <2>1. PICK b : b = call[v] /\ call'[v] = b /\ HndCall(b) /\ CallTyped(b)
    BY <1>2 DEF Handled, Becomes, Typed, CallsTyped
  <2>2. CASE b.op \in {"open", "create"}
    <3>1. b.file \in Files
      BY <2>1, <2>2, KindOf DEF OpenTyped, CreateTyped
    <3>2. names'[b.file] = names[b.file]
      BY <1>4, <1>5, <2>1, <2>2, <3>1
    <3> QED
      BY <1>3, <2>1, <2>2, <3>2 DEF HndCall, Held
  <2>3. CASE b.op \notin {"open", "create"}
    BY <1>3, <2>1, <2>3 DEF HndCall, Held
  <2> QED
    BY <2>2, <2>3
<1>9. HndCall(d)'
  BY <1>2 DEF HndCall, Same, InPcs
<1> QED
  BY <1>2, <1>6, <1>7, <1>8, <1>9 DEF Handled, Becomes

LEMMA HndRelease ==
    ASSUME Typed, Handled, NEW w \in Workers, NEW fd \in Fds, BeginRelease(w, fd)
    PROVE  Handled'
<1>1. PICK d, g : d = call'[w] /\ g = fds[fd].fid
  OBVIOUS
<1>2. /\ Becomes(w, d) /\ ~Busy(w) /\ d.op = "release" /\ d.pc = "clear" /\ d.fid = g
      /\ fds[fd] # NoFd /\ fds'[fd] = NoFd /\ \A x \in Fds \ {fd} : fds'[x] = fds[x]
  BY <1>1, BeginReleaseTurns DEF Turns, Begin
<1>3. UNCHANGED <<names, file_table, used>>
  BY DEF BeginRelease
<1>4. \A x \in Fds : fds'[x] # NoFd => x # fd /\ fds'[x] = fds[x]
  BY <1>2
<1>5. g \in used /\ \A x \in Fds : fds'[x] # NoFd => fds'[x].fid # g
  BY <1>1, <1>2, <1>4 DEF Handled, HndFds
<1>6. HndFds'
  BY <1>3, <1>4 DEF Handled, HndFds
<1>7. HndGone'
  BY <1>2, <1>4 DEF Handled, HndGone, Becomes
<1>8. \A v \in Workers \ {w} : call[v].pc \in InPcs => call[v].fid # g
  BY <1>1, <1>2, HandsApart
<1>9. HndOwn'
  BY <1>2, <1>8 DEF Handled, HndOwn, Becomes
<1>10. HndCall(d)'
  BY <1>2, <1>3, <1>5 DEF HndCall, Held
<1>11. ASSUME NEW v \in Workers \ {w} PROVE HndCall(call[v])'
  <2>1. PICK b : b = call[v] /\ call'[v] = b /\ HndCall(b)
    BY <1>2 DEF Handled, Becomes
  <2> QED
    BY <1>3, <1>4, <2>1 DEF HndCall, Held
<1> QED
  BY <1>2, <1>6, <1>7, <1>9, <1>10, <1>11 DEF Handled, Becomes

LEMMA HndNext ==
    ASSUME Typed, Apart, Apart', NumInv, HndInv, [Next]_workerVars, raced \subseteq raced'
    PROVE  HndInv'
<1> SUFFICES ASSUME "number" \notin raced', "handle" \notin raced' PROVE Handled'
  BY DEF HndInv
<1>1. Numbered /\ Handled /\ Sole("number") /\ Sole("handle") /\ Sole("number")'
  <2>1. "number" \notin raced /\ "handle" \notin raced
    OBVIOUS
  <2> QED
    BY <2>1 DEF NumInv, HndInv, Apart
<1>2. ASSUME NEW w \in Workers, Step(w) PROVE Handled'
  BY <1>1, <1>2, HndQuiet, HndEnter, HndUse, HndFill, HndClear, HndFree, HndForget
<1>3. ASSUME NEW w \in Workers, NEW d, Turns(w, d), Begin(w, d), HndCall(d),
             d.pc \notin InPcs, UNCHANGED <<names, fds, file_table, used>>,
             d.op = "unlink" => /\ Using(d.file) = {}
                                /\ \A x \in Fds : fds[x] # NoFd => fds[x].file # d.file,
             d.op \in {"open", "create"} =>
                 \A v \in Workers : call[v].op = "unlink" => call[v].file # d.file
      PROVE  Handled'
  <2>1. Becomes(w, d) /\ ~Busy(w)
    BY <1>3 DEF Turns, Begin
  <2>2. HndFds'
    BY <1>1, <1>3 DEF Handled, HndFds
  <2>3. \A v \in Workers : HndCall(call[v])'
    <3>1. \A v \in Workers : HndCall(call'[v])
      BY <1>1, <1>3, <2>1 DEF Handled, Becomes
    <3> QED
      BY <1>3, <3>1 DEF HndCall, Held
  <2>4. \A v \in Workers : call[v].op \in {"open", "create"} /\ d.op = "unlink" =>
                               call[v].file # d.file
    <3> SUFFICES ASSUME NEW v \in Workers, call[v].op \in {"open", "create"}, d.op = "unlink"
                 PROVE  call[v].file # d.file
      OBVIOUS
    <3>1. CallTyped(call[v])
      BY DEF Typed, CallsTyped
    <3>2. Busy(v)
      BY <3>1, KindOf DEF Busy
    <3> QED
      BY <1>3, <3>2 DEF Using
  <2>5. HndGone'
    <3> SUFFICES ASSUME NEW v \in Workers, call'[v].op = "unlink"
                 PROVE  /\ \A x \in Fds : fds[x] # NoFd => fds[x].file # call'[v].file
                        /\ \A u \in Workers : call'[u].op \in {"open", "create"} =>
                                                  call'[u].file # call'[v].file
      BY <1>3 DEF HndGone
    <3>1. CASE v = w
      BY <1>3, <2>1, <2>4, <3>1 DEF Becomes
    <3>2. CASE v # w
      BY <1>1, <1>3, <2>1, <3>2 DEF Becomes, Handled, HndGone
    <3> QED
      BY <3>1, <3>2
  <2>6. HndOwn'
    BY <1>1, <1>3, <2>1, OwnStays DEF Handled
  <2> QED
    BY <2>2, <2>3, <2>5, <2>6 DEF Handled
<1>4. ASSUME NEW w \in Workers, NEW x \in Files, BeginUnlink(w, x) PROVE Handled'
  <2>1. PICK d : d = call'[w]
    OBVIOUS
  <2>2. Turns(w, d) /\ Begin(w, d) /\ d.op = "unlink" /\ d.pc = "load" /\ d.file = x
    BY <1>4, <2>1, BeginUnlinkTurns
  <2>3. /\ Using(x) = {} /\ \A fd \in Fds : fds[fd] # NoFd => fds[fd].file # x
        /\ UNCHANGED <<names, fds, file_table, used>>
    BY <1>4 DEF BeginUnlink
  <2>4. HndCall(d) /\ d.pc \notin InPcs
    BY <2>2, HndVacuous DEF AwayPcs
  <2> QED
    BY <1>3, <2>2, <2>3, <2>4
<1>5. ASSUME NEW w \in Workers, NEW x \in Files, NEW fd \in Fds, BeginCreate(w, x, fd)
      PROVE  Handled'
  <2>1. PICK d : d = call'[w]
    OBVIOUS
  <2>2. Turns(w, d) /\ Begin(w, d) /\ d.op = "create" /\ d.pc = "probe" /\ d.file = x
    BY <1>5, <2>1, BeginCreateTurns
  <2>3. UNCHANGED <<names, fds, file_table, used>>
    BY <1>5 DEF BeginCreate
  <2>4. HndCall(d) /\ d.pc \notin InPcs
    BY <2>2, HndVacuous DEF AwayPcs
  <2>5. ASSUME NEW v \in Workers, call[v].op = "unlink" PROVE FALSE
    <3>1. v # w
      <4>1. call[w].pc = "idle" /\ CallTyped(call[w])
        BY <2>2 DEF Begin, Busy, Typed, CallsTyped
      <4> QED
        BY <2>5, <4>1, KindOf
    <3>2. call'[v].op = "unlink" /\ call'[w].op = "create"
      BY <2>1, <2>2, <2>5, <3>1 DEF Turns, Becomes
    <3> QED
      BY <1>1, <3>1, <3>2 DEF Sole, Takers
  <2> QED
    BY <1>3, <2>2, <2>3, <2>4, <2>5
<1>6. ASSUME NEW w \in Workers, NEW x \in Files, NEW fd \in Fds, BeginOpen(w, x, fd)
      PROVE  Handled'
  <2>1. PICK d : d = call'[w]
    OBVIOUS
  <2>2. /\ Turns(w, d) /\ Begin(w, d) /\ d.op = "open" /\ d.pc = "find" /\ d.file = x
        /\ d.ino = names[x]
    BY <1>6, <2>1, BeginOpenTurns
  <2>3. /\ UNCHANGED <<names, fds, file_table, used>> /\ names[x] # 0
        /\ \A v \in Using(x) : call[v].op \notin {"create", "unlink"}
    BY <1>6 DEF BeginOpen
  <2>4. HndCall(d) /\ d.pc \notin InPcs
    BY <2>2, <2>3 DEF HndCall, InPcs
  <2>5. ASSUME NEW v \in Workers, call[v].op = "unlink" PROVE call[v].file # x
    <3>1. CallTyped(call[v])
      BY DEF Typed, CallsTyped
    <3>2. Busy(v)
      BY <2>5, <3>1, KindOf DEF Busy
    <3> QED
      BY <2>3, <2>5, <3>2 DEF Using
  <2> QED
    BY <1>3, <2>2, <2>3, <2>4, <2>5
<1>7. ASSUME NEW w \in Workers, NEW fd \in Fds, BeginWrite(w, fd) PROVE Handled'
  <2>1. PICK d : d = call'[w]
    OBVIOUS
  <2>2. Turns(w, d) /\ Begin(w, d) /\ d.op = "write" /\ d.pc \in {"probe", "data"}
    BY <1>7, <2>1, BeginWriteTurns
  <2>3. UNCHANGED <<names, fds, file_table, used>>
    BY <1>7 DEF BeginWrite
  <2>4. HndCall(d) /\ d.pc \notin InPcs
    BY <2>2, HndVacuous DEF AwayPcs
  <2> QED
    BY <1>3, <2>2, <2>3, <2>4
<1>8. CASE UNCHANGED workerVars
  BY <1>1, <1>8 DEF workerVars, Handled, HndFds, HndGone, HndOwn, HndCall, Held
<1> QED
  BY <1>1, <1>2, <1>4, <1>5, <1>6, <1>7, <1>8, HndRelease DEF Next

LEMMA HndThen == HndInv => HandlesSafe
  BY DEF HndInv, Handled, HndFds, HandlesSafe

-----------------------------------------------------------------------------
(* The theorems.                                                           *)

WorkersInv == Typed /\ Shaped /\ Owed /\ Apart /\ NumInv /\ BlkInv /\ HndInv

LEMMA WorkersInvInit == Init => WorkersInv
  BY TypedInit, ShapedInit, ApartInit, NumInit, BlkInit, HndInit
     DEF WorkersInv, NumInv, BlkInv, HndInv

LEMMA WorkersInvNext == WorkersInv /\ [Next]_workerVars => WorkersInv'
<1> SUFFICES ASSUME Typed, Shaped, Owed, Apart, NumInv, BlkInv, HndInv, [Next]_workerVars
             PROVE  WorkersInv'
  BY DEF WorkersInv
<1>1. Typed' /\ Shaped' /\ Owed' /\ Apart' /\ raced \subseteq raced'
  BY TypedNext, NextKeeps, ApartNext
<1>2. NumInv'
  BY <1>1, NumNext
<1>3. BlkInv' /\ HndInv'
  BY <1>1, BlkNext, HndNext
<1> QED
  BY <1>1, <1>2, <1>3 DEF WorkersInv

(***************************************************************************)
(* As long as no create or unlink ran beside another one, in another       *)
(* directory, an inode number is the number of one name, its bit is set    *)
(* and its entry is a file: whatever writes, opens and releases do         *)
(* meanwhile.                                                              *)
(***************************************************************************)
THEOREM NumbersStaySafe == Spec => []NumbersSafe
<1>1. WorkersInv => NumbersSafe
  BY NumThen DEF WorkersInv
<1> QED
  BY <1>1, WorkersInvInit, WorkersInvNext, PTL DEF Spec

(***************************************************************************)
(* As long as neither two writes or unlinks nor two creates or unlinks ran *)
(* side by side, a block has one owner, its bit is set and it holds what   *)
(* its owner wrote.                                                        *)
(***************************************************************************)
THEOREM BlocksStaySafe == Spec => []BlocksSafe
<1>1. WorkersInv => BlocksSafe
  BY BlkThen DEF WorkersInv
<1> QED
  BY <1>1, WorkersInvInit, WorkersInvNext, PTL DEF Spec

(***************************************************************************)
(* As long as neither two opens or creates nor two creates or unlinks ran  *)
(* side by side, a descriptor has a handle of its own that is marked used  *)
(* and has the number of the file that was opened: no release, between     *)
(* whatever two of its stores an open finds the handle, does harm.         *)
(***************************************************************************)
THEOREM HandlesStaySafe == Spec => []HandlesSafe
<1>1. WorkersInv => HandlesSafe
  BY HndThen DEF WorkersInv
<1> QED
  BY <1>1, WorkersInvInit, WorkersInvNext, PTL DEF Spec
=============================================================================
