--------------------------- MODULE Lab4MkfsProofs ---------------------------
(***************************************************************************)
(* What the programs leave on a device, for every number of formats.       *)
(*                                                                         *)
(* The invariant follows a format that goes well: it is alone, and the     *)
(* clusters before the next one are its own.  Until its first write the    *)
(* device is as it was.                                                    *)
(***************************************************************************)
EXTENDS Lab4Mkfs, TLAPS

USE MkfsAssumption DEF Clusters, Buffers, Contents, Blank, Formatted, Used

Tools == [pc : {"size", "write", "close"}, next : 1..6, well : BOOLEAN, alone : BOOLEAN]

\* No cluster has been written by a format that runs.
Untouched == tool = Resting \/ tool.next = 1

\* Where a format is, and that a mount beside it is noticed.
Placed == tool # Resting =>
            /\ tool.pc = "size"  => tool.next = 1 /\ runs < MaxRuns
            /\ tool.pc = "close" => tool.next = 6
            /\ tool.pc # "size"  => runs > 0
            /\ tool.alone => session = Unmounted

\* A format that went well so far has written the clusters before the next.
Written == tool # Resting /\ tool.pc # "size" /\ tool.well /\ tool.alone =>
             \A k \in 1..5 : k < tool.next => cache[FormatOrder[k]] = Formatted(runs)

Same == session # Unmounted => \A c \in Buffers : session.buf[c] = cache[c]

MkfsInv == /\ MkfsTypeOK
           /\ Placed
           /\ Written
           /\ spoilt = {} /\ Untouched => Whole(cache) /\ Same

LEMMA OrderFacts ==
    /\ Len(FormatOrder) = 5
    /\ \A k \in 1..5 : FormatOrder[k] \in Clusters
    /\ \A j, k \in 1..5 : FormatOrder[j] = FormatOrder[k] => j = k
    /\ \A c \in Clusters : \E k \in 1..5 : FormatOrder[k] = c
<1>1. \A k \in 1..5 : k = 1 \/ k = 2 \/ k = 3 \/ k = 4 \/ k = 5
  OBVIOUS
<1>2. /\ FormatOrder[1] = "sb" /\ FormatOrder[2] = "ibmap" /\ FormatOrder[3] = "dbmap"
      /\ FormatOrder[4] = "itable" /\ FormatOrder[5] = "darea"
  BY DEF FormatOrder
<1>3. Len(FormatOrder) = 5
  BY DEF FormatOrder
<1> QED
  BY <1>1, <1>2, <1>3

LEMMA Distinct ==
    /\ Resting \notin Tools
    /\ \A b : [mounted |-> TRUE, buf |-> b] # Unmounted
<1>1. Resting.pc = "none"
  BY DEF Resting
<1>2. \A t \in Tools : t.pc # "none"
  BY DEF Tools
<1>3. Unmounted.mounted = FALSE /\ \A b : [mounted |-> TRUE, buf |-> b].mounted = TRUE
  BY DEF Unmounted
<1> QED
  BY <1>1, <1>2, <1>3

LEMMA MkfsStart == Init => MkfsInv
<1> SUFFICES ASSUME Init PROVE MkfsInv
  OBVIOUS
<1>1. MkfsTypeOK
  BY DEF Init, MkfsTypeOK
<1> QED
  BY <1>1, Distinct DEF Init, MkfsInv, Placed, Written, Whole, Same

-----------------------------------------------------------------------------
(* Each step keeps the invariant.                                          *)

LEMMA StartFormatKeeps == ASSUME MkfsInv, StartFormat PROVE MkfsInv'
<1>1. tool' = [pc |-> "size", next |-> 1, well |-> TRUE, alone |-> NobodyElse]
  BY DEF StartFormat
<1>2. tool' \in Tools /\ tool'.pc = "size" /\ tool'.next = 1 /\ (tool'.alone => NobodyElse)
  <2>1. CASE NobodyElse
    <3>1. tool' = [pc |-> "size", next |-> 1, well |-> TRUE, alone |-> TRUE]
      BY <1>1, <2>1
    <3> QED
      BY <2>1, <3>1 DEF Tools
  <2>2. CASE ~NobodyElse
    <3>1. tool' = [pc |-> "size", next |-> 1, well |-> TRUE, alone |-> FALSE]
      BY <1>1, <2>2 DEF NobodyElse
    <3> QED
      BY <3>1 DEF Tools
  <2> QED
    BY <2>1, <2>2
<1>3. UNCHANGED <<cache, platter, session, spoilt, runs>> /\ tool = Resting /\ runs < MaxRuns
  BY DEF StartFormat
<1>4. MkfsTypeOK'
  BY <1>2, <1>3 DEF MkfsInv, MkfsTypeOK, Tools
<1> QED
  BY <1>2, <1>3, <1>4, Distinct DEF MkfsInv, Placed, Written, Untouched, Whole, Same, NobodyElse

LEMMA FillBuffersKeeps == ASSUME MkfsInv, FillBuffers PROVE MkfsInv'
<1>1. tool \in Tools /\ tool # Resting
  BY Distinct DEF MkfsInv, MkfsTypeOK, FillBuffers, Tools, Resting
<1>2. /\ tool' \in Tools /\ tool'.pc = "write" /\ tool'.next = 1
      /\ tool'.alone = tool.alone /\ tool'.well = tool.well
  BY <1>1 DEF FillBuffers, Tools, MkfsInv, Placed
<1>3. /\ UNCHANGED <<cache, platter, session, spoilt>>
      /\ runs < MaxRuns /\ runs' = runs + 1
  BY <1>1 DEF FillBuffers, MkfsInv, Placed
<1>4. runs \in 0..MaxRuns /\ runs' \in 0..MaxRuns /\ runs' > 0
  <2>1. runs \in 0..MaxRuns
    BY DEF MkfsInv, MkfsTypeOK
  <2> QED
    BY <1>3, <2>1
<1>5. MkfsTypeOK'
  BY <1>2, <1>3, <1>4 DEF MkfsInv, MkfsTypeOK, Tools
<1>6. Untouched
  BY <1>1 DEF FillBuffers, MkfsInv, Placed, Untouched
<1>7. Placed' /\ Written'
  BY <1>1, <1>2, <1>3, <1>4 DEF MkfsInv, Placed, Written
<1> QED
  BY <1>3, <1>5, <1>6, <1>7 DEF MkfsInv, Whole, Same

LEMMA WriteClusterKeeps == ASSUME MkfsInv, WriteCluster PROVE MkfsInv'
<1>1. tool \in Tools /\ tool # Resting /\ tool.pc = "write" /\ tool.next \in 1..5
  BY Distinct, OrderFacts DEF MkfsInv, MkfsTypeOK, WriteCluster, Tools, Resting
<1>2. /\ tool' \in Tools /\ tool'.pc = "write" /\ tool'.next = tool.next + 1
      /\ tool'.alone = tool.alone
  <2>1. CASE tool' = [tool EXCEPT !.next = tool.next + 1]
    BY <1>1, <2>1 DEF Tools
  <2>2. CASE tool' = [tool EXCEPT !.next = tool.next + 1, !.well = FALSE]
    <3>1. PICK t : t = [tool EXCEPT !.next = tool.next + 1]
      OBVIOUS
    <3>2. t \in Tools /\ t.pc = "write" /\ t.next = tool.next + 1 /\ t.alone = tool.alone
      BY <1>1, <3>1 DEF Tools
    <3>3. tool' = [t EXCEPT !.well = FALSE]
      BY <1>1, <2>2, <3>1 DEF Tools
    <3> QED
      BY <3>2, <3>3 DEF Tools
  <2> QED
    BY <2>1, <2>2 DEF WriteCluster
<1>3. UNCHANGED <<platter, session, spoilt, runs>>
  BY DEF WriteCluster
<1>4. \/ /\ cache' = [cache EXCEPT ![FormatOrder[tool.next]] = Formatted(runs)]
         /\ tool'.well = tool.well
      \/ cache' = cache /\ tool'.well = FALSE
  BY <1>1 DEF WriteCluster, Tools
<1>5. cache' \in [Clusters -> Contents]
  <2>1. cache \in [Clusters -> Contents] /\ Formatted(runs) \in Contents
    BY DEF MkfsInv, MkfsTypeOK
  <2> QED
    BY <1>4, <2>1
<1>6. MkfsTypeOK'
  BY <1>2, <1>3, <1>5 DEF MkfsInv, MkfsTypeOK, Tools
<1>7. Written'
  <2> SUFFICES ASSUME tool'.well, tool'.alone, NEW k \in 1..5, k < tool'.next
               PROVE  cache'[FormatOrder[k]] = Formatted(runs)
    BY <1>2, <1>3 DEF Written
  <2>1. k = tool.next \/ k < tool.next
    BY <1>1, <1>2
  <2>2. cache' = [cache EXCEPT ![FormatOrder[tool.next]] = Formatted(runs)] /\ tool.well
    BY <1>4
  <2>3. FormatOrder[k] \in DOMAIN cache
    BY OrderFacts DEF MkfsInv, MkfsTypeOK
  <2>4. CASE k = tool.next
    BY <2>2, <2>3, <2>4
  <2>5. CASE k < tool.next
    <3>1. cache[FormatOrder[k]] = Formatted(runs)
      BY <1>1, <1>2, <2>2, <2>5 DEF MkfsInv, Written
    <3> QED
      BY <2>2, <2>3, <3>1
  <2> QED
    BY <2>1, <2>4, <2>5
<1>8. Placed' /\ ~Untouched'
  BY <1>1, <1>2, <1>3, Distinct DEF MkfsInv, Placed, Untouched
<1> QED
  BY <1>6, <1>7, <1>8 DEF MkfsInv

LEMMA ReportKeeps == ASSUME MkfsInv, Report PROVE MkfsInv'
<1>1. tool \in Tools /\ tool # Resting /\ tool.pc = "write" /\ tool.next = 6
  BY Distinct, OrderFacts DEF MkfsInv, MkfsTypeOK, Report, Tools, Resting
<1>2. /\ tool' \in Tools /\ tool'.pc = "close" /\ tool'.next = 6
      /\ tool'.alone = tool.alone /\ tool'.well = tool.well
  BY <1>1 DEF Report, Tools
<1>3. UNCHANGED <<cache, platter, session, spoilt, runs>>
  BY DEF Report
<1>4. MkfsTypeOK'
  BY <1>2, <1>3 DEF MkfsInv, MkfsTypeOK, Tools
<1> QED
  BY <1>1, <1>2, <1>3, <1>4, Distinct DEF MkfsInv, Placed, Written, Untouched

LEMMA CloseKeeps == ASSUME MkfsInv, Close PROVE MkfsInv'
<1>1. tool \in Tools /\ tool # Resting /\ tool.pc = "close" /\ tool.next = 6
  BY Distinct DEF MkfsInv, MkfsTypeOK, Placed, Close, Tools, Resting
<1>2. tool' = Resting /\ UNCHANGED <<cache, session, runs>> /\ platter' \in {cache, platter}
  BY DEF Close, LastClose
<1>3. spoilt' = IF Faults = {} THEN {} ELSE spoilt \cup Faults
  BY DEF Close
<1>4. Faults \subseteq {"error", "shared"}
  BY DEF Faults
<1>5. MkfsTypeOK'
  BY <1>2, <1>3, <1>4 DEF MkfsInv, MkfsTypeOK
<1>6. ASSUME spoilt' = {} PROVE Whole(cache)' /\ Same'
  <2>1. Faults = {}
    BY <1>3, <1>6
  <2>2. tool.well /\ tool.alone
    BY <1>1, <2>1 DEF Faults, Tools
  <2>3. \A k \in 1..5 : cache[FormatOrder[k]] = Formatted(runs)
    BY <1>1, <2>2 DEF MkfsInv, Written
  <2>4. \A c \in Clusters : cache[c] = Formatted(runs)
    BY <2>3, OrderFacts
  <2>5. session = Unmounted
    BY <1>1, <2>2 DEF MkfsInv, Placed
  <2> QED
    BY <1>2, <2>4, <2>5 DEF Whole, Same
<1>7. Placed' /\ Written'
  BY <1>2 DEF Placed, Written
<1> QED
  BY <1>5, <1>6, <1>7 DEF MkfsInv

LEMMA EndsKeeps == ASSUME MkfsInv, NoSize \/ Kill PROVE MkfsInv'
<1>1. tool' = Resting /\ UNCHANGED <<cache, session, runs>> /\ platter' \in {cache, platter}
  BY DEF NoSize, Kill, LastClose
<1>2. spoilt' \subseteq spoilt \cup {"killed"} /\ spoilt \subseteq spoilt'
  BY DEF NoSize, Kill
<1>3. spoilt' = {} => spoilt = {} /\ Untouched
  <2>1. CASE NoSize
    <3>1. tool # Resting
      BY <2>1 DEF NoSize, Resting
    <3> QED
      BY <2>1, <3>1 DEF NoSize, MkfsInv, Placed, Untouched
  <2>2. CASE Kill
    BY <2>2 DEF Kill, Untouched
  <2> QED
    BY <2>1, <2>2
<1>4. MkfsTypeOK'
  BY <1>1, <1>2 DEF MkfsInv, MkfsTypeOK
<1> QED
  BY <1>1, <1>3, <1>4 DEF MkfsInv, Placed, Written, Whole, Same

LEMMA MountKeeps == ASSUME MkfsInv, Mount PROVE MkfsInv'
<1>1. UNCHANGED <<cache, platter, spoilt, runs>> /\ session = Unmounted
  BY DEF Mount, NobodyElse
<1>2. /\ session' \in [mounted : {TRUE}, buf : [Buffers -> Contents]]
      /\ \A c \in Buffers : session'.buf[c] = cache[c]
  BY DEF Mount, Loaded, MkfsInv, MkfsTypeOK
<1>3. CASE tool = Resting
  <2>1. tool' = Resting
    BY <1>3 DEF Mount
  <2>2. MkfsTypeOK'
    BY <1>1, <1>2, <2>1 DEF MkfsInv, MkfsTypeOK
  <2> QED
    BY <1>1, <1>2, <1>3, <2>1, <2>2 DEF MkfsInv, Placed, Written, Untouched, Whole, Same
<1>4. CASE tool # Resting
  <2>1. tool \in Tools
    BY <1>4 DEF MkfsInv, MkfsTypeOK, Tools
  <2>2. /\ tool' \in Tools /\ tool'.alone = FALSE
        /\ tool'.pc = tool.pc /\ tool'.next = tool.next
    BY <1>4, <2>1 DEF Mount, Tools
  <2>3. MkfsTypeOK'
    BY <1>1, <1>2, <2>2 DEF MkfsInv, MkfsTypeOK, Tools
  <2>4. Placed' /\ Written' /\ (Untouched' => Untouched)
    BY <1>1, <1>4, <2>2, Distinct DEF MkfsInv, Placed, Written, Untouched
  <2> QED
    BY <1>1, <1>2, <2>3, <2>4 DEF MkfsInv, Whole, Same
<1> QED
  BY <1>3, <1>4

LEMMA HandlerKeeps == ASSUME MkfsInv, Handler PROVE MkfsInv'
<1>1. UNCHANGED <<platter, tool, spoilt, runs>> /\ session # Unmounted
  BY DEF Handler, NobodyElse
<1>2. session \in [mounted : {TRUE}, buf : [Buffers -> Contents]]
  BY <1>1 DEF MkfsInv, MkfsTypeOK
<1>3. /\ session' \in [mounted : {TRUE}, buf : [Buffers -> Contents]]
      /\ \A c \in Buffers : session'.buf[c] = Used(session.buf[c])
  BY <1>2 DEF Handler
<1>4. /\ cache' \in [Clusters -> Contents]
      /\ \A c \in Buffers : cache'[c] = Used(session.buf[c])
      /\ \A c \in Clusters \ Buffers : cache'[c] = Used(cache[c])
  <2>1. cache \in [Clusters -> Contents]
    BY DEF MkfsInv, MkfsTypeOK
  <2>2. \A x \in Contents : Used(x) \in Contents
    OBVIOUS
  <2>3. cache' = [c \in Clusters |-> IF c \in Buffers THEN Used(session.buf[c])
                                     ELSE Used(cache[c])]
    BY DEF Handler
  <2>4. \A c \in Buffers : session.buf[c] \in Contents
    BY <1>2
  <2>5. Buffers \subseteq Clusters
    OBVIOUS
  <2> HIDE DEF Contents, Used, Clusters, Buffers
  <2>6. cache' \in [Clusters -> Contents]
    BY <2>1, <2>2, <2>3, <2>4
  <2> QED
    BY <2>3, <2>5, <2>6
<1>5. MkfsTypeOK'
  BY <1>1, <1>3, <1>4 DEF MkfsInv, MkfsTypeOK
<1>6. Placed' /\ Written'
  BY <1>1 DEF MkfsInv, Placed, Written
<1>7. ASSUME spoilt = {}, Untouched PROVE Whole(cache)' /\ Same'
  <2>1. Whole(cache) /\ \A c \in Buffers : session.buf[c] = cache[c]
    BY <1>1, <1>7 DEF MkfsInv, Same
  <2>2. \A c \in Clusters : cache'[c] = Used(cache[c])
    BY <1>4, <2>1
  <2>3. \A c, d \in Clusters : cache[c] = cache[d]
    BY <2>1 DEF Whole
  <2>4. Whole(cache)'
    BY <2>2, <2>3 DEF Whole
  <2>5. Same'
    BY <1>3, <1>4 DEF Same
  <2> QED
    BY <2>4, <2>5
<1> QED
  BY <1>1, <1>5, <1>6, <1>7 DEF MkfsInv, Untouched

LEMMA UnmountKeeps == ASSUME MkfsInv, Unmount PROVE MkfsInv'
<1>1. /\ session' = Unmounted /\ UNCHANGED <<cache, tool, spoilt, runs>>
      /\ platter' \in {cache, platter}
  BY DEF Unmount, LastClose
<1>2. MkfsTypeOK'
  BY <1>1 DEF MkfsInv, MkfsTypeOK
<1> QED
  BY <1>1, <1>2 DEF MkfsInv, Placed, Written, Untouched, Whole, Same

LEMMA PowerFailureKeeps == ASSUME MkfsInv, PowerFailure PROVE MkfsInv'
<1>1. /\ tool' = Resting /\ session' = Unmounted /\ runs' = runs /\ platter' = cache'
      /\ spoilt' = spoilt \cup (IF platter # cache THEN {"power"} ELSE {})
                          \cup (IF tool # Resting /\ tool.next > 1 THEN {"killed"} ELSE {})
  BY DEF PowerFailure
<1>2. PICK kept \in SUBSET {c \in Clusters : cache[c] # platter[c]} :
         cache' = [c \in Clusters |-> IF c \in kept THEN cache[c] ELSE platter[c]]
  BY DEF PowerFailure
<1>3. cache' \in [Clusters -> Contents]
  BY <1>2 DEF MkfsInv, MkfsTypeOK
<1>4. MkfsTypeOK'
  BY <1>1, <1>3 DEF MkfsInv, MkfsTypeOK
<1>5. ASSUME spoilt' = {} PROVE Whole(cache)'
  <2>1. spoilt = {} /\ platter = cache /\ (tool = Resting \/ ~(tool.next > 1))
    BY <1>1, <1>5
  <2>2. Untouched
    BY <2>1 DEF Untouched, MkfsInv, MkfsTypeOK
  <2>3. \A c \in Clusters : cache'[c] = cache[c]
    BY <1>2, <2>1
  <2> QED
    BY <2>1, <2>2, <2>3 DEF MkfsInv, Whole
<1> QED
  BY <1>1, <1>4, <1>5 DEF MkfsInv, Placed, Written, Same

LEMMA MkfsStep == ASSUME MkfsInv, [Next]_mkfsVars PROVE MkfsInv'
<1>1. CASE UNCHANGED mkfsVars
  BY <1>1 DEF mkfsVars, MkfsInv, MkfsTypeOK, Placed, Written, Untouched, Whole, Same
<1>2. CASE WriteBack
  <2>1. UNCHANGED <<cache, tool, session, spoilt, runs>> /\ platter' = cache
    BY <1>2 DEF WriteBack
  <2> QED
    BY <2>1 DEF MkfsInv, MkfsTypeOK, Placed, Written, Untouched, Whole, Same
<1> QED
  BY <1>1, <1>2, StartFormatKeeps, EndsKeeps, FillBuffersKeeps, WriteClusterKeeps, ReportKeeps,
     CloseKeeps, MountKeeps, HandlerKeeps, UnmountKeeps, PowerFailureKeeps DEF Next

-----------------------------------------------------------------------------
(***************************************************************************)
(* The clusters, the buffers and the programs hold what they may hold.     *)
(***************************************************************************)
THEOREM MkfsTypes == Spec => []MkfsTypeOK
<1>1. MkfsInv => MkfsTypeOK
  BY DEF MkfsInv
<1> QED
  BY <1>1, MkfsStart, MkfsStep, PTL DEF Spec

(***************************************************************************)
(* After any number of formats and mounts the clusters of a device come    *)
(* from one format and its sessions, unless something went wrong since the *)
(* last format that went well, which mends what went wrong before.         *)
(***************************************************************************)
THEOREM OneFormat == Spec => []WholeUnlessSpoilt
<1>1. MkfsInv => WholeUnlessSpoilt
  BY DEF MkfsInv, WholeUnlessSpoilt, Calm, Untouched
<1> QED
  BY <1>1, MkfsStart, MkfsStep, PTL DEF Spec

(***************************************************************************)
(* The buffers of a mounted file system are what the device holds, unless  *)
(* something went wrong.                                                   *)
(***************************************************************************)
THEOREM BuffersCurrent == Spec => []SessionCurrent
<1>1. MkfsInv => SessionCurrent
  BY DEF MkfsInv, SessionCurrent, Calm, Untouched, Same, NobodyElse
<1> QED
  BY <1>1, MkfsStart, MkfsStep, PTL DEF Spec
=============================================================================
