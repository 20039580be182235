------------------------------ MODULE Lab4Mkfs ------------------------------
(***************************************************************************)
(* lab4_mkfs and lab4_mount as programs that use one block device.         *)
(*                                                                         *)
(* The format makes five clusters in memory and writes them one after the  *)
(* other, the super block with the signature first; what the writes return *)
(* is printed and not looked at, and there is no sync.  A mount looks at   *)
(* the signature alone.  Neither program opens the device exclusively.     *)
(*                                                                         *)
(* The writes go to the page cache of the kernel (external), which writes  *)
(* them back when it likes, and in any case when the last program closes   *)
(* the device.  A program may be killed, a write may fail, and the power   *)
(* may fail.                                                               *)
(*                                                                         *)
(* The contents of a cluster are abstracted to the format that made it,    *)
(* and whether a mounted file system has changed it since.  A handler is   *)
(* one step here (Lab4Crash cuts them) and stands for one that changes     *)
(* every cluster, such as a mkdir in the root.                             *)
(*                                                                         *)
(* An operator whose name ends in _ and a word is a variant of the one     *)
(* after it with a bug the code does not have, put in its place to see a   *)
(* property fail.                                                          *)
(***************************************************************************)
EXTENDS Integers, Sequences

CONSTANT MaxRuns   \* formats that write, in a behaviour

ASSUME MkfsAssumption == MaxRuns \in Nat

VARIABLES
    cache,     \* the clusters as a program reads them
    platter,   \* the clusters as they were last written back
    tool,      \* the format that is running
    session,   \* the buffers of the mounted file system, or Unmounted
    spoilt,    \* what has gone wrong since the last format that went well
    runs       \* formats so far

mkfsVars == <<cache, platter, tool, session, spoilt, runs>>

-----------------------------------------------------------------------------
FormatOrder_NoTable == <<"sb", "ibmap", "dbmap", "darea">>

FormatOrder_Again == <<"sb", "ibmap", "dbmap", "itable", "darea", "darea">>

\* The order in which format_device_to_lab writes the clusters.
FormatOrder == <<"sb", "ibmap", "dbmap", "itable", "darea">>

Clusters == {"sb", "ibmap", "dbmap", "itable", "darea"}
Buffers  == Clusters \ {"darea"}

\* What the device held before the first format has no signature.
Blank == [run |-> 0, used |-> FALSE]

\* Every format writes the same, but for the times of the root.
Formatted(r) == [run |-> r, used |-> FALSE]

Used(x) == [x EXCEPT !.used = TRUE]

Contents == [run : 0..MaxRuns, used : BOOLEAN]

\* All clusters come from one format and the same sessions after it.
Whole(dev) == \A c, d \in Clusters : dev[c] = dev[d]

HasSignature(dev) == dev["sb"].run > 0

Unmounted == [mounted |-> FALSE]

Resting == [pc |-> "none"]

NobodyElse == session = Unmounted

\* The kernel writes back what is left when the last program closes.
LastClose(last) == platter' = IF last THEN cache ELSE platter

Init == /\ cache = [c \in Clusters |-> Blank]
        /\ platter = cache
        /\ tool = Resting
        /\ session = Unmounted
        /\ spoilt = {}
        /\ runs = 0

-----------------------------------------------------------------------------
(* lab4_mkfs.                                                              *)

\* main of the format has a device that opens and the type lab; all other
\* options end it before, fat with the message that it is not implemented.
StartFormat ==
    /\ tool = Resting /\ runs < MaxRuns
    /\ tool' = [pc |-> "size", next |-> 1, well |-> TRUE, alone |-> NobodyElse]
    /\ UNCHANGED <<cache, platter, session, spoilt, runs>>

\* fill_io_manager does not look at its ioctls, and main not at
\* fill_io_manager: without a sector size the format dies dividing by the
\* cluster size, before it has written anything.
NoSize == /\ tool.pc = "size"
          /\ tool' = Resting
          /\ LastClose(NobodyElse)
          /\ UNCHANGED <<cache, session, spoilt, runs>>

\* The buffers are allocated and filled in.
FillBuffers ==
    /\ tool.pc = "size"
    /\ runs' = runs + 1
    /\ tool' = [tool EXCEPT !.pc = "write"]
    /\ UNCHANGED <<cache, platter, session, spoilt>>

\* lseek and write; a write that fails is printed as a size of -1.
WriteCluster ==
    /\ tool.pc = "write" /\ tool.next <= Len(FormatOrder)
    /\ \/ /\ cache' = [cache EXCEPT ![FormatOrder[tool.next]] = Formatted(runs)]
          /\ tool' = [tool EXCEPT !.next = @ + 1]
       \/ /\ tool' = [tool EXCEPT !.next = @ + 1, !.well = FALSE]
          /\ UNCHANGED cache
    /\ UNCHANGED <<platter, session, spoilt, runs>>

\* "formatted successfully" is printed.
Report ==
    /\ tool.pc = "write" /\ tool.next > Len(FormatOrder)
    /\ tool' = [tool EXCEPT !.pc = "close"]
    /\ UNCHANGED <<cache, platter, session, spoilt, runs>>

Faults == (IF tool.well THEN {} ELSE {"error"}) \cup (IF tool.alone THEN {} ELSE {"shared"})

\* close_io_manager
Close ==
    /\ tool.pc = "close"
    /\ tool' = Resting
    /\ spoilt' = IF Faults = {} THEN {} ELSE spoilt \cup Faults
    /\ LastClose(NobodyElse)
    /\ UNCHANGED <<cache, session, runs>>

\* The format is killed; before its first write that does no harm.
Kill ==
    /\ tool # Resting
    /\ tool' = Resting
    /\ spoilt' = IF tool.next = 1 THEN spoilt ELSE spoilt \cup {"killed"}
    /\ LastClose(NobodyElse)
    /\ UNCHANGED <<cache, session, runs>>

-----------------------------------------------------------------------------
(* lab4_mount.                                                             *)

Loaded_Blank == [c \in Buffers |-> IF c = "dbmap" THEN Blank ELSE cache[c]]

\* check_formated reads the clusters into their buffers.
Loaded == [c \in Buffers |-> cache[c]]

Mount ==
    /\ NobodyElse
    /\ HasSignature(cache)
    /\ session' = [mounted |-> TRUE, buf |-> Loaded]
    /\ tool' = IF tool = Resting THEN tool ELSE [tool EXCEPT !.alone = FALSE]
    /\ UNCHANGED <<cache, platter, spoilt, runs>>

\* A handler changes the buffers and the block of the root, and flushes.
Handler ==
    /\ ~NobodyElse
    /\ session' = [session EXCEPT !.buf = [c \in Buffers |-> Used(session.buf[c])]]
    /\ cache' = [c \in Clusters |-> IF c \in Buffers THEN Used(session.buf[c])
                                    ELSE Used(cache[c])]
    /\ UNCHANGED <<platter, tool, spoilt, runs>>

\* The file system is unmounted or its process dies; xmp_destroy is a stub.
Unmount ==
    /\ ~NobodyElse
    /\ session' = Unmounted
    /\ LastClose(tool = Resting)
    /\ UNCHANGED <<cache, tool, spoilt, runs>>

-----------------------------------------------------------------------------
(* The kernel and the power (external).                                    *)

WriteBack ==
    /\ platter # cache
    /\ platter' = cache
    /\ UNCHANGED <<cache, tool, session, spoilt, runs>>

\* After a power failure each cluster has what was written back last, or what
\* was written since.
PowerFailure ==
    /\ \E kept \in SUBSET {c \in Clusters : cache[c] # platter[c]} :
          cache' = [c \in Clusters |-> IF c \in kept THEN cache[c] ELSE platter[c]]
    /\ platter' = cache'
    /\ tool' = Resting
    /\ session' = Unmounted
    /\ spoilt' = spoilt \cup (IF platter # cache THEN {"power"} ELSE {})
                        \cup (IF tool # Resting /\ tool.next > 1 THEN {"killed"} ELSE {})
    /\ UNCHANGED runs

Next == \/ StartFormat \/ NoSize \/ FillBuffers \/ WriteCluster \/ Report \/ Close \/ Kill
        \/ Mount \/ Handler \/ Unmount
        \/ WriteBack
        \/ PowerFailure

Spec == Init /\ [][Next]_mkfsVars

-----------------------------------------------------------------------------
(* Properties.                                                             *)

(***************************************************************************)
(* The contents of the clusters, of the buffers and of the variables of    *)
(* the programs.                                                           *)
(***************************************************************************)
MkfsTypeOK ==
    /\ cache \in [Clusters -> Contents]
    /\ platter \in [Clusters -> Contents]
    /\ tool \in {Resting} \cup [pc : {"size", "write", "close"}, next : 1..6,
                                 well : BOOLEAN, alone : BOOLEAN]
    /\ session \in {Unmounted} \cup [mounted : {TRUE}, buf : [Buffers -> Contents]]
    /\ spoilt \in SUBSET {"error", "shared", "killed", "power"}
    /\ runs \in 0..MaxRuns

\* Nothing has gone wrong, and no format is under way.
Calm == tool = Resting /\ spoilt = {}

(***************************************************************************)
(* A mounted file system has the device to itself unless something went    *)
(* wrong: its buffers are what a mount would read now.                     *)
(***************************************************************************)
SessionCurrent == Calm /\ ~NobodyElse => \A c \in Buffers : session.buf[c] = cache[c]

(***************************************************************************)
(* The clusters of a device come from one format and the sessions after it *)
(* unless a format was killed, a write of one failed, the power failed     *)
(* before write-back or a mounted device was formatted, and one format     *)
(* that goes well mends all of that.                                       *)
(***************************************************************************)
WholeUnlessSpoilt == Calm => Whole(cache)
=============================================================================
