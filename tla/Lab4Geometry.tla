---------------------------- MODULE Lab4Geometry ----------------------------
(***************************************************************************)
(* The sizes and addresses of a device, through the widths of the fields   *)
(* that hold them.                                                         *)
(*                                                                         *)
(* The kernel counts a device in units of 512 bytes whatever its sectors   *)
(* are (BLKGETSIZE, external); the program multiplies that count by the    *)
(* size of a sector.  The count goes through an int, the number of blocks  *)
(* and the bytes of the data area through 32 bits, and the address of a    *)
(* block through 32 bits and, in lab4_lookup and delete_block, an int.     *)
(* Word stands for 2^32 and UnitBytes for 512, so that small devices show  *)
(* what large ones do.                                                     *)
(*                                                                         *)
(* An operator whose name ends in _ and a word is a variant of the one     *)
(* after it with a bug the code does not have, put in its place to see a   *)
(* property fail.                                                          *)
(***************************************************************************)
EXTENDS Integers

CONSTANTS Word,        \* values of a u32
          UnitBytes,   \* bytes in a unit of BLKGETSIZE
          SectorSizes, \* bytes in a sector: units or larger
          DeviceUnits  \* sizes of devices

ASSUME GeometryAssumption ==
    /\ Word \in Nat /\ Word >= 256
    /\ UnitBytes \in Nat /\ UnitBytes >= 4
    /\ SectorSizes \subseteq Nat \ {0} /\ DeviceUnits \subseteq Nat

VARIABLES dev,    \* the device: its units and its sectors
          sb,     \* what the format puts into the super block
          sbi     \* what the mount makes of it

geometryVars == <<dev, sb, sbi>>

-----------------------------------------------------------------------------
Reserved   == 4    \* LAB4_RESERVED: clusters before the data area
BlockShift == 8    \* sectors in a cluster: 1 << LAB4_BLK_SIZE_SHIFT

U32(x) == x % Word

\* Values are negative from half of Word on.
S32(x) == IF U32(x) < Word \div 2 THEN U32(x) ELSE U32(x) - Word

\* Division of C rounds towards zero.
Quotient(x, y) == IF x >= 0 THEN x \div y ELSE -((-x) \div y)

ClusterSize(sector) == BlockShift * sector

\* The clusters before the data area end within a word.
ASSUME ReservedAssumption ==
    \A sector \in SectorSizes : Reserved * ClusterSize(sector) < Word

\* The clusters that are on the device.
RealClusters == (dev.units * UnitBytes) \div ClusterSize(dev.sector)

Formatted == sb.sectors # 0
Mounted   == sbi.cluster # 0

\* Devices have whole sectors.
GeometryInit ==
    /\ dev \in {d \in [units : DeviceUnits, sector : SectorSizes] :
                   (d.units * UnitBytes) % d.sector = 0}
    /\ sb = [sectors |-> 0, sector |-> 0, darea |-> 0, free |-> 0]
    /\ sbi = [cluster |-> 0, start |-> 0, size |-> 0]

DareaSize_Whole(sectors, sector) ==
    U32(Quotient(sectors * sector, ClusterSize(sector)))

\* The blocks of the data area.
DareaSize(sectors, sector) ==
    U32(Quotient(sectors * sector, ClusterSize(sector)) - Reserved)

\* get_no_of_sectors, and format_device_to_lab for the super block; 512-byte
\* units are taken for sectors.
Format ==
    LET sectors == S32(dev.units)
        darea   == DareaSize(sectors, dev.sector)
    IN  /\ ~Formatted
        /\ sb' = [sectors |-> sectors, sector |-> dev.sector, darea |-> darea, free |-> darea]
        /\ UNCHANGED <<dev, sbi>>

\* lab4_fill_super
Mount == /\ Formatted /\ ~Mounted
         /\ LET cluster == ClusterSize(sb.sector)
            IN  sbi' = [cluster |-> cluster, start |-> U32(Reserved * cluster),
                        size |-> U32(sb.darea * cluster)]
         /\ UNCHANGED <<dev, sb>>

MaxBlock_Count == sb.darea

\* scan_allocate_dbmap: the blocks it may give out are those below.
MaxBlock == sbi.size \div sbi.cluster

\* i_blocks[0] as mkdir and do_write store it, and as lab4_lookup and
\* delete_block read it.
Address(b) == S32(b * sbi.cluster + sbi.start)

GeometryNext == Format \/ Mount

GeometrySpec == GeometryInit /\ [][GeometryNext]_geometryVars

-----------------------------------------------------------------------------
(* Properties.                                                             *)

\* Devices that are counted in what they are made of, with room for the root.
Plain == dev.sector = UnitBytes /\ RealClusters > Reserved

(***************************************************************************)
(* On a device with sectors of 512 bytes the blocks that the scan may give *)
(* out lie on the device, however its size wraps around on the way.        *)
(***************************************************************************)
ScanOnDevice == Mounted /\ Plain => MaxBlock <= RealClusters - Reserved

(***************************************************************************)
(* An address in the data area is that of the block's own cluster, of      *)
(* every block the scan may give out: no two blocks share a cluster, since *)
(* the size of the data area wraps around before the addresses do.  An     *)
(* address that is not in the data area is negative, or lies before it.    *)
(***************************************************************************)
AddressesTrue ==
    Mounted => \A b \in 0..(MaxBlock - 1) :
                   Address(b) >= sbi.start
                     => Address(b) = (Reserved + b) * ClusterSize(dev.sector)
=============================================================================
