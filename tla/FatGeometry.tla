---------------------------- MODULE FatGeometry ----------------------------
(***************************************************************************)
(* The layout of a FAT volume, as far as arithmetic on the fields of its   *)
(* boot sector goes: how many clusters there are, which of the three kinds *)
(* of FAT that makes, and at which byte a table, an entry, the root        *)
(* directory or a cluster begins.                                          *)
(*                                                                         *)
(* The numbers that the kinds, the sectors and the records have in the     *)
(* program are constants, so that small volumes of every kind exist.       *)
(* Where the code computes with checked_add and checked_mul, the test here *)
(* is made once, on the last and largest number.                           *)
(***************************************************************************)
EXTENDS Integers

CONSTANTS
    SectorSizes,        \* 512, 1024, 2048, 4096
    ClusterSizes,       \* 1, 2, 4 ... 128 sectors
    MinFat16, MinFat32, \* 4085 and 65525 clusters
    RecordSize,         \* bytes of a directory record
    BootSectorLen,
    Top                 \* the last number of 64 bits

ASSUME FatGeometryAssumption ==
    /\ SectorSizes \subseteq Nat \ {0} /\ ClusterSizes \subseteq Nat \ {0}
    /\ MinFat16 \in Nat \ {0} /\ MinFat32 \in Nat /\ MinFat16 <= MinFat32
    /\ RecordSize \in Nat \ {0} /\ BootSectorLen \in Nat \ {0} /\ Top \in Nat
    /\ \A size \in SectorSizes : size % RecordSize = 0

Kinds == {"FAT12", "FAT16", "FAT32"}

\* The fields of a boot sector.  oem, jump and sig matter to the probe only, fs_type
\* is what the string says; it stands where the kind it names has it.
Boot ==
    [oem : {"fat", "exfat", "none"}, jump : BOOLEAN, sig : BOOLEAN,
     bytes_per_sector : Nat, sectors_per_cluster : Nat, reserved_sectors : Nat,
     num_fats : Nat, root_entries : Nat, total_sectors_16 : Nat, media : Nat,
     fat_size_16 : Nat, total_sectors_32 : Nat, fat_size_32 : Nat,
     root_cluster : Nat, fsinfo_sector : Nat, backup_boot_sector : Nat,
     fs_type : Kinds \union {"none"}]

\* Zeros, or a sector the device did not give.
NoBoot ==
    [oem |-> "none", jump |-> FALSE, sig |-> FALSE,
     bytes_per_sector |-> 0, sectors_per_cluster |-> 0, reserved_sectors |-> 0,
     num_fats |-> 0, root_entries |-> 0, total_sectors_16 |-> 0, media |-> 0,
     fat_size_16 |-> 0, total_sectors_32 |-> 0, fat_size_32 |-> 0,
     root_cluster |-> 0, fsinfo_sector |-> 0, backup_boot_sector |-> 0, fs_type |-> "none"]

FatSize(b) == IF b.fat_size_16 # 0 THEN b.fat_size_16 ELSE b.fat_size_32
TotalSectors(b) ==
    IF b.total_sectors_16 # 0 THEN b.total_sectors_16 ELSE b.total_sectors_32

BpsOk(b) == b.bytes_per_sector \in SectorSizes
SpcOk(b) == b.sectors_per_cluster \in ClusterSizes

RootDirSectors(b) ==
    (b.root_entries * RecordSize + b.bytes_per_sector - 1) \div b.bytes_per_sector

\* Sectors in front of the data.
Meta(b) == b.num_fats * FatSize(b) + b.reserved_sectors + RootDirSectors(b)
ClusterCount(b) == (TotalSectors(b) - Meta(b)) \div b.sectors_per_cluster

KindOf(count) ==
    IF count < MinFat16 THEN "FAT12" ELSE IF count < MinFat32 THEN "FAT16" ELSE "FAT32"

FatStart(b, base) == b.reserved_sectors * b.bytes_per_sector + base
RootStart(b, base) ==
    (b.num_fats * FatSize(b) + b.reserved_sectors) * b.bytes_per_sector + base
DataStart(b, base) == RootStart(b, base) + RootDirSectors(b) * b.bytes_per_sector

Sized(b) == BpsOk(b) /\ SpcOk(b) /\ FatSize(b) # 0 /\ TotalSectors(b) # 0
LaidOut(b, base) == /\ Sized(b)
                    /\ Meta(b) <= TotalSectors(b)
                    /\ DataStart(b, base) <= Top

\* `blank`: the fields as they are, and nothing derived.
BlankGeom(b, base) ==
    [base |-> base, bps |-> b.bytes_per_sector, bpc |-> 0, fats |-> b.num_fats,
     fat_size |-> 0, total |-> 0, root_len |-> 0, count |-> 0,
     kind |-> "FAT12", root_cluster |-> b.root_cluster,
     fat_start |-> base, root_start |-> base, data_start |-> base, sane |-> FALSE]

Derive(b, base) ==
    IF ~ LaidOut(b, base) THEN BlankGeom(b, base)
    ELSE [base |-> base, bps |-> b.bytes_per_sector,
          bpc |-> b.sectors_per_cluster * b.bytes_per_sector, fats |-> b.num_fats,
          fat_size |-> FatSize(b), total |-> TotalSectors(b),
          root_len |-> RootDirSectors(b) * b.bytes_per_sector, count |-> ClusterCount(b),
          kind |-> KindOf(ClusterCount(b)), root_cluster |-> b.root_cluster,
          fat_start |-> FatStart(b, base), root_start |-> RootStart(b, base),
          data_start |-> DataStart(b, base), sane |-> ClusterCount(b) > 0]

Geom ==
    [base : Nat, bps : Nat, bpc : Nat, fats : Nat, fat_size : Nat, total : Nat,
     root_len : Nat, count : Nat, kind : Kinds, root_cluster : Nat,
     fat_start : Nat, root_start : Nat, data_start : Nat, sane : BOOLEAN]

Bigger(m, n) == IF m < n THEN n ELSE m
VolumeBytes(g) == Bigger(g.total * g.bps, BootSectorLen)

---------------------------------------------------------------------------
(* Clusters and entries of the tables; Over stands for None.               *)

Over == -1

\* Mutant: one cluster too many.
LastClusterTooFar(g) == g.count + 2

LastCluster(g) == g.count + 1

ClusterInRange(g, c) == g.sane /\ c \in 2 .. LastCluster(g)

\* Nothing here asks whether the volume has so many clusters.
ClusterToByte(g, c) ==
    IF g.sane /\ c >= 2 /\ (c - 2) * g.bpc + g.data_start <= Top
    THEN (c - 2) * g.bpc + g.data_start ELSE Over

FatBytes(g) == g.fat_size * g.bps
FatOffset(g, n) == n * FatBytes(g) + g.fat_start

EntryWidth(g) == IF g.kind = "FAT32" THEN 4 ELSE 2
FatEntryOffset(g, n, c) ==
    CASE g.kind = "FAT12" -> FatOffset(g, n) + c + c \div 2
      [] g.kind = "FAT16" -> FatOffset(g, n) + 2 * c
      [] g.kind = "FAT32" -> FatOffset(g, n) + 4 * c

EntryInTable(g, n, c) ==
    FatEntryOffset(g, n, c) + EntryWidth(g) <= FatOffset(g, n) + FatBytes(g)

\* The number in the bytes of an entry: 12 bits share a byte with their neighbour,
\* of 32 bits four are not part of it.
EntryValue(g, c, raw) ==
    CASE g.kind = "FAT12" /\ c % 2 = 1 -> (raw[1] + 256 * raw[2]) \div 16
      [] g.kind = "FAT12" /\ c % 2 = 0 -> (raw[1] + 256 * raw[2]) % 4096
      [] g.kind = "FAT16" -> raw[1] + 256 * raw[2]
      [] g.kind = "FAT32" ->
            raw[1] + 256 * raw[2] + 65536 * raw[3] + 16777216 * (raw[4] % 16)

\* The largest number of 12, 16 and 28 bits.
Mask(kind) == CASE kind = "FAT12" -> 4095 [] kind = "FAT16" -> 65535
                [] kind = "FAT32" -> 268435455
EocMin(kind) == Mask(kind) - 7
BadMark(kind) == Mask(kind) - 8

\* cluster_at_byte: whose entry stands there.
ClusterAtByte(kind, off) ==
    CASE kind = "FAT12" -> (off * 2) \div 3 [] kind = "FAT16" -> off \div 2
      [] kind = "FAT32" -> off \div 4
==========================================================================
