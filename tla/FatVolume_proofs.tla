-------------------------- MODULE FatVolume_proofs --------------------------
(***************************************************************************)
(* That whatever a boot sector says, no read for a table or a directory    *)
(* leaves its place, for every size of the device and every limit; that a  *)
(* directory is listed in the order of its chain; that a comparison of     *)
(* tables lists the first bytes that differ; and that nothing is said of a *)
(* volume that is whole.                                                   *)
(*                                                                         *)
(* The inductive invariant has the types of what is read from the device,  *)
(* and for the reader that the chain holds clusters of the volume, the     *)
(* runs lie in the data area or are the root, and a comparison is within   *)
(* the tables.  A second one counts, for every run, the records of the     *)
(* chain that lie in it and in the runs before; a third relates what was   *)
(* compared to what differs; and a fourth has, for every format that lies  *)
(* whole on the device, what the reader knows and has said of it.          *)
(***************************************************************************)
EXTENDS FatVolume, Selection_proofs

SectorsInv ==
    /\ \A x \in DOMAIN sectors : sectors[x] \in Boot
    /\ job = [format |-> job.format, pieces |-> job.pieces]
    /\ job.pieces # {} => job.format \in Boot /\ job.pieces \subseteq Pieces(job.format)
GeomInv == boot \in Boot /\ geom \in Geom

InData(r) == /\ r.at \in Nat /\ r.len \in Nat /\ geom.data_start <= r.at
             /\ r.at + r.len <= geom.data_start + geom.count * geom.bpc
IsRoot(r) == geom.kind # "FAT32" /\ r.at = geom.root_start /\ r.len = geom.root_len

ChainOf(g) == Seq(2 .. LastCluster(g))
DirInv ==
    /\ DOMAIN dir = DOMAIN NoDir /\ dir.next \in Nat \ {0} /\ dir.chain \in ChainOf(geom)
    /\ runs \in Seq([at : Nat, len : Nat])
    /\ \A i \in DOMAIN runs : InData(runs[i]) \/ IsRoot(runs[i])
    /\ stage \in {"walk", "extents"} => \A i \in DOMAIN runs : InData(runs[i])
    /\ stage = "probed" => dir.chain = <<>> /\ runs = <<>>

CmpInv ==
    /\ DOMAIN cmp = DOMAIN NoCmp /\ cmp.at \in Nat /\ cmp.copy \in 0 .. MaxCopies
    /\ stage = "compare with" => cmp.at < CompareEnd(geom)

Inv == SectorsInv /\ GeomInv /\ DirInv /\ CmpInv /\ ReadsInPlace

---------------------------------------------------------------------------
(* Geometry.                                                               *)

LEMMA NoBootType == NoBoot \in Boot
BY DEF NoBoot, Boot, Kinds

\* What follows from any boot sector are numbers.
LEMMA DeriveType ==
    ASSUME NEW b \in Boot
    PROVE  Derive(b, Base) \in Geom
<1> USE DEF Base
<1>1. /\ b.bytes_per_sector \in Nat /\ b.sectors_per_cluster \in Nat
      /\ b.reserved_sectors \in Nat /\ b.num_fats \in Nat /\ b.root_entries \in Nat
      /\ b.root_cluster \in Nat
      /\ FatSize(b) \in Nat /\ TotalSectors(b) \in Nat
  BY DEF Boot, FatSize, TotalSectors
<1>2. CASE ~ LaidOut(b, Base)
  BY <1>1, <1>2 DEF Derive, BlankGeom, Geom, Kinds
<1>3. CASE LaidOut(b, Base)
  <2>1. /\ b.bytes_per_sector \in Nat \ {0} /\ b.sectors_per_cluster \in Nat \ {0}
        /\ Meta(b) <= TotalSectors(b)
    BY <1>3, FatGeometryAssumption DEF LaidOut, Sized, BpsOk, SpcOk
  <2>2. RootDirSectors(b) \in Nat
    <3>1. RecordSize \in Nat BY FatGeometryAssumption
    <3>2. b.root_entries * RecordSize \in Nat BY <1>1, <3>1, MulNat
    <3>3. b.root_entries * RecordSize + b.bytes_per_sector - 1 \in Nat BY <2>1, <3>2
    <3> QED BY <2>1, <3>3, DivNat DEF RootDirSectors
  <2>3. b.num_fats * FatSize(b) \in Nat BY <1>1, MulNat
  <2>4. Meta(b) \in Nat BY <1>1, <2>2, <2>3 DEF Meta
  <2>5. ClusterCount(b) \in Nat BY <1>1, <2>1, <2>4, DivNat DEF ClusterCount
  <2>6. FatStart(b, Base) \in Nat BY <1>1, MulNat DEF FatStart
  <2>7. RootStart(b, Base) \in Nat BY <1>1, <2>3, MulNat DEF RootStart
  <2>8. RootDirSectors(b) * b.bytes_per_sector \in Nat BY <1>1, <2>2, MulNat
  <2>9. DataStart(b, Base) \in Nat BY <2>7, <2>8 DEF DataStart
  <2>10. b.sectors_per_cluster * b.bytes_per_sector \in Nat BY <1>1, MulNat
  <2>11. KindOf(ClusterCount(b)) \in Kinds BY DEF KindOf, Kinds
  <2> QED BY <1>1, <1>3, <2>5, <2>6, <2>7, <2>8, <2>9, <2>10, <2>11 DEF Derive, Geom
<1> QED BY <1>2, <1>3

\* A cluster of the volume lies in the data area in whole.
LEMMA ClusterInData ==
    ASSUME GeomInv, NEW c \in 2 .. LastCluster(geom), ClusterToByte(geom, c) # Over
    PROVE  InData([at |-> ClusterToByte(geom, c), len |-> geom.bpc])
<1> DEFINE d == c - 2
<1>1. /\ geom.count \in Nat /\ geom.bpc \in Nat /\ geom.data_start \in Nat
  BY DEF GeomInv, Geom
<1>2. d \in Nat /\ d + 1 <= geom.count BY <1>1 DEF LastCluster
<1>3. ClusterToByte(geom, c) = d * geom.bpc + geom.data_start BY DEF ClusterToByte
<1>4. PICK e \in Nat : geom.count = (d + 1) + e
  <2>1. geom.count - (d + 1) \in Nat BY <1>1, <1>2
  <2> QED BY <1>1, <1>2, <2>1
<1> HIDE DEF d
<1>5. geom.count * geom.bpc = d * geom.bpc + geom.bpc + e * geom.bpc BY <1>1, <1>2, <1>4
<1>6. d * geom.bpc \in Nat /\ e * geom.bpc \in Nat BY <1>1, <1>2, <1>4, MulNat
<1>7. geom.count * geom.bpc \in Nat BY <1>1, MulNat
<1> QED BY <1>1, <1>3, <1>5, <1>6, <1>7 DEF InData

\* The table of a volume, and an entry of it that is asked for.
LEMMA TableType ==
    ASSUME GeomInv, NEW n \in Nat
    PROVE  FatOffset(geom, n) \in Nat /\ FatBytes(geom) \in Nat
<1>1. geom.fat_start \in Nat /\ geom.fat_size \in Nat /\ geom.bps \in Nat BY DEF GeomInv, Geom
<1>2. FatBytes(geom) \in Nat BY <1>1, MulNat DEF FatBytes
<1>3. n * FatBytes(geom) \in Nat BY <1>2, MulNat
<1> QED BY <1>1, <1>2, <1>3 DEF FatOffset

LEMMA EntryInPlace ==
    ASSUME GeomInv, NEW c \in Nat, EntryInTable(geom, 0, c)
    PROVE  /\ FatOffset(geom, 0) <= FatEntryOffset(geom, 0, c)
           /\ FatEntryOffset(geom, 0, c) + EntryWidth(geom)
                <= FatOffset(geom, 0) + FatBytes(geom)
<1>1. FatOffset(geom, 0) \in Nat BY TableType
<1>2. geom.kind \in Kinds BY DEF GeomInv, Geom
<1>3. c \div 2 \in Nat BY DivNat
<1>4. CASE geom.kind = "FAT12" BY <1>1, <1>3, <1>4 DEF FatEntryOffset, EntryInTable
<1>5. CASE geom.kind = "FAT16" BY <1>1, <1>5 DEF FatEntryOffset, EntryInTable
<1>6. CASE geom.kind = "FAT32" BY <1>1, <1>6 DEF FatEntryOffset, EntryInTable
<1> QED BY <1>2, <1>4, <1>5, <1>6 DEF Kinds

---------------------------------------------------------------------------
(* What a step leaves alone.                                               *)

LEMMA SameDisk == ASSUME SectorsInv, UNCHANGED <<sectors, job>> PROVE SectorsInv'
BY DEF SectorsInv

LEMMA SameGeom == ASSUME GeomInv, UNCHANGED <<boot, geom>> PROVE GeomInv'
BY DEF GeomInv

LEMMA SameDir ==
    ASSUME DirInv, UNCHANGED <<dir, runs, geom>>,
           stage' = stage \/ stage' \notin {"walk", "extents", "probed"}
    PROVE  DirInv'
BY DEF DirInv, InData, IsRoot

LEMMA SameCmp ==
    ASSUME CmpInv, UNCHANGED <<cmp, geom>>, stage' = stage \/ stage' # "compare with"
    PROVE  CmpInv'
BY DEF CmpInv

LEMMA SameAsked == ASSUME ReadsInPlace, UNCHANGED <<asked, geom>> PROVE ReadsInPlace'
BY DEF ReadsInPlace, AskedWithin

LEMMA SectorAsked ==
    ASSUME NEW at, NEW len, Asked("sector", at, len)
    PROVE  ReadsInPlace'
BY DEF Asked, ReadsInPlace

LEMMA TableAsked ==
    ASSUME NEW n \in 0 .. MaxCopies, NEW at \in Int, NEW len \in Int,
           Asked("table", at, len), geom' = geom,
           FatOffset(geom, n) <= at, at + len <= FatOffset(geom, n) + FatBytes(geom)
    PROVE  ReadsInPlace'
<1>1. asked' = [what |-> "table", at |-> at, len |-> len] BY DEF Asked
<1>2. AskedWithin(FatOffset(geom, n), FatBytes(geom))' BY <1>1 DEF AskedWithin
<1> QED BY <1>1, <1>2 DEF ReadsInPlace

LEMMA EntryAsked ==
    ASSUME GeomInv, ReadsInPlace, NEW c \in Nat, AskedEntry(geom, 0, c), geom' = geom
    PROVE  ReadsInPlace'
<1>1. CASE EntryInTable(geom, 0, c)
  <2> DEFINE at == FatEntryOffset(geom, 0, c)
             len == EntryWidth(geom)
  <2>1. Asked("table", at, len) BY <1>1 DEF AskedEntry
  <2>2. at \in Int /\ len \in Int
    <3>1. FatOffset(geom, 0) \in Nat /\ geom.kind \in Kinds BY TableType DEF GeomInv, Geom
    <3>2. c \div 2 \in Nat BY DivNat
    <3> QED BY <3>1, <3>2 DEF FatEntryOffset, EntryWidth, Kinds
  <2>3. 0 \in 0 .. MaxCopies BY FatVolumeAssumption
  <2> QED BY <1>1, <2>1, <2>2, <2>3, EntryInPlace, TableAsked
<1>2. CASE ~ EntryInTable(geom, 0, c)
  BY <1>2, SameAsked DEF AskedEntry
<1> QED BY <1>1, <1>2

---------------------------------------------------------------------------
(* The invariant is inductive: the device.                                 *)

LEMMA DamagedType ==
    ASSUME NEW b \in Boot, NEW field \in DOMAIN DamagedFields, NEW v \in DamagedFields[field]
    PROVE  [b EXCEPT ![field] = v] \in Boot
<1>1. [NoBoot EXCEPT ![field] = v] \in Boot BY FatVolumeAssumption
<1>2. DOMAIN b = DOMAIN NoBoot BY DEF Boot, NoBoot
<1>3. CASE field \notin DOMAIN b
  <2>1. [b EXCEPT ![field] = v] = b BY <1>3 DEF Boot
  <2> QED BY <2>1
<1>4. CASE field \in DOMAIN b
  <2>1. field \in DOMAIN NoBoot BY <1>2, <1>4
  <2>2. [NoBoot EXCEPT ![field] = v][field] = v BY <2>1
  <2> QED BY <1>1, <2>1, <2>2 DEF Boot, NoBoot
<1> QED BY <1>3, <1>4

LEMMA PieceKeeps ==
    ASSUME SectorsInv, NEW f \in Boot, NEW p, WritePieceOf(f, p)
    PROVE  \A x \in DOMAIN sectors' : sectors'[x] \in Boot
<1> DEFINE Typed == \A x \in DOMAIN sectors' : sectors'[x] \in Boot
<1>1. ASSUME NEW at, sectors' = Put(sectors, at, f) PROVE Typed
  BY <1>1 DEF Put, Outside, SectorsInv
<1>2. ASSUME NEW at, NEW len, sectors' = Uncovered(sectors, at, len) PROVE Typed
  BY <1>2 DEF Uncovered, Outside, SectorsInv
<1> HIDE DEF Typed
<1>3. \/ \E at : sectors' = Put(sectors, at, f)
      \/ \E at, len : sectors' = Uncovered(sectors, at, len)
  BY DEF WritePieceOf
<1>4. Typed BY <1>1, <1>2, <1>3
<1> QED BY <1>4 DEF Typed

Others ==
    \/ \E f \in Formats : BeginFormat(f)
    \/ \E p \in job.pieces : WritePiece(p)
    \/ FormatterDies
    \/ \E n \in 0 .. 1, c \in Clusters, v \in EntryValues : DriverWrites(n, c, v)
    \/ \E field \in DOMAIN DamagedFields :
          \E v \in DamagedFields[field] : DamageField(field, v)
    \/ \E i \in 0 .. DeviceLen \div BootSectorLen - 1 : Refuse(BootSectorLen * i)

LEMMA OthersKeep == ASSUME Inv, Others PROVE Inv'
<1>1. UNCHANGED reader
  BY DEF Others, BeginFormat, WritePiece, FormatterDies, DriverWrites, DamageField, Refuse
<1>2. GeomInv' /\ DirInv' /\ CmpInv' /\ ReadsInPlace'
  BY <1>1, SameGeom, SameDir, SameCmp, SameAsked DEF Inv, reader, compared, opened
<1>3. SectorsInv'
  <2>1. ASSUME NEW f \in Formats, BeginFormat(f) PROVE SectorsInv'
    BY <2>1, FatVolumeAssumption DEF BeginFormat, Inv, SectorsInv
  <2>2. ASSUME NEW p \in job.pieces, WritePiece(p) PROVE SectorsInv'
    <3>1. job.format \in Boot /\ job.pieces \subseteq Pieces(job.format)
      BY DEF Inv, SectorsInv
    <3>2. \A x \in DOMAIN sectors' : sectors'[x] \in Boot
      BY <2>2, <3>1, PieceKeeps DEF WritePiece, Inv
    <3>3. job' = [format |-> job.format, pieces |-> job.pieces \ {p}]
      BY <2>2 DEF WritePiece, Inv, SectorsInv
    <3> QED BY <3>1, <3>2, <3>3 DEF SectorsInv
  <2>3. ASSUME FormatterDies PROVE SectorsInv'
    BY <2>3 DEF FormatterDies, Inv, SectorsInv
  <2>4. ASSUME NEW n \in 0 .. 1, NEW c \in Clusters, NEW v \in EntryValues, DriverWrites(n, c, v)
        PROVE  SectorsInv'
    BY <2>4, SameDisk DEF DriverWrites, Inv
  <2>5. ASSUME NEW field \in DOMAIN DamagedFields, NEW v \in DamagedFields[field],
               DamageField(field, v)
        PROVE  SectorsInv'
    <3>1. [sectors[Base] EXCEPT ![field] = v] \in Boot
      BY <2>5, DamagedType DEF DamageField, Inv, SectorsInv
    <3>2. sectors' = [sectors EXCEPT ![Base] = [sectors[Base] EXCEPT ![field] = v]]
      BY <2>5 DEF DamageField
    <3>3. job' = job BY <2>5 DEF DamageField
    <3> QED BY <3>1, <3>2, <3>3 DEF Inv, SectorsInv
  <2>6. ASSUME NEW x, Refuse(x) PROVE SectorsInv'
    BY <2>6, SameDisk DEF Refuse, Inv
  <2> QED BY <2>1, <2>2, <2>3, <2>4, <2>5, <2>6 DEF Others
<1> QED BY <1>2, <1>3 DEF Inv

---------------------------------------------------------------------------
(* The invariant is inductive: opening the volume.                         *)

LEMMA InvInit == Init => Inv
<1> SUFFICES ASSUME Init PROVE Inv OBVIOUS
<1>1. SectorsInv
  <2>1. PICK f \in Formats : \E X : sectors = [x \in X |-> f] BY DEF Init
  <2>2. f \in Boot BY FatVolumeAssumption
  <2>3. job = [format |-> NoBoot, pieces |-> {}] BY DEF Init
  <2> QED BY <2>1, <2>2, <2>3 DEF SectorsInv
<1>2. GeomInv BY NoBootType, DeriveType DEF Init, GeomInv
<1>3. DirInv
  <2>1. dir = NoDir /\ runs = <<>> /\ stage = "closed" BY DEF Init
  <2>2. dir.next = 1 /\ dir.chain = <<>> BY <2>1 DEF NoDir, NewDir
  <2>3. <<>> \in ChainOf(geom) /\ <<>> \in Seq([at : Nat, len : Nat]) BY DEF ChainOf
  <2> QED BY <2>1, <2>2, <2>3 DEF DirInv
<1>4. CmpInv
  <2>1. cmp = NoCmp /\ stage = "closed" BY DEF Init
  <2> QED BY <2>1, FatVolumeAssumption DEF CmpInv, NoCmp
<1>5. ReadsInPlace BY DEF Init, ReadsInPlace
<1> QED BY <1>1, <1>2, <1>3, <1>4, <1>5 DEF Inv

LEMMA BootType == ASSUME SectorsInv, NEW at PROVE BootAt(at) \in Boot
BY NoBootType DEF BootAt, SectorsInv

LEMMA OpenKeeps == ASSUME Inv, Open PROVE Inv'
<1>1. UNCHANGED <<sectors, job>>
  BY DEF Open, Probe, ReadBoot, ReadMedia, ReadInfo, ReadBackup, Close, disk
<1>2. SectorsInv' BY <1>1, SameDisk DEF Inv
<1>3. CASE Probe
  <2>1. UNCHANGED <<boot, geom, cmp>> /\ dir' = NoDir /\ runs' = <<>> /\ stage' = "probed"
    BY <1>3 DEF Probe
  <2>2. dir'.next = 1 /\ dir'.chain = <<>> BY <2>1 DEF NoDir, NewDir
  <2>3. <<>> \in ChainOf(geom)' /\ <<>> \in Seq([at : Nat, len : Nat]) BY DEF ChainOf
  <2>4. DirInv' BY <2>1, <2>2, <2>3 DEF DirInv, ChainOf
  <2>5. ReadsInPlace' BY <1>3, SectorAsked DEF Probe
  <2> QED BY <1>2, <2>1, <2>4, <2>5, SameGeom, SameCmp DEF Inv
<1>4. CASE ReadBoot
  <2>1. UNCHANGED <<cmp, dir, runs>> /\ stage = "probed" /\ stage' = "media"
    BY <1>4 DEF ReadBoot, compared, opened
  <2>2. GeomInv' BY <1>4, BootType, DeriveType DEF ReadBoot, GeomInv, Inv
  <2>3. dir.chain = <<>> /\ runs = <<>> BY <2>1 DEF Inv, DirInv
  <2>4. <<>> \in ChainOf(geom)' BY DEF ChainOf
  <2>5. DirInv' BY <2>1, <2>3, <2>4 DEF Inv, DirInv, ChainOf
  <2>6. CmpInv' BY <2>1 DEF Inv, CmpInv
  <2>7. ReadsInPlace' BY <1>4, SectorAsked DEF ReadBoot
  <2> QED BY <1>2, <2>2, <2>5, <2>6, <2>7 DEF Inv
<1>5. CASE ReadMedia
  <2>1. UNCHANGED <<boot, geom, cmp, dir, runs>> /\ stage' \in {"info", "tree"}
    BY <1>5 DEF ReadMedia, compared, opened
  <2>2. AskedEntry(geom, 0, 0) \/ UNCHANGED asked BY <1>5 DEF ReadMedia
  <2>3. ReadsInPlace' BY <2>1, <2>2, EntryAsked, SameAsked DEF Inv
  <2> QED BY <1>2, <2>1, <2>3, SameGeom, SameDir, SameCmp DEF Inv
<1>6. CASE ReadInfo
  <2>1. UNCHANGED <<boot, geom, cmp, dir, runs>> /\ stage' = "backup"
    BY <1>6 DEF ReadInfo, compared, opened
  <2>2. ReadsInPlace' BY <1>6, SectorAsked DEF ReadInfo
  <2> QED BY <1>2, <2>1, <2>2, SameGeom, SameDir, SameCmp DEF Inv
<1>7. CASE ReadBackup
  <2>1. UNCHANGED <<boot, geom, cmp, dir, runs>> /\ stage' = "tree"
    BY <1>7 DEF ReadBackup, compared, opened
  <2>2. (\E at : Asked("sector", at, BootSectorLen)) \/ UNCHANGED asked BY <1>7 DEF ReadBackup
  <2>3. ReadsInPlace' BY <2>1, <2>2, SectorAsked, SameAsked DEF Inv
  <2> QED BY <1>2, <2>1, <2>3, SameGeom, SameDir, SameCmp DEF Inv
<1>8. CASE Close
  BY <1>2, <1>8, SameGeom, SameDir, SameCmp, SameAsked DEF Inv, Close, compared, opened
<1> QED BY <1>3, <1>4, <1>5, <1>6, <1>7, <1>8 DEF Open

---------------------------------------------------------------------------
(* The invariant is inductive: comparing the tables.                       *)

LEMMA CopyInRange == ASSUME NEW n \in Copies(geom), GeomInv PROVE n \in 0 .. MaxCopies
<1>1. geom.fats \in Nat /\ MaxCopies \in Nat BY FatVolumeAssumption DEF GeomInv, Geom
<1> QED BY <1>1 DEF Copies, Min2

Fresh(n) == [copy |-> n, at |-> 0, left |-> <<>>, diffs |-> <<>>]

LEMMA NextCopy ==
    ASSUME NEW n \in 0 .. MaxCopies, cmp' = Fresh(n), stage' # "compare with"
    PROVE  CmpInv'
BY DEF CmpInv, NoCmp, Fresh

LEMMA StoppedKeeps ==
    ASSUME GeomInv, NEW n, NEW at, NEW diffs, NEW refusal, Stopped(n, at, diffs, refusal)
    PROVE  CmpInv' /\ stage' \in {"compare", "tree"}
<1>1. 0 \in 0 .. MaxCopies BY FatVolumeAssumption
<1>2. CASE n + 1 \in Copies(geom)
  <2>1. cmp' = Fresh(n + 1) /\ stage' = "compare" BY <1>2 DEF Stopped, Fresh, NoCmp
  <2> QED BY <1>2, <2>1, CopyInRange, NextCopy
<1>3. CASE n + 1 \notin Copies(geom)
  <2>1. cmp' = Fresh(0) /\ stage' = "tree" BY <1>3 DEF Stopped, Fresh, NoCmp
  <2> QED BY <1>1, <2>1, NextCopy
<1> QED BY <1>2, <1>3 DEF Stopped

\* A chunk lies within the table, wherever the comparison has come to.
LEMMA ChunkInPlace ==
    ASSUME GeomInv, CmpInv, cmp.at < CompareEnd(geom), NEW n \in 0 .. MaxCopies,
           Asked("table", FatOffset(geom, n) + cmp.at, Want), geom' = geom
    PROVE  ReadsInPlace' /\ Want \in Nat
<1>1. FatOffset(geom, n) \in Nat /\ FatBytes(geom) \in Nat
  <2>1. n \in Nat BY FatVolumeAssumption
  <2> QED BY <2>1, TableType
<1>2. cmp.at \in Nat BY DEF CmpInv
<1>3. CompareLimit \in Nat /\ CompareChunk \in Nat BY FatVolumeAssumption
<1>4. CompareEnd(geom) \in Nat /\ CompareEnd(geom) <= FatBytes(geom)
  BY <1>1, <1>3 DEF CompareEnd, Min2
<1>5. Want \in Nat /\ cmp.at + Want <= CompareEnd(geom) BY <1>2, <1>3, <1>4 DEF Want, Min2
<1> HIDE DEF Want
<1> QED BY <1>1, <1>2, <1>4, <1>5, TableAsked

LEMMA CompareKeeps == ASSUME Inv, Compare PROVE Inv'
<1>1. UNCHANGED <<sectors, job, boot, geom, dir, runs>>
  BY DEF Compare, OpenMirror, CompareLeft, CompareRight, EndCompare, disk, opened
<1>2. SectorsInv' /\ GeomInv' BY <1>1, SameDisk, SameGeom DEF Inv
<1>3. CASE OpenMirror
  <2>1. 1 \in 0 .. MaxCopies BY FatVolumeAssumption
  <2>2. cmp' = Fresh(1) /\ stage' = "compare" BY <1>3 DEF OpenMirror, Fresh, NoCmp
  <2>3. CmpInv' BY <2>1, <2>2, NextCopy
  <2> QED BY <1>1, <1>2, <1>3, <2>3, SameDir, SameAsked DEF Inv, OpenMirror
<1>4. CASE CompareLeft
  <2>1. cmp' = [cmp EXCEPT !.left = cmp'.left] /\ stage' = "compare with"
    BY <1>4 DEF CompareLeft, Inv, CmpInv, NoCmp
  <2>2. cmp.at < CompareEnd(geom) BY <1>4 DEF CompareLeft, Scanning
  <2>3. CmpInv' BY <1>1, <2>1, <2>2 DEF Inv, CmpInv, NoCmp
  <2>4. 0 \in 0 .. MaxCopies BY FatVolumeAssumption
  <2>5. ReadsInPlace' BY <1>1, <1>4, <2>2, <2>4, ChunkInPlace DEF CompareLeft, Inv
  <2> QED BY <1>1, <1>2, <2>1, <2>3, <2>5, SameDir DEF Inv
<1>5. CASE CompareRight
  <2>1. cmp.at < CompareEnd(geom) /\ cmp.copy \in 0 .. MaxCopies
    BY <1>5 DEF CompareRight, Inv, CmpInv
  <2>2. ReadsInPlace' /\ Want \in Nat
    BY <1>1, <1>5, <2>1, ChunkInPlace DEF CompareRight, Inv
  <2>3. \/ \E at, diffs, refusal : Stopped(cmp.copy, at, diffs, refusal)
        \/ /\ \E diffs : cmp' = [cmp EXCEPT !.at = cmp.at + Want, !.left = <<>>, !.diffs = diffs]
           /\ stage' = "compare"
    BY <1>5, Zenon DEF CompareRight
  <2>4. CASE \E at, diffs, refusal : Stopped(cmp.copy, at, diffs, refusal)
    BY <1>1, <1>2, <2>2, <2>4, StoppedKeeps, SameDir DEF Inv
  <2>5. CASE /\ \E diffs : cmp' = [cmp EXCEPT !.at = cmp.at + Want, !.left = <<>>, !.diffs = diffs]
             /\ stage' = "compare"
    <3>1. cmp'.at = cmp.at + Want /\ cmp'.copy = cmp.copy /\ DOMAIN cmp' = DOMAIN cmp
      BY <2>5 DEF Inv, CmpInv, NoCmp
    <3>2. cmp'.at \in Nat
      <4>1. cmp.at \in Nat BY DEF Inv, CmpInv
      <4>2. Want \in Nat BY <2>2
      <4> QED BY <3>1, <4>1, <4>2
    <3>3. CmpInv' BY <2>1, <2>5, <3>1, <3>2 DEF Inv, CmpInv
    <3> QED BY <1>1, <1>2, <2>2, <2>5, <3>3, SameDir DEF Inv
  <2> QED BY <2>3, <2>4, <2>5
<1>6. CASE EndCompare
  <2>1. CmpInv' /\ stage' \in {"compare", "tree"} BY <1>6, StoppedKeeps DEF EndCompare, Inv
  <2> QED BY <1>1, <1>2, <1>6, <2>1, SameDir, SameAsked DEF Inv, EndCompare
<1> QED BY <1>3, <1>4, <1>5, <1>6 DEF Compare

---------------------------------------------------------------------------
(* The invariant is inductive: a directory.                                *)

\* A walk that begins.
LEMMA WalkBegins ==
    ASSUME DirInv, geom' = geom, runs' = <<>>, stage' \in {"walk", "tree"},
           dir' = NoDir \/ \E c : dir' = NewDir(c)
    PROVE  DirInv'
<1>1. DOMAIN dir' = DOMAIN NoDir /\ dir'.next = 1 /\ dir'.chain = <<>>
  <2>1. CASE dir' = NoDir BY <2>1 DEF NoDir, NewDir
  <2>2. ASSUME NEW c, dir' = NewDir(c)
        PROVE  DOMAIN dir' = DOMAIN NoDir /\ dir'.next = 1 /\ dir'.chain = <<>>
    BY <2>2 DEF NoDir, NewDir
  <2> QED BY <2>1, <2>2
<1>2. <<>> \in ChainOf(geom') /\ <<>> \in Seq([at : Nat, len : Nat]) BY DEF ChainOf
<1> QED BY <1>1, <1>2 DEF DirInv

LEMMA OpenRootKeeps == ASSUME Inv, OpenRoot PROVE Inv'
<1>1. UNCHANGED <<sectors, job, boot, geom, cmp, asked>> /\ stage' # "compare with"
  BY DEF OpenRoot, disk, compared
<1>2. SectorsInv' /\ GeomInv' /\ CmpInv' /\ ReadsInPlace'
  BY <1>1, SameDisk, SameGeom, SameCmp, SameAsked DEF Inv
<1>3. CASE geom.kind = "FAT32"
  <2>1. /\ runs' = <<>> /\ stage' \in {"walk", "tree"}
        /\ dir' = NoDir \/ dir' = NewDir(geom.root_cluster)
    BY <1>3 DEF OpenRoot
  <2>2. DirInv' BY <1>1, <2>1, WalkBegins DEF Inv
  <2> QED BY <1>2, <2>2 DEF Inv
<1>4. CASE geom.kind # "FAT32"
  <2> DEFINE r == [at |-> geom.root_start, len |-> geom.root_len]
  <2>1. runs' = <<r>> /\ dir' = NoDir /\ stage' = "read" BY <1>4 DEF OpenRoot
  <2>2. r \in [at : Nat, len : Nat] BY DEF Inv, GeomInv, Geom
  <2>3. r.at = geom'.root_start /\ r.len = geom'.root_len /\ geom'.kind # "FAT32"
    BY <1>1, <1>4
  <2> HIDE DEF r
  <2>4. runs' \in Seq([at : Nat, len : Nat]) /\ \A i \in DOMAIN runs' : runs'[i] = r
    BY <2>1, <2>2
  <2>5. DOMAIN dir' = DOMAIN NoDir /\ dir'.next = 1 /\ dir'.chain = <<>> BY <2>1 DEF NoDir, NewDir
  <2>6. <<>> \in ChainOf(geom') BY DEF ChainOf
  <2>7. (\A i \in DOMAIN runs : IsRoot(runs[i]))' BY <2>3, <2>4 DEF IsRoot
  <2>8. DirInv' BY <2>1, <2>4, <2>5, <2>6, <2>7 DEF DirInv, ChainOf
  <2> QED BY <1>2, <2>8 DEF Inv
<1> QED BY <1>3, <1>4

LEMMA OpenDirectoryKeeps == ASSUME Inv, NEW c, OpenDirectory(c) PROVE Inv'
<1>1. /\ UNCHANGED <<sectors, job, boot, geom, cmp, asked>>
      /\ stage' = "walk" /\ dir' = NewDir(c) /\ runs' = <<>>
  BY DEF OpenDirectory, disk, compared
<1> QED BY <1>1, SameDisk, SameGeom, SameCmp, SameAsked, WalkBegins DEF Inv

\* Only clusters of the volume get into the chain.
LEMMA WalkKeeps == ASSUME Inv, Walk PROVE Inv'
<1>1. UNCHANGED <<sectors, job, boot, geom, cmp, runs>> /\ stage = "walk"
  BY DEF Walk, disk, compared
<1>2. stage' \in {"walk", "extents"} BY <1>1 DEF Walk, WalkEnds
<1>3. SectorsInv' /\ GeomInv' /\ CmpInv' BY <1>1, <1>2, SameDisk, SameGeom, SameCmp DEF Inv
<1> DEFINE c == dir.cur
<1>4. DOMAIN dir = DOMAIN NoDir /\ dir.chain \in ChainOf(geom) BY DEF Inv, DirInv
<1>5. ASSUME dir'.chain \in ChainOf(geom), DOMAIN dir' = DOMAIN dir, dir'.next = dir.next
      PROVE  DirInv'
  BY <1>1, <1>2, <1>5 DEF Inv, DirInv, InData, IsRoot
<1>6. CASE \E end : WalkEnds(end) /\ UNCHANGED asked
  <2>1. dir'.chain = dir.chain /\ DOMAIN dir' = DOMAIN dir /\ dir'.next = dir.next
    BY <1>4, <1>6 DEF WalkEnds, NoDir, NewDir
  <2> QED BY <1>1, <1>3, <1>4, <1>5, <1>6, <2>1, SameAsked DEF Inv
<1>7. CASE /\ ClusterInRange(geom, c) /\ AskedEntry(geom, 0, c)
           /\ dir'.chain = Append(dir.chain, c)
           /\ DOMAIN dir' = DOMAIN dir /\ dir'.next = dir.next
  <2>1. c \in 2 .. LastCluster(geom) BY <1>7 DEF ClusterInRange
  <2>2. c \in Nat
    <3>1. LastCluster(geom) \in Nat BY DEF Inv, GeomInv, Geom, LastCluster
    <3> QED BY <2>1, <3>1
  <2>3. dir'.chain \in ChainOf(geom) BY <1>4, <1>7, <2>1 DEF ChainOf
  <2>4. ReadsInPlace' BY <1>1, <1>7, <2>2, EntryAsked DEF Inv
  <2> QED BY <1>3, <1>5, <1>7, <2>3, <2>4 DEF Inv
<1>8. \/ \E end : WalkEnds(end) /\ UNCHANGED asked
      \/ /\ ClusterInRange(geom, c) /\ AskedEntry(geom, 0, c)
         /\ dir'.chain = Append(dir.chain, c)
         /\ DOMAIN dir' = DOMAIN dir /\ dir'.next = dir.next
  <2> DEFINE more == [dir EXCEPT !.chain = Append(dir.chain, c)]
  <2>1. /\ more.chain = Append(dir.chain, c) /\ DOMAIN more = DOMAIN dir
        /\ more.next = dir.next
    BY <1>4 DEF NoDir, NewDir
  <2>2. ASSUME NEW m, m = more, NEW v
        PROVE  /\ [m EXCEPT !.cur = v].chain = m.chain /\ [m EXCEPT !.end = v].chain = m.chain
               /\ [m EXCEPT !.cur = v].next = m.next /\ [m EXCEPT !.end = v].next = m.next
               /\ DOMAIN [m EXCEPT !.cur = v] = DOMAIN m
               /\ DOMAIN [m EXCEPT !.end = v] = DOMAIN m
    <3>1. DOMAIN [m EXCEPT !.cur = v] = DOMAIN m /\ DOMAIN [m EXCEPT !.end = v] = DOMAIN m
      OBVIOUS
    <3>2. {"chain", "next"} \subseteq DOMAIN m
      BY <1>4, <2>1, <2>2 DEF NoDir, NewDir
    <3> QED BY <3>1, <3>2
  <2>3. \/ \E end : WalkEnds(end) /\ UNCHANGED asked
        \/ /\ ClusterInRange(geom, c) /\ AskedEntry(geom, 0, c)
           /\ \E v : dir' = [more EXCEPT !.cur = v] \/ dir' = [more EXCEPT !.end = v]
    BY Zenon DEF Walk
  <2>4. \A v : /\ [more EXCEPT !.cur = v].chain = more.chain
               /\ [more EXCEPT !.end = v].chain = more.chain
               /\ [more EXCEPT !.cur = v].next = more.next
               /\ [more EXCEPT !.end = v].next = more.next
               /\ DOMAIN [more EXCEPT !.cur = v] = DOMAIN more
               /\ DOMAIN [more EXCEPT !.end = v] = DOMAIN more
    <3> HIDE DEF more
    <3> QED BY ONLY <2>2
  <2> HIDE DEF more
  <2> QED BY ONLY <2>1, <2>3, <2>4
<1> QED BY <1>6, <1>7, <1>8

\* The next cluster of the chain, behind the last run or as a run of its own.
LEMMA ExtendKeeps == ASSUME Inv, Extend PROVE Inv'
<1>1. UNCHANGED <<sectors, job, boot, geom, cmp, asked, stage>> /\ stage = "extents"
  BY DEF Extend, disk, compared
<1>2. SectorsInv' /\ GeomInv' /\ CmpInv' /\ ReadsInPlace'
  BY <1>1, SameDisk, SameGeom, SameCmp, SameAsked DEF Inv
<1> DEFINE at == ClusterToByte(geom, dir.chain[dir.next])
           last == runs[Len(runs)]
           new == [at |-> at, len |-> geom.bpc]
           joined == [at |-> last.at, len |-> last.len + geom.bpc]
           Run == [at : Nat, len : Nat]
<1>3. /\ runs \in Seq(Run) /\ \A i \in DOMAIN runs : InData(runs[i])
      /\ DOMAIN dir = DOMAIN NoDir /\ dir.chain \in ChainOf(geom) /\ dir.next \in Nat \ {0}
  BY <1>1 DEF Inv, DirInv
<1>4. DOMAIN dir' = DOMAIN dir /\ dir'.chain = dir.chain /\ dir'.next = dir.next + 1
  <2>1. \/ dir' = [dir EXCEPT !.next = dir.next + 1]
        \/ \E t : dir' = [dir EXCEPT !.next = dir.next + 1, !.taken = t]
    BY Zenon DEF Extend
  <2> QED BY <1>3, <2>1 DEF NoDir, NewDir
<1>5. ASSUME runs' \in Seq(Run), \A i \in DOMAIN runs' : InData(runs'[i])
      PROVE  Inv'
  <2>1. DirInv' BY <1>1, <1>3, <1>4, <1>5 DEF DirInv, InData
  <2> QED BY <1>2, <2>1 DEF Inv
<1>6. CASE at = Over
  <2>1. runs' = runs BY <1>6 DEF Extend
  <2> QED BY <1>3, <1>5, <2>1
<1>7. CASE at # Over
  <2>1. dir.chain[dir.next] \in 2 .. LastCluster(geom)
    <3>1. dir.next <= Len(dir.chain) BY DEF Extend
    <3> QED BY <1>3, <3>1, Element DEF ChainOf
  <2>2. InData(new) BY <1>7, <2>1, ClusterInData DEF Inv
  <2>3. \/ /\ runs # <<>> /\ Joins(last, at)
           /\ runs' = [runs EXCEPT ![Len(runs)] = joined]
        \/ runs' = Append(runs, new)
    BY <1>7 DEF Extend
  <2>4. geom.data_start \in Nat /\ geom.count * geom.bpc \in Nat /\ geom.bpc \in Nat
    BY MulNat DEF Inv, GeomInv, Geom
  <2>5. CASE runs # <<>> /\ Joins(last, at) /\ runs' = [runs EXCEPT ![Len(runs)] = joined]
    <3>1. Len(runs) \in DOMAIN runs BY <1>3, <2>5
    <3>2. InData(last) BY <1>3, <3>1
    <3>3. joined \in Run /\ InData(joined)
      BY <2>2, <2>4, <2>5, <3>2 DEF InData, Joins
    <3> HIDE DEF joined, Run
    <3>4. runs' \in Seq(Run) BY <1>3, <2>5, <3>3
    <3>5. \A i \in DOMAIN runs' : InData(runs'[i]) BY <1>3, <2>5, <3>3
    <3> QED BY <1>5, <3>4, <3>5
  <2>6. CASE runs' = Append(runs, new)
    <3>1. new \in Run BY <2>2 DEF InData
    <3> HIDE DEF new, Run
    <3>2. runs' \in Seq(Run) BY <1>3, <2>6, <3>1
    <3>3. \A i \in DOMAIN runs' : InData(runs'[i]) BY <1>3, <2>2, <2>6, <3>1
    <3> QED BY <1>5, <3>2, <3>3
  <2> QED BY <2>3, <2>5, <2>6
<1> QED BY <1>6, <1>7

LEMMA ReadRunKeeps == ASSUME Inv, ReadRun PROVE Inv'
<1> DEFINE run == runs[dir.next]
           want == Min2(run.len, MaxDirBytes)
<1>1. /\ UNCHANGED <<sectors, job, boot, geom, cmp, runs>> /\ stage = "read"
      /\ stage' \in {"read", "tree"}
  BY DEF ReadRun, disk, compared
<1>2. SectorsInv' /\ GeomInv' /\ CmpInv' BY <1>1, SameDisk, SameGeom, SameCmp DEF Inv
<1>3. /\ dir.next \in DOMAIN runs /\ run \in [at : Nat, len : Nat]
      /\ InData(run) \/ IsRoot(run)
  <2>1. /\ dir.next \in Nat \ {0} /\ runs \in Seq([at : Nat, len : Nat])
        /\ \A i \in DOMAIN runs : InData(runs[i]) \/ IsRoot(runs[i])
    BY DEF Inv, DirInv
  <2>2. dir.next <= Len(runs) BY DEF ReadRun
  <2>3. dir.next \in DOMAIN runs /\ run \in [at : Nat, len : Nat] BY <2>1, <2>2, Element
  <2> HIDE DEF run
  <2> QED BY <2>1, <2>3 DEF run
<1>4. want <= run.len /\ want \in Nat
  <2>1. MaxDirBytes \in Nat
    BY FatVolumeAssumption, FatGeometryAssumption, MulNat DEF MaxDirBytes
  <2> QED BY <1>3, <2>1 DEF Min2
<1>5. ReadsInPlace'
  <2>1. asked' = [what |-> "directory", at |-> run.at, len |-> want]
    BY DEF ReadRun, Asked
  <2> HIDE DEF want
  <2>2. CASE InData(run)
    <3>1. geom.data_start \in Nat /\ geom.count * geom.bpc \in Nat
      BY MulNat DEF Inv, GeomInv, Geom
    <3>2. AskedWithin(geom.data_start, geom.count * geom.bpc)'
      BY <1>1, <1>4, <2>1, <2>2, <3>1 DEF AskedWithin, InData
    <3> QED BY <2>1, <3>2 DEF ReadsInPlace
  <2>3. CASE IsRoot(run)
    <3>1. AskedWithin(geom.root_start, geom.root_len)'
      BY <1>1, <1>3, <1>4, <2>1, <2>3 DEF AskedWithin, IsRoot
    <3>2. geom'.kind # "FAT32" BY <1>1, <2>3 DEF IsRoot
    <3> QED BY <2>1, <3>1, <3>2 DEF ReadsInPlace
  <2> QED BY <1>3, <2>2, <2>3
<1>6. DirInv'
  <2>1. dir' = dir \/ dir' = [dir EXCEPT !.next = dir.next + 1] BY DEF ReadRun
  <2>2. DOMAIN dir' = DOMAIN dir /\ dir'.chain = dir.chain /\ dir'.next \in Nat \ {0}
    BY <2>1 DEF Inv, DirInv, NoDir, NewDir
  <2> QED BY <1>1, <2>2 DEF Inv, DirInv, InData, IsRoot
<1> QED BY <1>2, <1>5, <1>6 DEF Inv

LEMMA ListKeeps == ASSUME Inv, List PROVE Inv'
<1>1. CASE Extended
  <2>1. UNCHANGED <<sectors, job, boot, geom, cmp, asked, runs>> /\ stage' \in {"tree", "read"}
    BY <1>1 DEF Extended, disk, compared
  <2>2. dir' = [dir EXCEPT !.next = 1] BY <1>1 DEF Extended
  <2>3. DOMAIN dir' = DOMAIN dir /\ dir'.chain = dir.chain /\ dir'.next = 1
    BY <2>2 DEF Inv, DirInv, NoDir, NewDir
  <2>4. DirInv' BY <2>1, <2>3 DEF Inv, DirInv, InData, IsRoot
  <2> QED BY <2>1, <2>4, SameDisk, SameGeom, SameCmp, SameAsked DEF Inv
<1>2. CASE Listed
  <2>1. /\ UNCHANGED <<sectors, job, boot, geom, cmp, asked, runs, dir>>
        /\ stage' = "tree"
    BY <1>2 DEF Listed, disk, compared, opened
  <2> QED BY <2>1, SameDisk, SameGeom, SameDir, SameCmp, SameAsked DEF Inv
<1> QED BY <1>1, <1>2, WalkKeeps, ExtendKeeps, ReadRunKeeps DEF List

---------------------------------------------------------------------------
(* The invariant holds, and what follows.                                  *)

LEMMA Unchanged ==
    ASSUME Inv, UNCHANGED <<sectors, job, stage, boot, geom, cmp, dir, runs, asked>>
    PROVE  Inv'
BY SameDisk, SameGeom, SameDir, SameCmp, SameAsked DEF Inv

\* A preview of a table that has the entries shown is within its copy.
LEMMA PreviewInPlace ==
    ASSUME Inv, NEW n \in 0 .. MaxCopies - 1, AskedPreview(geom, n), geom' = geom
    PROVE  ReadsInPlace'
<1> DEFINE last == LastShown(geom)
           at == FatOffset(geom, n)
           len == FatEntryOffset(geom, n, last) + EntryWidth(geom) - FatOffset(geom, n)
<1>1. asked' = [what |-> "preview", at |-> at, len |-> len]
  BY DEF AskedPreview, Asked
<1>2. n \in 0 .. MaxCopies /\ n \in Nat BY FatVolumeAssumption
<1>3. GeomInv /\ geom.kind \in Kinds /\ geom.count \in Nat BY DEF Inv, GeomInv, Geom
<1>4. last \in Nat BY <1>3, FatVolumeAssumption DEF LastShown, LastCluster, Min2
<1>5. at \in Nat /\ FatOffset(geom, 0) \in Nat /\ FatBytes(geom) \in Nat
  BY <1>2, <1>3, TableType
<1>6. last \div 2 \in Nat BY <1>4, DivNat
<1>7. EntryInTable(geom, 0, last) => at <= at /\ at + len <= at + FatBytes(geom)
  <2> HIDE DEF last
  <2>1. CASE geom.kind = "FAT12"
    BY <1>4, <1>5, <1>6, <2>1 DEF FatEntryOffset, EntryInTable, EntryWidth
  <2>2. CASE geom.kind = "FAT16"
    BY <1>4, <1>5, <2>2 DEF FatEntryOffset, EntryInTable, EntryWidth
  <2>3. CASE geom.kind = "FAT32"
    BY <1>4, <1>5, <2>3 DEF FatEntryOffset, EntryInTable, EntryWidth
  <2> QED BY <1>3, <2>1, <2>2, <2>3 DEF Kinds
<1>8. asked'.what = "preview" /\ asked'.at = at /\ asked'.len = len BY <1>1
<1> HIDE DEF len, at
<1>9. EntryInTable(geom, 0, last) => AskedWithin(FatOffset(geom, n), FatBytes(geom))'
  BY <1>7, <1>8 DEF AskedWithin, at
<1>10. asked'.what # "table" /\ asked'.what # "directory" BY <1>8
<1> QED BY <1>2, <1>8, <1>9, <1>10 DEF ReadsInPlace

LEMMA PreviewKeeps ==
    ASSUME Inv, NEW n \in 0 .. MaxCopies - 1, PreviewTable(n)
    PROVE  Inv'
<1>1. /\ UNCHANGED <<sectors, job, stage, boot, geom, cmp, dir, runs>>
      /\ AskedPreview(geom, n)
  BY DEF PreviewTable, disk, compared, opened
<1>2. SectorsInv' /\ GeomInv' /\ DirInv' /\ CmpInv'
  BY <1>1, SameDisk, SameGeom, SameDir, SameCmp DEF Inv
<1> QED BY <1>1, <1>2, PreviewInPlace DEF Inv

LEMMA InvNext == Inv /\ [Next]_vars => Inv'
<1> SUFFICES ASSUME Inv, [Next]_vars PROVE Inv' OBVIOUS
<1>1. CASE Next
  <2>1. ASSUME NEW n \in 0 .. MaxCopies - 1, n < geom.fats /\ PreviewTable(n)
        PROVE  Inv'
    BY <2>1, PreviewKeeps
  <2> QED
    BY <1>1, <2>1, OpenKeeps, CompareKeeps, ListKeeps, OpenRootKeeps, OpenDirectoryKeeps,
       OthersKeep
    DEF Next, Others
<1>2. CASE UNCHANGED vars
  BY <1>2, Unchanged DEF vars, disk, compared, opened
<1> QED BY <1>1, <1>2

\* In every run, the reader's chain holds clusters of the volume, its runs lie in the data
\* area or are the fixed root, and a comparison is within the tables, whatever boot sector
\* was read (Geometry::derive, follow_chain, DirExpander::expand, compare_fats).
THEOREM ReaderInPlace == Spec => []Inv
<1> QED BY InvInit, InvNext, PTL DEF Spec

\* In every run, whatever the boot sector says and whoever writes meanwhile, no read of a
\* link or for a comparison leaves one copy of the table, none of a preview does if the table
\* has the entries shown, and none for a directory leaves the clusters of the volume or the
\* fixed root (fat_entry, cluster_to_byte, compare_fats, DirExpander::expand).
THEOREM AlwaysReadsInPlace == Spec => []ReadsInPlace
<1>1. Inv => ReadsInPlace BY DEF Inv
<1> QED BY <1>1, ReaderInPlace, PTL
---------------------------------------------------------------------------
(* Records of a directory: where each of them is, and which a run covers.  *)

Per(g) == g.bpc \div RecordSize

\* The i-th record of the root area, or of a chain.
RecordAt(g, start, chain, i) ==
    IF start = 0 THEN g.root_start + (i - 1) * RecordSize
    ELSE ClusterToByte(g, chain[1 + (i - 1) \div Per(g)]) + ((i - 1) % Per(g)) * RecordSize
Total(g, start, chain) ==
    IF start = 0 THEN g.root_len \div RecordSize ELSE Len(chain) * Per(g)
Records(g, start, chain, n) == [i \in 1 .. n |-> RecordAt(g, start, chain, i)]

\* The records of a run follow the first `from` and end with the record `to`.
Covers(g, start, chain, run, from, to) ==
    /\ from <= to /\ run.len = (to - from) * RecordSize
    /\ \A r \in 0 .. to - from - 1 :
          RecordAt(g, start, chain, from + 1 + r) = run.at + r * RecordSize

\* With the run j the records end that e[j] counts.
Laid(g, start, chain, rs, e) ==
    /\ e \in [0 .. Len(rs) -> Nat] /\ e[0] = 0
    /\ \A j \in 0 .. Len(rs) : e[j] <= e[Len(rs)]
    /\ \A j \in 1 .. Len(rs) : Covers(g, start, chain, rs[j], e[j - 1], e[j])

Run == [at : Nat, len : Nat]

\* One more run covers more records.
LEMMA RunAppended ==
    ASSUME NEW g, NEW start, NEW chain, NEW rs \in Seq(Run), NEW new \in Run,
           NEW e, Laid(g, start, chain, rs, e), NEW n \in Nat,
           Covers(g, start, chain, new, e[Len(rs)], n)
    PROVE  \E f : /\ Laid(g, start, chain, Append(rs, new), f)
                  /\ f[Len(Append(rs, new))] = n
<1> DEFINE k == Len(rs)
           qs == Append(rs, new)
           f == [j \in 0 .. k + 1 |-> IF j <= k THEN e[j] ELSE n]
<1>1. /\ k \in Nat /\ Len(qs) = k + 1 /\ qs[k + 1] = new
      /\ \A j \in 1 .. k : qs[j] = rs[j]
  OBVIOUS
<1>2. /\ e \in [0 .. k -> Nat] /\ e[0] = 0 /\ \A j \in 0 .. k : e[j] <= e[k]
      /\ \A j \in 1 .. k : Covers(g, start, chain, rs[j], e[j - 1], e[j])
  BY DEF Laid
<1>3. e[k] <= n BY DEF Covers
<1> HIDE DEF k, qs
<1>4. /\ f \in [0 .. k + 1 -> Nat] /\ f[k + 1] = n /\ \A j \in 0 .. k : f[j] = e[j]
  BY <1>1, <1>2
<1> HIDE DEF f
<1>5. \A j \in 0 .. k + 1 : f[j] <= f[k + 1]
  <2> SUFFICES ASSUME NEW j \in 0 .. k + 1 PROVE f[j] <= f[k + 1] OBVIOUS
  <2>1. CASE j = k + 1 BY <1>4, <2>1
  <2>2. CASE j # k + 1
    <3>1. j \in 0 .. k /\ k \in 0 .. k BY <1>1, <2>2
    <3>2. f[j] = e[j] /\ e[j] <= e[k] /\ e[j] \in Nat /\ e[k] \in Nat
      BY <1>2, <1>4, <3>1
    <3> QED BY <1>3, <1>4, <3>2
  <2> QED BY <2>1, <2>2
<1>6. \A j \in 1 .. k + 1 : Covers(g, start, chain, qs[j], f[j - 1], f[j])
  <2> SUFFICES ASSUME NEW j \in 1 .. k + 1
               PROVE  Covers(g, start, chain, qs[j], f[j - 1], f[j])
    OBVIOUS
  <2>1. CASE j = k + 1
    <3>1. j - 1 = k /\ k \in 0 .. k BY <1>1, <2>1
    <3>2. f[j - 1] = e[k] BY <1>4, <3>1
    <3> QED BY <1>1, <1>4, <2>1, <3>2 DEF k
  <2>2. CASE j # k + 1
    <3>1. j \in 1 .. k /\ j \in 0 .. k /\ j - 1 \in 0 .. k BY <1>1, <2>2
    <3> QED BY <1>1, <1>2, <1>4, <3>1
  <2> QED BY <2>1, <2>2
<1>7. Laid(g, start, chain, qs, f)
  <2>1. 0 \in 0 .. k BY <1>1
  <2> QED BY <1>1, <1>2, <1>4, <1>5, <1>6, <2>1 DEF Laid
<1> QED BY <1>1, <1>4, <1>7 DEF qs

\* A run that begins where the last one ends makes it longer.
LEMMA RunJoined ==
    ASSUME NEW g, NEW start, NEW chain, NEW last \in Run, NEW new \in Run,
           NEW a \in Nat, NEW b \in Nat, NEW c \in Nat,
           Covers(g, start, chain, last, a, b), Covers(g, start, chain, new, b, c),
           Joins(last, new.at)
    PROVE  Covers(g, start, chain, [at |-> last.at, len |-> last.len + new.len], a, c)
<1> DEFINE joined == [at |-> last.at, len |-> last.len + new.len]
           p == b - a
           q == c - b
<1>1. /\ p \in Nat /\ q \in Nat /\ RecordSize \in Nat
      /\ last.len = p * RecordSize /\ new.len = q * RecordSize
  BY FatGeometryAssumption DEF Covers
<1>2. c - a = p + q /\ a <= c BY <1>1
<1> HIDE DEF p, q
<1>3. (p + q) * RecordSize = p * RecordSize + q * RecordSize BY <1>1
<1>4. new.at = last.at + p * RecordSize BY <1>1 DEF Joins
<1>5. ASSUME NEW r \in 0 .. c - a - 1
      PROVE  RecordAt(g, start, chain, a + 1 + r) = joined.at + r * RecordSize
  <2>1. CASE r < p
    <3>1. r \in 0 .. b - a - 1 BY <2>1 DEF p
    <3> QED BY <3>1 DEF Covers
  <2>2. CASE r >= p
    <3> DEFINE d == r - p
    <3>1. d \in 0 .. c - b - 1 /\ a + 1 + r = b + 1 + d /\ r = p + d /\ d \in Nat
      BY <1>1, <1>2, <2>2 DEF p, q
    <3>2. RecordAt(g, start, chain, b + 1 + d) = new.at + d * RecordSize
      BY <3>1 DEF Covers
    <3> HIDE DEF d
    <3>3. (p + d) * RecordSize = p * RecordSize + d * RecordSize BY <1>1, <3>1
    <3>4. p * RecordSize \in Nat /\ d * RecordSize \in Nat /\ last.at \in Nat
      BY <1>1, <3>1, MulNat DEF Run
    <3> QED BY <1>4, <3>1, <3>2, <3>3, <3>4
  <2> QED BY <1>1, <2>1, <2>2
<1>6. joined.len = (c - a) * RecordSize BY <1>1, <1>2, <1>3
<1> HIDE DEF joined
<1>7. Covers(g, start, chain, joined, a, c) BY <1>2, <1>5, <1>6 DEF Covers
<1> QED BY <1>7 DEF joined

\* The last run with others in its place.
LastIs(rs, new, qs) == qs = [rs EXCEPT ![Len(rs)] = new]

LEMMA LastReplaced ==
    ASSUME NEW g, NEW start, NEW chain, NEW rs \in Seq(Run), rs # <<>>, NEW new \in Run,
           NEW e, Laid(g, start, chain, rs, e), NEW n \in Nat, e[Len(rs)] <= n,
           Covers(g, start, chain, new, e[Len(rs) - 1], n),
           NEW qs, LastIs(rs, new, qs)
    PROVE  \E f : Laid(g, start, chain, qs, f) /\ f[Len(qs)] = n
<1> DEFINE k == Len(rs)
           f == [e EXCEPT ![k] = n]
<1>1. /\ k \in Nat \ {0} /\ Len(qs) = k /\ qs[k] = new
      /\ \A j \in 1 .. k - 1 : qs[j] = rs[j]
  BY DEF LastIs
<1>2. /\ e \in [0 .. k -> Nat] /\ e[0] = 0 /\ \A j \in 0 .. k : e[j] <= e[k]
      /\ \A j \in 1 .. k : Covers(g, start, chain, rs[j], e[j - 1], e[j])
  BY DEF Laid
<1>3. e[k] <= n OBVIOUS
<1>4. Covers(g, start, chain, new, e[k - 1], n) OBVIOUS
<1> HIDE DEF k
<1>5. /\ f \in [0 .. k -> Nat] /\ f[k] = n /\ \A j \in 0 .. k - 1 : f[j] = e[j]
  BY <1>1, <1>2
<1> HIDE DEF f
<1>6. \A j \in 0 .. k : f[j] <= f[k]
  <2> SUFFICES ASSUME NEW j \in 0 .. k PROVE f[j] <= f[k] OBVIOUS
  <2>1. CASE j = k BY <1>5, <2>1
  <2>2. CASE j # k
    <3>1. j \in 0 .. k - 1 /\ k \in 0 .. k BY <1>1, <2>2
    <3>2. f[j] = e[j] /\ e[j] <= e[k] /\ e[j] \in Nat /\ e[k] \in Nat
      BY <1>2, <1>5, <3>1
    <3> QED BY <1>3, <1>5, <3>2
  <2> QED BY <2>1, <2>2
<1>7. \A j \in 1 .. k : Covers(g, start, chain, qs[j], f[j - 1], f[j])
  <2> SUFFICES ASSUME NEW j \in 1 .. k
               PROVE  Covers(g, start, chain, qs[j], f[j - 1], f[j])
    OBVIOUS
  <2>1. CASE j = k
    <3>1. k - 1 \in 0 .. k - 1 BY <1>1
    <3>2. f[j - 1] = e[k - 1] BY <1>5, <2>1, <3>1
    <3> QED BY <1>1, <1>4, <1>5, <2>1, <3>2
  <2>2. CASE j # k
    <3>1. j \in 1 .. k - 1 /\ j \in 0 .. k - 1 /\ j - 1 \in 0 .. k - 1 BY <1>1, <2>2
    <3> QED BY <1>1, <1>2, <1>5, <3>1
  <2> QED BY <2>1, <2>2
<1>8. Laid(g, start, chain, qs, f)
  <2>1. 0 \in 0 .. k - 1 BY <1>1
  <2> QED BY <1>1, <1>2, <1>5, <1>6, <1>7, <2>1 DEF Laid
<1> QED BY <1>1, <1>5, <1>8

---------------------------------------------------------------------------
(* The layout that a boot sector gives, if it is on the device.            *)

Derived(g) == \E b \in Boot : g = Derive(b, Base)
Fits(g) == g.base + VolumeBytes(g) <= DeviceLen

LEMMA Quotient ==
    ASSUME NEW m \in Nat, NEW n \in Nat \ {0}
    PROVE  (m \div n) * n <= m /\ (m % n = 0 => (m \div n) * n = m)
OBVIOUS

\* Of whole records, and within the device.
LEMMA Layout ==
    ASSUME NEW g, Derived(g), Fits(g), g.sane
    PROVE  /\ Per(g) \in Nat \ {0} /\ g.bpc = Per(g) * RecordSize /\ g.bpc \in Nat
           /\ g.root_len = (g.root_len \div RecordSize) * RecordSize
           /\ g.root_start + g.root_len <= DeviceLen
           /\ g.data_start + g.count * g.bpc <= DeviceLen
<1>1. PICK b \in Boot : g = Derive(b, Base) BY DEF Derived
<1>2. LaidOut(b, Base)
  <2>1. BlankGeom(b, Base).sane = FALSE BY DEF BlankGeom
  <2> QED BY <1>1, <2>1 DEF Derive
<1> DEFINE bps == b.bytes_per_sector
           spc == b.sectors_per_cluster
           meta == Meta(b)
           total == TotalSectors(b)
           rds == RootDirSectors(b)
           count == ClusterCount(b)
           front == b.num_fats * FatSize(b) + b.reserved_sectors
<1>3. /\ g.base = 0 /\ g.bps = bps /\ g.bpc = spc * bps /\ g.total = total
      /\ g.root_len = rds * bps /\ g.count = count
      /\ g.root_start = front * bps + 0 /\ g.data_start = front * bps + 0 + rds * bps
  BY <1>1, <1>2 DEF Derive, Base, RootStart, DataStart
<1>4. /\ bps \in Nat \ {0} /\ spc \in Nat \ {0} /\ meta <= total
      /\ bps % RecordSize = 0
  BY <1>2, FatGeometryAssumption DEF LaidOut, Sized, BpsOk, SpcOk
<1>5. /\ b.num_fats \in Nat /\ FatSize(b) \in Nat /\ b.reserved_sectors \in Nat
      /\ b.root_entries \in Nat /\ total \in Nat
  BY DEF Boot, FatSize, TotalSectors
<1>6. front \in Nat
  <2>1. b.num_fats * FatSize(b) \in Nat BY <1>5, MulNat
  <2> QED BY <1>5, <2>1
<1>7. rds \in Nat
  <2>1. RecordSize \in Nat BY FatGeometryAssumption
  <2>2. b.root_entries * RecordSize \in Nat BY <1>5, <2>1, MulNat
  <2>3. b.root_entries * RecordSize + bps - 1 \in Nat BY <1>4, <2>2
  <2> QED BY <1>4, <2>3, DivNat DEF RootDirSectors
<1>8. meta = front + rds BY DEF Meta
<1>9. count = (total - meta) \div spc BY DEF ClusterCount
<1> HIDE DEF bps, spc, meta, total, rds, count, front
<1>10. RecordSize \in Nat \ {0} /\ DeviceLen \in Nat
  BY FatGeometryAssumption, FatVolumeAssumption
<1>11. meta \in Nat /\ total - meta \in Nat BY <1>4, <1>5, <1>6, <1>7, <1>8
<1>12. count \in Nat /\ count * spc <= total - meta
  <2>1. ((total - meta) \div spc) * spc <= total - meta BY <1>4, <1>11, Quotient
  <2>2. (total - meta) \div spc \in Nat BY <1>4, <1>11, DivNat
  <2> QED BY <1>9, <2>1, <2>2
\* Sectors in front of the data, of the data, and of the volume.
<1>13. (meta + count * spc) * bps <= total * bps
  <2>1. count * spc \in Nat BY <1>4, <1>12, MulNat
  <2>2. meta + count * spc \in Nat /\ meta + count * spc <= total
    BY <1>5, <1>11, <1>12, <2>1
  <2> QED BY <1>4, <1>5, <2>2, Products
<1>14. (meta + count * spc) * bps = front * bps + rds * bps + count * (spc * bps)
  <2>1. (meta + count * spc) * bps = meta * bps + (count * spc) * bps
    BY <1>4, <1>11, <1>12
  <2>2. meta * bps = front * bps + rds * bps BY <1>4, <1>6, <1>7, <1>8
  <2>3. (count * spc) * bps = count * (spc * bps) BY <1>4, <1>12
  <2> QED BY <2>1, <2>2, <2>3
<1>15. total * bps <= DeviceLen
  <2>1. total * bps \in Nat BY <1>4, <1>5, MulNat
  <2>2. total * bps <= VolumeBytes(g)
    BY <1>3, <2>1, FatGeometryAssumption DEF VolumeBytes, Bigger
  <2>3. VolumeBytes(g) \in Nat
    BY <1>3, <2>1, FatGeometryAssumption DEF VolumeBytes, Bigger
  <2> QED BY <1>3, <1>10, <2>1, <2>2, <2>3 DEF Fits
<1>16. g.data_start + g.count * g.bpc <= DeviceLen
  <2>1. front * bps \in Nat /\ rds * bps \in Nat /\ total * bps \in Nat
        /\ spc * bps \in Nat /\ count * (spc * bps) \in Nat
    BY <1>4, <1>5, <1>6, <1>7, <1>12, MulNat
  <2> QED BY <1>3, <1>10, <1>13, <1>14, <1>15, <2>1
<1>17. g.root_start + g.root_len <= DeviceLen
  <2>1. front * bps \in Nat /\ rds * bps \in Nat /\ g.count * g.bpc \in Nat
    BY <1>3, <1>4, <1>6, <1>7, <1>12, MulNat
  <2> QED BY <1>3, <1>10, <1>16, <2>1
\* Whole records.
<1>18. PICK k \in Nat : bps = k * RecordSize
  <2>1. bps \div RecordSize \in Nat BY <1>4, <1>10, DivNat
  <2>2. bps = (bps \div RecordSize) * RecordSize BY <1>4, <1>10, Quotient
  <2> QED BY <2>1, <2>2
<1>19. \A n \in Nat : (n * RecordSize) \div RecordSize = n
  BY <1>10
<1>20. g.bpc = (spc * k) * RecordSize /\ g.root_len = (rds * k) * RecordSize
  <2>1. spc * (k * RecordSize) = (spc * k) * RecordSize BY <1>4, <1>10, <1>18
  <2>2. rds * (k * RecordSize) = (rds * k) * RecordSize BY <1>7, <1>10, <1>18
  <2> QED BY <1>3, <1>18, <2>1, <2>2
<1>21. spc * k \in Nat /\ rds * k \in Nat /\ g.bpc \in Nat /\ g.bpc # 0
  <2>1. spc * k \in Nat /\ rds * k \in Nat /\ spc * bps \in Nat
    BY <1>4, <1>7, <1>18, MulNat
  <2>2. spc * bps # 0 BY <1>4
  <2> QED BY <1>3, <2>1, <2>2
<1>22. Per(g) = spc * k BY <1>19, <1>20, <1>21 DEF Per
<1>23. spc * k # 0 BY <1>10, <1>20, <1>21
<1>24. g.root_len \div RecordSize = rds * k BY <1>19, <1>20, <1>21
<1> QED BY <1>16, <1>17, <1>20, <1>21, <1>22, <1>23, <1>24

\* A cluster of a chain covers the records that are its own.
LEMMA ClusterCovered ==
    ASSUME NEW g \in Geom, Derived(g), Fits(g), NEW start, start # 0,
           NEW chain \in Seq(2 .. LastCluster(g)), NEW k \in 1 .. Len(chain)
    PROVE  LET at == ClusterToByte(g, chain[k])
           IN  /\ at # Over /\ [at |-> at, len |-> g.bpc] \in Run /\ g.bpc \in Nat
               /\ Per(g) \in Nat \ {0} /\ g.bpc = Per(g) * RecordSize
               /\ (k - 1) * Per(g) \in Nat /\ k * Per(g) \in Nat
               /\ k * Per(g) = (k - 1) * Per(g) + Per(g)
               /\ Covers(g, start, chain, [at |-> at, len |-> g.bpc],
                         (k - 1) * Per(g), k * Per(g))
<1> DEFINE c == chain[k]
           at == ClusterToByte(g, c)
           p == Per(g)
           new == [at |-> at, len |-> g.bpc]
<1>1. g.count \in Nat /\ g.data_start \in Nat /\ g.bpc \in Nat BY DEF Geom
<1>2. c \in 2 .. g.count + 1 /\ c - 2 \in Nat /\ c - 2 <= g.count
  <2>1. k \in Nat \ {0} /\ k <= Len(chain) OBVIOUS
  <2>2. c \in 2 .. LastCluster(g) BY <2>1, Element
  <2> HIDE DEF c
  <2> QED BY <1>1, <2>2 DEF LastCluster
<1>3. g.sane
  <2>1. PICK b \in Boot : g = Derive(b, Base) BY DEF Derived
  <2>2. g.count > 0 BY <1>1, <1>2
  <2>3. CASE ~ LaidOut(b, Base)
    <3>1. BlankGeom(b, Base).count = 0 BY DEF BlankGeom
    <3> QED BY <2>1, <2>2, <2>3, <3>1 DEF Derive
  <2>4. CASE LaidOut(b, Base)
    <3>1. g.sane = (ClusterCount(b) > 0) /\ g.count = ClusterCount(b)
      BY <2>1, <2>4 DEF Derive
    <3> QED BY <2>2, <3>1
  <2> QED BY <2>3, <2>4
<1>4. /\ p \in Nat \ {0} /\ g.bpc = p * RecordSize
      /\ g.data_start + g.count * g.bpc <= DeviceLen
  BY <1>3, Layout
<1>5. /\ (c - 2) * g.bpc <= g.count * g.bpc /\ (c - 2) * g.bpc \in Nat
      /\ g.count * g.bpc \in Nat
  BY <1>1, <1>2, Products
<1>6. (c - 2) * g.bpc + g.data_start <= Top
  <2> DEFINE m == (c - 2) * g.bpc
             n == g.count * g.bpc
  <2>1. m \in Nat /\ n \in Nat /\ m <= n /\ g.data_start + n <= DeviceLen BY <1>4, <1>5
  <2>2. DeviceLen \in Nat /\ Top \in Nat /\ DeviceLen <= Top
    BY FatVolumeAssumption, FatGeometryAssumption
  <2> HIDE DEF m, n
  <2>3. m + g.data_start <= Top BY <1>1, <2>1, <2>2
  <2> QED BY <2>3 DEF m
<1>7. at = (c - 2) * g.bpc + g.data_start /\ at \in Nat
  <2> DEFINE m == (c - 2) * g.bpc
  <2>1. c >= 2 BY <1>1, <1>2
  <2>2. at = m + g.data_start
    <3> HIDE DEF c
    <3> QED BY <1>3, <1>6, <2>1, Zenon DEF ClusterToByte
  <2>3. m \in Nat BY <1>5
  <2> HIDE DEF m, at
  <2>4. at \in Nat BY <1>1, <2>2, <2>3
  <2> QED BY <2>2, <2>4 DEF m
<1>8. new \in Run /\ new.at = at /\ new.len = g.bpc BY <1>1, <1>7 DEF Run
<1>9. /\ (k - 1) * p \in Nat /\ k * p \in Nat /\ k * p = (k - 1) * p + p
  <2>1. k \in Nat /\ k - 1 \in Nat /\ p \in Nat BY <1>4
  <2>2. k * p = (k - 1) * p + p
    <3> HIDE DEF p
    <3> QED BY <2>1
  <2> QED BY <2>1, <2>2, MulNat
<1>10. ASSUME NEW r \in 0 .. p - 1
       PROVE  RecordAt(g, start, chain, (k - 1) * p + 1 + r) = at + r * RecordSize
  <2> DEFINE i == (k - 1) * p + 1 + r
  <2>1. k - 1 \in Nat /\ i - 1 = (k - 1) * p + r
    <3> HIDE DEF p
    <3> QED BY <1>4, <1>9
  <2>2. (i - 1) \div p = k - 1 /\ (i - 1) % p = r
    <3>1. ((k - 1) * p + r) \div p = k - 1 /\ ((k - 1) * p + r) % p = r
      <4>1. p \in Nat \ {0} /\ k - 1 \in Nat BY <1>4, <2>1
      <4> HIDE DEF p
      <4> QED BY <4>1, DivMod
    <3> HIDE DEF p, i
    <3> QED BY <2>1, <3>1
  <2>3. 1 + (k - 1) = k OBVIOUS
  <2>4. RecordAt(g, start, chain, i)
          = ClusterToByte(g, chain[1 + (i - 1) \div p]) + ((i - 1) % p) * RecordSize
    BY DEF RecordAt
  <2> HIDE DEF i
  <2>5. RecordAt(g, start, chain, i) = at + r * RecordSize BY <2>2, <2>3, <2>4
  <2> QED BY <2>5 DEF i
<1>11. Covers(g, start, chain, new, (k - 1) * p, k * p)
  <2>1. k * p - (k - 1) * p = p
    <3> HIDE DEF p
    <3> QED BY <1>4, <1>9
  <2>2. (k - 1) * p <= k * p
    <3> HIDE DEF p
    <3> QED BY <1>4, <1>9
  <2> HIDE DEF p, at, new
  <2> QED BY <1>4, <1>8, <1>10, <2>1, <2>2 DEF Covers
<1> HIDE DEF p, at, new
<1>12. /\ at # Over /\ new \in Run /\ g.bpc \in Nat
  BY <1>1, <1>7, <1>8 DEF Over
<1> QED BY <1>4, <1>9, <1>11, <1>12 DEF p, at, new, c

\* Records of a run behind those in front of it.
RunRecords(at, n) == [i \in 1 .. n |-> at + (i - 1) * RecordSize]

LEMMA RecordsJoined ==
    ASSUME NEW g, NEW start, NEW chain, NEW run, NEW from \in Nat, NEW to \in Nat,
           Covers(g, start, chain, run, from, to), NEW n \in 0 .. to - from
    PROVE  Records(g, start, chain, from) \o RunRecords(run.at, n)
             = Records(g, start, chain, from + n)
<1> DEFINE s == Records(g, start, chain, from)
           t == RunRecords(run.at, n)
           u == Records(g, start, chain, from + n)
           S == {RecordAt(g, start, chain, i) : i \in 1 .. from + n}
<1>1. n \in Nat /\ n <= to - from OBVIOUS
<1>2. ASSUME NEW i \in 1 .. n
      PROVE  t[i] = RecordAt(g, start, chain, from + i)
  <2>1. i - 1 \in 0 .. to - from - 1 /\ from + 1 + (i - 1) = from + i BY <1>1
  <2>2. RecordAt(g, start, chain, from + 1 + (i - 1)) = run.at + (i - 1) * RecordSize
    BY <2>1 DEF Covers
  <2> QED BY <2>1, <2>2 DEF RunRecords
<1>3. s = [i \in 1 .. from |-> RecordAt(g, start, chain, i)]
      /\ u = [i \in 1 .. from + n |-> RecordAt(g, start, chain, i)]
  BY DEF Records
<1>4. s \in Seq(S) /\ Len(s) = from
  <2>1. \A i \in 1 .. from : RecordAt(g, start, chain, i) \in S BY <1>1
  <2> HIDE DEF S, s
  <2> QED BY <1>3, <2>1
<1>5. t \in Seq(S) /\ Len(t) = n
  <2>1. \A i \in 1 .. n : t[i] \in S
    <3> SUFFICES ASSUME NEW i \in 1 .. n PROVE t[i] \in S OBVIOUS
    <3>1. from + i \in 1 .. from + n BY <1>1
    <3> QED BY <1>2, <3>1
  <2>2. t = [i \in 1 .. n |-> t[i]] BY DEF RunRecords
  <2> HIDE DEF S, t
  <2> QED BY <1>1, <2>1, <2>2
<1>6. \A i \in 1 .. from : s[i] = RecordAt(g, start, chain, i) BY <1>3
<1> HIDE DEF S, s, t
<1>7. /\ s \o t \in Seq(S) /\ Len(s \o t) = from + n
      /\ \A i \in 1 .. from : (s \o t)[i] = s[i]
      /\ \A i \in 1 .. n : (s \o t)[from + i] = t[i]
  BY <1>1, <1>4, <1>5
<1>8. ASSUME NEW i \in 1 .. from + n
      PROVE  (s \o t)[i] = RecordAt(g, start, chain, i)
  <2>1. CASE i <= from
    <3>1. i \in 1 .. from BY <1>1, <2>1
    <3> QED BY <1>6, <1>7, <3>1
  <2>2. CASE i > from
    <3>1. i - from \in 1 .. n /\ from + (i - from) = i BY <1>1, <2>2
    <3>2. t[i - from] = RecordAt(g, start, chain, i) BY <1>2, <3>1
    <3> QED BY <1>7, <3>1, <3>2
  <2>3. i \in Int /\ from \in Int BY <1>1
  <2>4. i <= from \/ i > from BY ONLY <2>3
  <2> QED BY <2>1, <2>2, <2>4
<1>9. s \o t = u
  <2> DEFINE w == s \o t
  <2>1. w \in Seq(S) /\ Len(w) = from + n BY <1>7
  <2> HIDE DEF u, w
  <2>2. w = [i \in 1 .. from + n |-> w[i]] BY ONLY <2>1
  <2>3. \A i \in 1 .. from + n : w[i] = RecordAt(g, start, chain, i) BY <1>8 DEF w
  <2>4. w = u BY ONLY <1>3, <2>2, <2>3
  <2> QED BY <2>4 DEF w
<1> QED BY <1>9 DEF s, t, u

\* How many records a run adds, within the limit.
LEMMA RecordsWithin ==
    ASSUME NEW from \in Nat, NEW to \in Nat, from <= to, from < MaxRecords
    PROVE  LET want == Min2((to - from) * RecordSize, MaxDirBytes)
               n == Min2(want \div RecordSize, MaxRecords - from)
           IN  n \in 0 .. to - from /\ from + n = Min2(MaxRecords, to)
<1> DEFINE d == to - from
<1>1. RecordSize \in Nat \ {0} /\ MaxRecords \in Nat /\ d \in Nat
  BY FatGeometryAssumption, FatVolumeAssumption
<1>2. to = from + d OBVIOUS
<1>3. MaxDirBytes = MaxRecords * RecordSize BY DEF MaxDirBytes
<1> HIDE DEF d
<1>4. \A m \in Nat : (m * RecordSize) \div RecordSize = m /\ m * RecordSize \in Nat
  BY <1>1, MulNat
<1>5. CASE d <= MaxRecords
  <2>1. d * RecordSize <= MaxRecords * RecordSize BY <1>1, <1>5, Products
  <2>2. ~ (MaxRecords * RecordSize < d * RecordSize) BY <1>1, <1>4, <2>1
  <2>3. Min2(d * RecordSize, MaxDirBytes) \div RecordSize = d
    <3>1. Min2(d * RecordSize, MaxDirBytes) = d * RecordSize
      BY <1>1, <1>3, <1>4, <2>1 DEF Min2
    <3> QED BY <1>1, <1>4, <3>1
  <2>4. Min2(d, MaxRecords - from) \in 0 .. d
        /\ from + Min2(d, MaxRecords - from) = Min2(MaxRecords, to)
    BY <1>1, <1>2 DEF Min2
  <2> QED BY <2>3, <2>4 DEF d
<1>6. CASE d > MaxRecords
  <2>1. MaxRecords * RecordSize <= d * RecordSize BY <1>1, <1>6, Products
  <2>2. Min2(d * RecordSize, MaxDirBytes) = MaxRecords * RecordSize
    BY <1>1, <1>3, <1>4, <2>1 DEF Min2
  <2>3. Min2(d * RecordSize, MaxDirBytes) \div RecordSize = MaxRecords
    BY <1>1, <1>4, <2>2
  <2>4. Min2(MaxRecords, MaxRecords - from) \in 0 .. d
        /\ from + Min2(MaxRecords, MaxRecords - from) = Min2(MaxRecords, to)
    BY <1>1, <1>2, <1>6 DEF Min2
  <2> QED BY <2>3, <2>4 DEF d
<1> QED BY <1>1, <1>5, <1>6

---------------------------------------------------------------------------
(* The runs cover the records of the chain in its order, and what is       *)
(* listed are the first of them.                                           *)

PartUnread == <<"directory", "part unreadable">>
RunsLaid(e) == Laid(geom, dir.start, dir.chain, runs, e)
FirstRecords(n) == Records(geom, dir.start, dir.chain, Min2(MaxRecords, n))
AllRecords == Total(geom, dir.start, dir.chain)

\* The clusters in front of dir.next have their runs.
ExtentsLaid(e) == RunsLaid(e) /\ e[Len(runs)] = (dir.next - 1) * Per(geom)
\* The runs in front of dir.next have their records.
ReadLaid(e) ==
    /\ RunsLaid(e) /\ Min2(MaxRecords, e[Len(runs)]) = Min2(MaxRecords, AllRecords)
    /\ dir.next - 1 <= Len(runs) /\ listing = FirstRecords(e[dir.next - 1])

WalkPart ==
    stage = "walk" =>
        /\ geom.sane /\ dir.start # 0 /\ runs = <<>> /\ listing = <<>>
        /\ dir.next = 1 /\ dir.taken = 0
ExtentsPart ==
    stage = "extents" =>
        /\ geom.sane /\ dir.start # 0 /\ listing = <<>>
        /\ dir.next - 1 <= Len(dir.chain) /\ dir.taken = (dir.next - 1) * geom.bpc
        /\ \E e : ExtentsLaid(e)
ReadPart == stage = "read" => geom.sane /\ \E e : ReadLaid(e)
DoneStages == {"tree", "compare", "compare with"}
DonePart ==
    stage \in DoneStages /\ runs # <<>> /\ PartUnread \notin found
        => listing = FirstRecords(AllRecords)
EarlyStages == {"probed", "media", "info", "backup"}
EarlyPart == stage \in EarlyStages => runs = <<>>

ListParts == WalkPart /\ ExtentsPart /\ ReadPart /\ DonePart
ListInv == Derived(geom) /\ EarlyPart /\ (Fits(geom) => ListParts)

LEMMA NothingLaid ==
    ASSUME NEW g, NEW start, NEW chain
    PROVE  \E e : Laid(g, start, chain, <<>>, e) /\ e[Len(<<>>)] = 0
<1> DEFINE e == [j \in 0 .. 0 |-> 0]
<1>1. Len(<<>>) = 0 OBVIOUS
<1>2. e \in [0 .. 0 -> Nat] /\ e[0] = 0 /\ \A j \in 0 .. 0 : e[j] <= e[0] OBVIOUS
<1> HIDE DEF e
<1>3. Laid(g, start, chain, <<>>, e) BY <1>1, <1>2 DEF Laid
<1> QED BY <1>1, <1>2, <1>3

\* Nothing is open, or what is open has been listed before.
LEMMA EarlyStays ==
    ASSUME ListInv, Derived(geom'), runs' = <<>>, stage' \in EarlyStages \cup DoneStages
    PROVE  ListInv'
BY DEF ListInv, EarlyPart, ListParts, WalkPart, ExtentsPart, ReadPart, DonePart, EarlyStages,
       DoneStages

LEMMA DoneStays ==
    ASSUME ListInv, UNCHANGED <<geom, dir, runs, listing>>,
           stage \in DoneStages, stage' \in DoneStages \cup {"closed"},
           PartUnread \in found => PartUnread \in found'
    PROVE  ListInv'
<1>1. AllRecords' = AllRecords BY DEF AllRecords, Total, Per
<1>3. stage' \notin {"walk", "extents", "read"} /\ stage' \notin EarlyStages
  BY DEF DoneStages, EarlyStages
<1>4. Derived(geom') BY DEF ListInv
<1>5. Fits(geom') => DonePart'
  <2> SUFFICES ASSUME Fits(geom'), stage' \in DoneStages, runs' # <<>>, PartUnread \notin found'
               PROVE  listing' = FirstRecords(AllRecords)'
    BY DEF DonePart
  <2>1. listing = FirstRecords(AllRecords) BY DEF ListInv, ListParts, DonePart
  <2>2. FirstRecords(AllRecords)' = FirstRecords(AllRecords)
    BY <1>1 DEF FirstRecords, Records, RecordAt, Per, ClusterToByte
  <2> QED BY <2>1, <2>2
<1> QED BY <1>3, <1>4, <1>5 DEF ListInv, EarlyPart, ListParts, WalkPart, ExtentsPart, ReadPart

LEMMA SameListing ==
    ASSUME ListInv, UNCHANGED <<geom, dir, runs, listing, stage>>,
           PartUnread \in found => PartUnread \in found'
    PROVE  ListInv'
<1>1. AllRecords' = AllRecords BY DEF AllRecords, Total, Per
<1>2. ASSUME NEW e PROVE ExtentsLaid(e)' = ExtentsLaid(e) /\ ReadLaid(e)' = ReadLaid(e)
  BY DEF ExtentsLaid, ReadLaid, RunsLaid, FirstRecords, AllRecords
<1>3. FirstRecords(AllRecords)' = FirstRecords(AllRecords)
  BY DEF FirstRecords, AllRecords
<1> QED BY <1>2, <1>3
        DEF ListInv, EarlyPart, ListParts, WalkPart, ExtentsPart, ReadPart, DonePart

LEMMA InitLists == Init => ListInv
<1> SUFFICES ASSUME Init PROVE ListInv OBVIOUS
<1>1. stage = "closed" /\ geom = Derive(NoBoot, Base) BY DEF Init
<1>2. Derived(geom) BY <1>1, NoBootType DEF Derived
<1> QED BY <1>1, <1>2 DEF ListInv, EarlyPart, ListParts, WalkPart, ExtentsPart, ReadPart, DonePart,
                          EarlyStages, DoneStages

LEMMA OpenLists == ASSUME Inv, ListInv, Open PROVE ListInv'
<1>1. CASE Probe
  <2>1. geom' = geom /\ runs' = <<>> /\ stage' = "probed" BY <1>1 DEF Probe
  <2>2. Derived(geom') BY <2>1 DEF ListInv
  <2> QED BY <2>1, <2>2, EarlyStays DEF EarlyStages
<1>2. CASE ReadBoot
  <2>1. runs' = runs /\ stage = "probed" /\ stage' = "media" BY <1>2 DEF ReadBoot, opened
  <2>2. geom' = Derive(BootAt(Base), Base) BY <1>2 DEF ReadBoot
  <2>3. Derived(geom') BY <2>2, BootType DEF Inv, Derived
  <2>4. runs = <<>> BY <2>1 DEF ListInv, EarlyPart, EarlyStages
  <2> QED BY <2>1, <2>3, <2>4, EarlyStays DEF EarlyStages
<1>3. CASE ReadMedia \/ ReadInfo \/ ReadBackup
  <2>1. /\ UNCHANGED <<runs, geom>> /\ stage \in {"media", "info", "backup"}
        /\ stage' \in {"info", "backup", "tree"}
    BY <1>3 DEF ReadMedia, ReadInfo, ReadBackup, opened
  <2>2. runs = <<>> /\ Derived(geom') BY <2>1 DEF ListInv, EarlyPart, EarlyStages
  <2> QED BY <2>1, <2>2, EarlyStays DEF EarlyStages, DoneStages
<1>4. CASE Close
  <2>1. UNCHANGED <<geom, dir, runs, listing, found>> /\ stage = "tree" /\ stage' = "closed"
    BY <1>4 DEF Close, opened
  <2> QED BY <2>1, DoneStays DEF DoneStages
<1> QED BY <1>1, <1>2, <1>3, <1>4 DEF Open

LEMMA CompareLists == ASSUME ListInv, Compare PROVE ListInv'
<1>1. UNCHANGED <<geom, dir, runs, listing>>
  BY DEF Compare, OpenMirror, CompareLeft, CompareRight, EndCompare, opened
<1>2. stage \in DoneStages /\ stage' \in DoneStages
  BY DEF Compare, OpenMirror, CompareLeft, CompareRight, EndCompare, Stopped, DoneStages
<1>3. PartUnread \in found => PartUnread \in found'
  <2>1. CASE OpenMirror
    <3>1. found' = {x \in found : x[1] # "mirror"} BY <2>1 DEF OpenMirror
    <3>2. PartUnread[1] # "mirror" BY DEF PartUnread
    <3> QED BY <3>1, <3>2
  <2>2. CASE CompareLeft BY <2>2 DEF CompareLeft
  <2>3. CASE CompareRight \/ EndCompare
    <3>1. found \subseteq found' BY <2>3 DEF CompareRight, EndCompare, Stopped
    <3> QED BY <3>1
  <2> QED BY <2>1, <2>2, <2>3 DEF Compare
<1> QED BY <1>1, <1>2, <1>3, DoneStays

LEMMA OpenDirectoryLists == ASSUME ListInv, NEW c, OpenDirectory(c) PROVE ListInv'
<1>1. /\ geom' = geom /\ stage' = "walk" /\ dir' = NewDir(c) /\ runs' = <<>> /\ listing' = <<>>
      /\ ClusterInRange(geom, c)
  BY DEF OpenDirectory
<1>2. dir'.start = c /\ dir'.next = 1 /\ dir'.taken = 0 BY <1>1 DEF NewDir
<1>3. geom.sane /\ c # 0 BY <1>1 DEF ClusterInRange
<1>4. Derived(geom') BY <1>1 DEF ListInv
<1> QED BY <1>1, <1>2, <1>3, <1>4
        DEF ListInv, EarlyPart, ListParts, WalkPart, ExtentsPart, ReadPart, DonePart,
            EarlyStages, DoneStages

LEMMA OpenRootLists == ASSUME Inv, ListInv, OpenRoot PROVE ListInv'
<1> USE DEF EarlyStages, DoneStages
<1>1. geom' = geom /\ geom.sane /\ listing' = <<>> BY DEF OpenRoot
<1>2. Derived(geom') BY <1>1 DEF ListInv
<1>3. CASE geom.kind = "FAT32" /\ ClusterToByte(geom, geom.root_cluster) = Over
  <2>1. runs' = <<>> /\ stage' = "tree" BY <1>3 DEF OpenRoot
  <2> QED BY <1>2, <2>1, EarlyStays
<1>4. CASE geom.kind = "FAT32" /\ ClusterToByte(geom, geom.root_cluster) # Over
  <2>1. runs' = <<>> /\ stage' = "walk" /\ dir' = NewDir(geom.root_cluster) BY <1>4 DEF OpenRoot
  <2>2. dir'.start = geom.root_cluster /\ dir'.next = 1 /\ dir'.taken = 0 BY <2>1 DEF NewDir
  <2>3. geom.root_cluster # 0
    <3>1. geom.root_cluster \in Nat BY DEF Inv, GeomInv, Geom
    <3>2. geom.root_cluster >= 2 BY <1>4 DEF ClusterToByte
    <3> QED BY <3>1, <3>2
  <2> QED BY <1>1, <1>2, <2>1, <2>2, <2>3
          DEF ListInv, EarlyPart, ListParts, WalkPart, ExtentsPart, ReadPart, DonePart
<1>5. CASE geom.kind # "FAT32"
  <2> DEFINE r == [at |-> geom.root_start, len |-> geom.root_len]
             n == geom.root_len \div RecordSize
  <2>1. runs' = <<r>> /\ dir' = NoDir /\ stage' = "read" BY <1>5 DEF OpenRoot
  <2>2. dir'.start = 0 /\ dir'.next = 1 BY <2>1 DEF NoDir, NewDir
  <2>3. r \in Run BY DEF Inv, GeomInv, Geom, Run
  <2>4. n \in Nat
    <3>1. geom.root_len \in Nat BY DEF Inv, GeomInv, Geom
    <3> QED BY <3>1, DivNat, FatGeometryAssumption
  <2>5. ASSUME Fits(geom) PROVE ReadPart'
    <3>1. geom.root_len = n * RecordSize BY <1>1, <2>5, Layout DEF ListInv
    <3>2. Covers(geom, 0, dir'.chain, r, 0, n)
      <4>1. ASSUME NEW i \in 0 .. n - 0 - 1
            PROVE  RecordAt(geom, 0, dir'.chain, 0 + 1 + i) = r.at + i * RecordSize
        <5>1. 0 + 1 + i - 1 = i OBVIOUS
        <5> QED BY <5>1 DEF RecordAt
      <4>2. r.len = n * RecordSize /\ n - 0 = n BY <2>4, <3>1
      <4> HIDE DEF r, n
      <4> QED BY <2>4, <4>1, <4>2 DEF Covers
    <3>3. PICK d : Laid(geom, 0, dir'.chain, <<>>, d) /\ d[Len(<<>>)] = 0 BY NothingLaid
    <3> HIDE DEF r, n
    <3>4. <<>> \in Seq(Run) /\ Append(<<>>, r) = <<r>> OBVIOUS
    <3>5. PICK e : Laid(geom, 0, dir'.chain, <<r>>, e) /\ e[Len(<<r>>)] = n
      <4>1. Covers(geom, 0, dir'.chain, r, d[Len(<<>>)], n) BY <3>2, <3>3
      <4>2. \E e : /\ Laid(geom, 0, dir'.chain, Append(<<>>, r), e)
                   /\ e[Len(Append(<<>>, r))] = n
        <5> DEFINE none == <<>>
                   chain == dir'.chain
        <5>1. /\ none \in Seq(Run) /\ Laid(geom, 0, chain, none, d)
              /\ Covers(geom, 0, chain, r, d[Len(none)], n)
          BY <3>3, <3>4, <4>1
        <5> HIDE DEF none, chain
        <5>2. \E e : /\ Laid(geom, 0, chain, Append(none, r), e)
                     /\ e[Len(Append(none, r))] = n
          BY ONLY <2>3, <2>4, <5>1, RunAppended
        <5> QED BY <5>2 DEF none, chain
      <4> QED BY <3>4, <4>2
    <3>6. RunsLaid(e)' BY <1>1, <2>1, <2>2, <3>5 DEF RunsLaid
    <3>7. e[0] = 0 /\ e[Len(runs')] = n BY <2>1, <3>5 DEF Laid
    <3>8. AllRecords' = n BY <1>1, <2>2 DEF AllRecords, Total, n
    <3>9. dir'.next - 1 = 0 /\ 0 <= Len(runs') BY <2>1, <2>2
    <3>10. listing' = (FirstRecords(e[dir.next - 1]))'
      <4>1. Min2(MaxRecords, 0) = 0 BY FatVolumeAssumption DEF Min2
      <4>2. e[dir'.next - 1] = 0 BY <3>7, <3>9
      <4>3. (FirstRecords(e[dir.next - 1]))' = <<>>
        BY <4>1, <4>2 DEF FirstRecords, Records
      <4> QED BY <1>1, <4>3
    <3>11. ReadLaid(e)' BY <3>6, <3>7, <3>8, <3>9, <3>10 DEF ReadLaid
    <3> QED BY <1>1, <3>11 DEF ReadPart
  <2> QED BY <1>1, <1>2, <2>1, <2>5
          DEF ListInv, EarlyPart, ListParts, WalkPart, ExtentsPart, DonePart
<1> QED BY <1>3, <1>4, <1>5

\* The chain is walked before a run is made.
LEMMA WalkLists == ASSUME Inv, ListInv, Walk PROVE ListInv'
<1> USE DEF EarlyStages, DoneStages
<1>1. UNCHANGED <<geom, runs, listing>> /\ stage = "walk" /\ stage' \in {"walk", "extents"}
  BY DEF Walk, WalkEnds
<1>2. Derived(geom') BY <1>1 DEF ListInv
<1>3. UNCHANGED <<dir.start, dir.next, dir.taken>>
  <2>1. DOMAIN dir = DOMAIN NoDir BY DEF Inv, DirInv
  <2> DEFINE more == [dir EXCEPT !.chain = Append(dir.chain, dir.cur)]
  <2>2. \E v : \/ dir' = [dir EXCEPT !.end = v]
               \/ dir' = [more EXCEPT !.cur = v] \/ dir' = [more EXCEPT !.end = v]
    BY Zenon DEF Walk, WalkEnds
  <2>3. /\ DOMAIN more = DOMAIN NoDir /\ more.start = dir.start /\ more.next = dir.next
        /\ more.taken = dir.taken
    BY <2>1 DEF NoDir, NewDir
  <2> HIDE DEF more
  <2> QED BY <2>1, <2>2, <2>3 DEF NoDir, NewDir
<1>4. ASSUME Fits(geom) PROVE ListParts'
  <2>1. /\ geom.sane /\ dir.start # 0 /\ runs = <<>> /\ listing = <<>>
        /\ dir.next = 1 /\ dir.taken = 0
    BY <1>1, <1>4 DEF ListInv, ListParts, WalkPart
  <2>2. WalkPart' BY <1>1, <1>3, <2>1 DEF WalkPart
  <2>3. ExtentsPart'
    <3>1. PICK e : /\ Laid(geom', dir'.start, dir'.chain, <<>>, e)
                   /\ e[Len(<<>>)] = 0
      BY NothingLaid
    <3>2. Per(geom) \in Nat /\ geom.bpc \in Nat BY <1>4, <2>1, Layout DEF ListInv
    <3>3. (1 - 1) * Per(geom) = 0 /\ (1 - 1) * geom.bpc = 0 BY <3>2
    <3>4. ExtentsLaid(e)' BY <1>1, <1>3, <2>1, <3>1, <3>3 DEF ExtentsLaid, RunsLaid, Per
    <3>5. dir'.next - 1 <= Len(dir'.chain)
      <4>1. dir'.chain \in ChainOf(geom') BY WalkKeeps DEF Inv, DirInv
      <4>2. Len(dir'.chain) \in Nat
        <5> HIDE DEF ChainOf
        <5>1. dir'.chain \in Seq(2 .. LastCluster(geom')) BY <4>1 DEF ChainOf
        <5> QED BY <5>1
      <4> QED BY <1>3, <2>1, <4>2
    <3>6. dir'.taken = (dir'.next - 1) * geom'.bpc BY <1>1, <1>3, <2>1, <3>3
    <3> QED BY <1>1, <1>3, <2>1, <3>4, <3>5, <3>6 DEF ExtentsPart
  <2>4. ReadPart' /\ DonePart' BY <1>1 DEF ReadPart, DonePart
  <2> QED BY <2>2, <2>3, <2>4 DEF ListParts
<1> QED BY <1>1, <1>2, <1>4 DEF ListInv, EarlyPart

LEMMA ExtendLists == ASSUME Inv, ListInv, Extend PROVE ListInv'
<1> USE DEF EarlyStages, DoneStages
<1>1. UNCHANGED <<geom, listing>> /\ stage = "extents" /\ stage' = "extents"
  BY DEF Extend
<1>2. Derived(geom') BY <1>1 DEF ListInv
<1> DEFINE k == dir.next
           chain == dir.chain
           per == Per(geom)
           at == ClusterToByte(geom, chain[k])
           new == [at |-> at, len |-> geom.bpc]
           last == runs[Len(runs)]
           joined == [at |-> last.at, len |-> last.len + geom.bpc]
<1>3. /\ chain \in Seq(2 .. LastCluster(geom)) /\ k \in Nat \ {0} /\ k <= Len(chain)
      /\ runs \in Seq(Run) /\ DOMAIN dir = DOMAIN NoDir /\ geom \in Geom
  BY DEF Inv, DirInv, ChainOf, Run, Extend, GeomInv
<1>4. ASSUME Fits(geom) PROVE ExtentsPart'
  <2>1. /\ geom.sane /\ dir.start # 0 /\ listing = <<>>
        /\ dir.taken = (k - 1) * geom.bpc /\ \E e : ExtentsLaid(e)
    BY <1>1, <1>4 DEF ListInv, ListParts, ExtentsPart
  <2>2. PICK e : /\ Laid(geom, dir.start, chain, runs, e)
                 /\ e[Len(runs)] = (k - 1) * per
    BY <2>1 DEF ExtentsLaid, RunsLaid
  <2>3. k \in 1 .. Len(chain) BY <1>3
  <2>4. /\ at # Over /\ new \in Run /\ geom.bpc \in Nat /\ per \in Nat \ {0}
        /\ (k - 1) * per \in Nat /\ k * per \in Nat /\ k * per = (k - 1) * per + per
        /\ Covers(geom, dir.start, chain, new, (k - 1) * per, k * per)
    BY <1>3, <1>4, <2>1, <2>3, ClusterCovered DEF ListInv
  <2>5. /\ dir' = [dir EXCEPT !.next = dir.next + 1, !.taken = dir.taken + geom.bpc]
        /\ runs' = IF runs # <<>> /\ Joins(last, at)
                   THEN [runs EXCEPT ![Len(runs)] = joined] ELSE Append(runs, new)
    BY <2>4, Zenon DEF Extend
  <2>6. /\ dir'.start = dir.start /\ dir'.chain = chain /\ dir'.next = k + 1
        /\ dir'.taken = dir.taken + geom.bpc
    BY <1>3, <2>5 DEF NoDir, NewDir
  <2>7. dir'.taken = (dir'.next - 1) * geom.bpc
    <3> DEFINE bpc == geom.bpc
    <3>0. k \in Nat /\ bpc \in Nat BY <1>3, <2>4
    <3>1. k * bpc = (k - 1) * bpc + bpc
      <4> HIDE DEF k, bpc
      <4> QED BY ONLY <3>0
    <3>2. k + 1 - 1 = k
      <4> HIDE DEF k
      <4> QED BY ONLY <3>0
    <3>3. dir'.taken = dir.taken + bpc BY <2>6, Zenon
    <3>4. dir.taken = (k - 1) * bpc BY <2>1, Zenon
    <3>5. dir'.next = k + 1 BY <2>6, Zenon
    <3> HIDE DEF k, bpc
    <3>6. dir'.taken = k * bpc BY ONLY <3>1, <3>3, <3>4
    <3>7. dir'.next - 1 = k BY ONLY <3>0, <3>5
    <3> QED BY <3>6, <3>7, Zenon DEF bpc
  <2>8. \E f : Laid(geom, dir.start, chain, runs', f) /\ f[Len(runs')] = k * per
    <3>1. CASE ~ (runs # <<>> /\ Joins(last, at))
      <4>1. runs' = Append(runs, new) BY <2>5, <3>1
      <4>2. Covers(geom, dir.start, chain, new, e[Len(runs)], k * per) BY <2>2, <2>4
      <4> DEFINE start == dir.start
                 n == k * per
      <4>3. /\ runs \in Seq(Run) /\ new \in Run /\ n \in Nat
            /\ Laid(geom, start, chain, runs, e)
            /\ Covers(geom, start, chain, new, e[Len(runs)], n)
        BY <1>3, <2>2, <2>4, <4>2
      <4> HIDE DEF new, chain, start, n
      <4>4. \E f : /\ Laid(geom, start, chain, Append(runs, new), f)
                   /\ f[Len(Append(runs, new))] = n
        BY ONLY <4>3, RunAppended
      <4> QED BY <4>1, <4>4 DEF start, n
    <3>2. CASE runs # <<>> /\ Joins(last, at)
      <4>1. runs' = [runs EXCEPT ![Len(runs)] = joined] BY <2>5, <3>2
      <4> DEFINE m == Len(runs)
      <4>2. m \in Nat \ {0} /\ m \in 1 .. m /\ m - 1 \in 0 .. m /\ m \in 0 .. m
        BY <1>3, <3>2
      <4>3. last \in Run BY <1>3, <4>2, Element
      <4>4. /\ e \in [0 .. m -> Nat] /\ \A j \in 1 .. m :
                  Covers(geom, dir.start, chain, runs[j], e[j - 1], e[j])
        BY <2>2 DEF Laid
      <4>5. /\ e[m - 1] \in Nat /\ e[m] \in Nat /\ e[m] = (k - 1) * per
            /\ Covers(geom, dir.start, chain, last, e[m - 1], e[m])
        <5> HIDE DEF m, last, chain, per
        <5>1. e[m - 1] \in Nat /\ e[m] \in Nat BY <4>2, <4>4
        <5>2. Covers(geom, dir.start, chain, runs[m], e[m - 1], e[m]) BY <4>2, <4>4
        <5> QED BY <2>2, <5>1, <5>2 DEF last, m
      <4>6. new.at = at /\ new.len = geom.bpc OBVIOUS
      <4>7. Covers(geom, dir.start, chain, joined, e[m - 1], k * per)
        <5> HIDE DEF m, last, chain, per, new, at
        <5>1. Covers(geom, dir.start, chain, new, e[m], k * per) BY <2>4, <4>5
        <5>2. Covers(geom, dir.start, chain, [at |-> last.at, len |-> last.len + new.len],
                     e[m - 1], k * per)
          BY <2>4, <3>2, <4>3, <4>5, <4>6, <5>1, RunJoined
        <5> QED BY <4>6, <5>2
      <4>8. joined \in Run
        <5>1. last.at \in Nat /\ last.len + geom.bpc \in Nat BY <2>4, <4>3 DEF Run
        <5> QED BY <5>1 DEF Run
      <4>9. e[m] <= k * per
        <5> HIDE DEF m, per, chain
        <5> QED BY <2>4, <4>5
      <4> DEFINE start == dir.start
                 n == k * per
      <4>10. /\ runs \in Seq(Run) /\ runs # <<>> /\ joined \in Run /\ n \in Nat
             /\ Laid(geom, start, chain, runs, e) /\ e[Len(runs)] <= n
             /\ Covers(geom, start, chain, joined, e[Len(runs) - 1], n)
             /\ LastIs(runs, joined, runs')
        BY <1>3, <2>2, <2>4, <3>2, <4>1, <4>7, <4>8, <4>9 DEF LastIs
      <4> HIDE DEF joined, chain, start, n
      <4>11. \E f : Laid(geom, start, chain, runs', f) /\ f[Len(runs')] = n
        BY ONLY <4>10, LastReplaced
      <4> QED BY <4>11 DEF start, n
    <3> QED BY <3>1, <3>2
  <2>9. PICK f : Laid(geom, dir.start, chain, runs', f) /\ f[Len(runs')] = k * per BY <2>8
  <2>10. ExtentsLaid(f)'
    <3>1. dir'.next - 1 = k BY <1>3, <2>6
    <3> QED BY <1>1, <2>6, <2>9, <3>1 DEF ExtentsLaid, RunsLaid, Per
  <2>11. dir'.next - 1 <= Len(dir'.chain) BY <1>3, <2>6
  <2> QED BY <1>1, <2>1, <2>6, <2>7, <2>10, <2>11 DEF ExtentsPart
<1> QED BY <1>1, <1>2, <1>4 DEF ListInv, EarlyPart, ListParts, WalkPart, ReadPart, DonePart

LEMMA EnoughTaken ==
    ASSUME NEW m \in Nat, NEW q \in Nat, NEW per \in Nat, NEW size \in Nat \ {0},
           m * size <= q * (per * size)
    PROVE  m <= q * per
<1> DEFINE n == q * per
<1>1. n \in Nat BY MulNat
<1>2. q * (per * size) = n * size OBVIOUS
<1>3. m * size \in Nat /\ n * size \in Nat BY <1>1, MulNat
<1> HIDE DEF n
<1>4. ASSUME n < m PROVE FALSE
  <2>1. n + 1 \in Nat /\ n + 1 <= m BY <1>1, <1>4
  <2>2. (n + 1) * size <= m * size BY <2>1, Products
  <2>3. (n + 1) * size = n * size + size BY <1>1
  <2>4. m * size <= n * size BY <1>2
  <2> QED BY <1>3, <2>2, <2>3, <2>4
<1>5. m <= n BY <1>1, <1>4
<1> QED BY <1>5 DEF n

\* Every cluster has its run, or as many as the limit on records asks for.
LEMMA ExtendedLists == ASSUME Inv, ListInv, Extended PROVE ListInv'
<1> USE DEF EarlyStages, DoneStages
<1>1. /\ UNCHANGED <<geom, runs, listing>> /\ stage = "extents"
      /\ stage' = IF runs = <<>> THEN "tree" ELSE "read"
      /\ dir' = [dir EXCEPT !.next = 1]
  BY DEF Extended
<1>2. Derived(geom') BY <1>1 DEF ListInv
<1>3. CASE runs = <<>> BY <1>1, <1>2, <1>3, EarlyStays
<1>4. CASE runs # <<>>
  <2> DEFINE k == dir.next
             chain == dir.chain
             per == Per(geom)
             q == k - 1
             len == Len(chain)
  <2>1. dir'.start = dir.start /\ dir'.chain = chain /\ dir'.next = 1
    <3>1. DOMAIN dir = DOMAIN NoDir BY DEF Inv, DirInv
    <3> QED BY <1>1, <3>1 DEF NoDir, NewDir
  <2>2. q \in Nat /\ len \in Nat
    <3>1. chain \in Seq(2 .. LastCluster(geom)) /\ k \in Nat \ {0} BY DEF Inv, DirInv, ChainOf
    <3> HIDE DEF k, chain
    <3> QED BY <3>1
  <2>3. runs \in Seq(Run) BY DEF Inv, DirInv, Run
  <2>4. ASSUME Fits(geom) PROVE ReadPart'
    <3>1. /\ geom.sane /\ dir.start # 0 /\ listing = <<>> /\ q <= len
          /\ dir.taken = q * geom.bpc
      BY <1>1, <2>4 DEF ListInv, ListParts, ExtentsPart
    <3>2. \E e : ExtentsLaid(e)
      BY <1>1, <2>4 DEF ListInv, ListParts, ExtentsPart
    <3>3. PICK e : /\ Laid(geom, dir.start, chain, runs, e)
                   /\ e[Len(runs)] = q * per
      BY <3>2 DEF ExtentsLaid, RunsLaid
    <3>4. per \in Nat \ {0} /\ geom.bpc = per * RecordSize
      BY <2>4, <3>1, Layout DEF ListInv
    <3>5. RecordSize \in Nat \ {0} /\ MaxRecords \in Nat
      BY FatGeometryAssumption, FatVolumeAssumption
    <3>6. q * per \in Nat /\ len * per \in Nat /\ q * per <= len * per
      BY <2>2, <3>1, <3>4, Products
    <3>7. q = len \/ MaxRecords <= q * per
      <4>1. k > Len(chain) \/ dir.taken >= MaxDirBytes BY DEF Extended
      <4>2. CASE k > Len(chain)
        <5>1. k \in Nat BY DEF Inv, DirInv
        <5>2. k - 1 <= len /\ len < k BY <3>1, <4>2
        <5> HIDE DEF k, len
        <5> QED BY <2>2, <5>1, <5>2 DEF q
      <4>3. CASE dir.taken >= MaxDirBytes
        <5> HIDE DEF q, per
        <5>1. q * (per * RecordSize) >= MaxRecords * RecordSize
          BY <3>1, <3>4, <4>3 DEF MaxDirBytes
        <5>2. MaxRecords * RecordSize \in Nat /\ q * (per * RecordSize) \in Nat
          BY <2>2, <3>4, <3>5, MulNat
        <5>3. MaxRecords * RecordSize <= q * (per * RecordSize) BY <5>1, <5>2
        <5> QED BY <2>2, <3>4, <3>5, <5>3, EnoughTaken
      <4> QED BY <4>1, <4>2, <4>3
    <3>8. Min2(MaxRecords, q * per) = Min2(MaxRecords, len * per)
      <4> HIDE DEF q, per, len
      <4>1. CASE q = len BY <4>1
      <4>2. CASE MaxRecords <= q * per BY <3>5, <3>6, <4>2 DEF Min2
      <4> QED BY <3>7, <4>1, <4>2
    <3>9. RunsLaid(e)' BY <1>1, <2>1, <3>3 DEF RunsLaid
    <3>10. AllRecords' = len * per BY <1>1, <2>1, <3>1 DEF AllRecords, Total, Per
    <3>11. Min2(MaxRecords, e[Len(runs')]) = Min2(MaxRecords, AllRecords')
      BY <1>1, <3>3, <3>8, <3>10
    <3>12. e[0] = 0 BY <3>3 DEF Laid
    <3>13. dir'.next - 1 = 0 /\ 0 <= Len(runs') BY <1>1, <2>1, <2>3
    <3>14. listing' = (FirstRecords(e[dir.next - 1]))'
      <4>1. Min2(MaxRecords, 0) = 0 BY <3>5 DEF Min2
      <4>2. e[dir'.next - 1] = 0 BY <3>12, <3>13
      <4>3. (FirstRecords(e[dir.next - 1]))' = <<>> BY <4>1, <4>2 DEF FirstRecords, Records
      <4> QED BY <1>1, <3>1, <4>3
    <3>15. ReadLaid(e)' BY <3>9, <3>11, <3>13, <3>14 DEF ReadLaid
    <3> QED BY <1>1, <3>1, <3>15 DEF ReadPart
  <2> QED BY <1>1, <1>2, <1>4, <2>4
          DEF ListInv, EarlyPart, ListParts, WalkPart, ExtentsPart, DonePart
<1> QED BY <1>3, <1>4

\* What lies on the device is read whole, or not at all.
LEMMA ReadWhole ==
    ASSUME NEW at \in Nat, NEW len \in Nat, at + len <= DeviceLen,
           NEW want \in 0 .. len, Got(at, want) # Over
    PROVE  Got(at, want) = want
<1>1. DeviceLen \in Nat BY FatGeometryAssumption, FatVolumeAssumption
<1>2. CASE at >= DeviceLen BY <1>1, <1>2 DEF Got
<1>3. CASE at < DeviceLen
  <2>1. ~ Refuses(at, want) /\ Got(at, want) = Min2(want, DeviceLen - at)
    BY <1>1, <1>3 DEF Got
  <2>2. Min2(want, DeviceLen - at) = want BY <1>1, <1>3 DEF Min2
  <2> QED BY <2>1, <2>2
<1> QED BY <1>1, <1>2, <1>3

LEMMA RecordsLength ==
    ASSUME NEW g, NEW start, NEW chain, NEW n \in Nat
    PROVE  Len(Records(g, start, chain, n)) = n
<1> DEFINE S == {RecordAt(g, start, chain, i) : i \in 1 .. n}
           s == Records(g, start, chain, n)
<1>1. s = [i \in 1 .. n |-> RecordAt(g, start, chain, i)] BY DEF Records
<1>2. \A i \in 1 .. n : RecordAt(g, start, chain, i) \in S OBVIOUS
<1> HIDE DEF S, s
<1>3. Len(s) = n BY <1>1, <1>2
<1> QED BY <1>3 DEF s

\* A run adds its own records to those in front of it.
LEMMA ReadRunLists == ASSUME Inv, ListInv, ReadRun PROVE ListInv'
<1> USE DEF EarlyStages, DoneStages
<1> DEFINE j == dir.next
           run == runs[j]
           want == Min2(run.len, MaxDirBytes)
           got == Got(run.at, want)
<1>1. UNCHANGED <<geom, runs>> /\ stage = "read" /\ stage' \in {"tree", "read"}
  BY DEF ReadRun
<1>2. Derived(geom') BY <1>1 DEF ListInv
<1>3. CASE got = Over
  <2>1. stage' = "tree" /\ found' = found \union {PartUnread}
    BY <1>3 DEF ReadRun, PartUnread
  <2>2. PartUnread \in found' BY <2>1
  <2> QED BY <1>1, <1>2, <2>1, <2>2
          DEF ListInv, EarlyPart, ListParts, WalkPart, ExtentsPart, ReadPart, DonePart
<1>4. CASE got # Over
  <2>1. /\ listing' = listing \o RecordsOf(run.at, got) /\ stage' = "read"
        /\ dir' = [dir EXCEPT !.next = dir.next + 1]
    BY <1>1, <1>4 DEF ReadRun
  <2>2. dir'.start = dir.start /\ dir'.chain = dir.chain /\ dir'.next = j + 1
    <3>1. DOMAIN dir = DOMAIN NoDir BY DEF Inv, DirInv
    <3> QED BY <2>1, <3>1 DEF NoDir, NewDir
  <2>3. /\ runs \in Seq(Run) /\ j \in Nat \ {0} /\ j <= Len(runs)
        /\ Len(runs) \in Nat /\ Len(listing) < MaxRecords
    <3>1. runs \in Seq(Run) /\ j \in Nat \ {0} BY DEF Inv, DirInv, Run
    <3>2. j <= Len(runs) /\ Len(listing) < MaxRecords BY DEF ReadRun
    <3> HIDE DEF j
    <3> QED BY <3>1, <3>2
  <2>4. run \in Run /\ (InData(run) \/ IsRoot(run))
    <3>1. run \in Run /\ j \in DOMAIN runs BY <2>3, Element
    <3> QED BY <3>1 DEF Inv, DirInv
  <2>5. ASSUME Fits(geom) PROVE ReadPart'
    <3>1. geom.sane /\ \E e : ReadLaid(e)
      BY <1>1, <2>5 DEF ListInv, ListParts, ReadPart
    <3>2. PICK e : ReadLaid(e) BY <3>1
    <3> DEFINE from == e[j - 1]
               to == e[j]
               d == to - from
               start == dir.start
               chain == dir.chain
    <3>3. from \in Nat /\ to \in Nat /\ Covers(geom, start, chain, run, from, to)
      <4>1. /\ e \in [0 .. Len(runs) -> Nat]
            /\ \A i \in 1 .. Len(runs) : Covers(geom, start, chain, runs[i], e[i - 1], e[i])
        BY <3>2 DEF ReadLaid, RunsLaid, Laid
      <4>2. j \in 1 .. Len(runs) /\ j \in 0 .. Len(runs) /\ j - 1 \in 0 .. Len(runs)
        <5> HIDE DEF j
        <5> QED BY <2>3
      <4> HIDE DEF j, chain, start
      <4> QED BY <4>1, <4>2 DEF run
    <3>4. from <= to /\ run.len = d * RecordSize BY <3>3 DEF Covers
    <3>5. MaxRecords \in Nat /\ RecordSize \in Nat /\ MaxDirBytes \in Nat
      <4>1. MaxRecords \in Nat /\ RecordSize \in Nat
        BY FatGeometryAssumption, FatVolumeAssumption
      <4> QED BY <4>1, MulNat DEF MaxDirBytes
    <3>6. listing = Records(geom, start, chain, from) /\ from < MaxRecords
          /\ Len(listing) = from
      <4>1. listing = Records(geom, start, chain, Min2(MaxRecords, from))
        BY <3>2 DEF ReadLaid, FirstRecords
      <4> HIDE DEF from, start, chain
      <4>2. Min2(MaxRecords, from) \in Nat BY <3>3, <3>5 DEF Min2
      <4>3. Len(listing) = Min2(MaxRecords, from) BY <4>1, <4>2, RecordsLength
      <4>4. Min2(MaxRecords, from) = from /\ from < MaxRecords
        BY <2>3, <3>3, <3>5, <4>3 DEF Min2
      <4> QED BY <4>1, <4>3, <4>4
    <3>7. got = want
      <4>1. run.at \in Nat /\ run.len \in Nat BY <2>4 DEF Run
      <4>2. run.at + run.len <= DeviceLen
        <5>1. /\ geom.root_start + geom.root_len <= DeviceLen
              /\ geom.data_start + geom.count * geom.bpc <= DeviceLen
          BY <2>5, <3>1, Layout DEF ListInv
        <5>2. CASE IsRoot(run) BY <5>1, <5>2 DEF IsRoot
        <5>3. CASE InData(run)
          <6>1. run.at + run.len <= geom.data_start + geom.count * geom.bpc
            BY <5>3 DEF InData
          <6> DEFINE total == geom.count * geom.bpc
          <6>2. total \in Nat /\ geom.data_start \in Nat /\ DeviceLen \in Nat
            <7>1. geom.count \in Nat /\ geom.bpc \in Nat /\ geom.data_start \in Nat
              BY DEF Inv, GeomInv, Geom
            <7> QED BY <7>1, MulNat, FatGeometryAssumption, FatVolumeAssumption
          <6> HIDE DEF total, run
          <6> QED BY <4>1, <5>1, <6>1, <6>2 DEF total
        <5> QED BY <2>4, <5>2, <5>3
      <4> HIDE DEF run
      <4>3. want \in 0 .. run.len BY <3>5, <4>1 DEF Min2
      <4> HIDE DEF want
      <4>4. Got(run.at, want) = want BY <1>4, <4>1, <4>2, <4>3, ReadWhole
      <4> QED BY <4>4
    <3> DEFINE n == Min2(Min2(d * RecordSize, MaxDirBytes) \div RecordSize, MaxRecords - from)
    <3>8. n \in 0 .. to - from /\ from + n = Min2(MaxRecords, to)
      <4> HIDE DEF from, to
      <4> QED BY <3>3, <3>4, <3>6, RecordsWithin DEF d
    <3>9. RecordsOf(run.at, got) = RunRecords(run.at, n)
      <4>1. want = Min2(d * RecordSize, MaxDirBytes) BY <3>4
      <4> HIDE DEF run, want, got, d, from
      <4> QED BY <3>6, <3>7, <4>1 DEF RecordsOf, RunRecords
    <3>10. listing' = Records(geom, start, chain, from + n)
      <4>1. Records(geom, start, chain, from) \o RunRecords(run.at, n)
            = Records(geom, start, chain, from + n)
        <5> HIDE DEF n, from, to, start, chain, run
        <5> QED BY ONLY <3>3, <3>8, RecordsJoined
      <4>2. listing' = Records(geom, start, chain, from) \o RunRecords(run.at, n)
        <5> HIDE DEF n, from, start, chain, run, got
        <5> QED BY <2>1, <3>6, <3>9
      <4> QED BY <4>1, <4>2
    <3>11. dir'.next - 1 = j
      <4> HIDE DEF j
      <4> QED BY <2>2, <2>3
    <3>12. listing' = (FirstRecords(e[dir.next - 1]))'
      <4>1. listing' = Records(geom, start, chain, Min2(MaxRecords, to)) BY <3>8, <3>10
      <4>2. e[dir'.next - 1] = to BY <3>11
      <4> QED BY <1>1, <2>2, <4>1, <4>2 DEF FirstRecords, Records, RecordAt, Per
    <3>13. RunsLaid(e)' BY <1>1, <2>2, <3>2 DEF ReadLaid, RunsLaid
    <3>14. AllRecords' = AllRecords BY <1>1, <2>2 DEF AllRecords, Total, Per
    <3>15. Min2(MaxRecords, e[Len(runs')]) = Min2(MaxRecords, AllRecords')
      BY <1>1, <3>2, <3>14 DEF ReadLaid
    <3>16. dir'.next - 1 <= Len(runs') BY <1>1, <2>3, <3>11
    <3>17. ReadLaid(e)' BY <3>12, <3>13, <3>15, <3>16 DEF ReadLaid
    <3> QED BY <1>1, <3>1, <3>17 DEF ReadPart
  <2> QED BY <1>1, <1>2, <2>1, <2>5
          DEF ListInv, EarlyPart, ListParts, WalkPart, ExtentsPart, DonePart
<1> QED BY <1>3, <1>4

\* When reading ends, the listing is whole.
LEMMA ListedLists == ASSUME Inv, ListInv, Listed PROVE ListInv'
<1> USE DEF EarlyStages, DoneStages
<1>1. /\ UNCHANGED <<geom, dir, runs, listing, found>>
      /\ stage = "read" /\ stage' = "tree"
      /\ dir.next > Len(runs) \/ Len(listing) >= MaxRecords
  BY DEF Listed, opened
<1>2. Derived(geom') BY <1>1 DEF ListInv
<1>3. ASSUME Fits(geom) PROVE listing = FirstRecords(AllRecords)
  <2>1. \E e : ReadLaid(e) BY <1>1, <1>3 DEF ListInv, ListParts, ReadPart
  <2>2. PICK e : ReadLaid(e) BY <2>1
  <2> DEFINE j == dir.next
             last == Len(runs)
             from == e[j - 1]
             to == e[last]
  <2>3. /\ e \in [0 .. last -> Nat] /\ \A i \in 0 .. last : e[i] <= to
        /\ j - 1 <= last
        /\ listing = FirstRecords(from)
        /\ Min2(MaxRecords, to) = Min2(MaxRecords, AllRecords)
    BY <2>2 DEF ReadLaid, RunsLaid, Laid
  <2>4. j \in Nat \ {0} /\ last \in Nat
    <3>1. runs \in Seq(Run) /\ j \in Nat \ {0} BY DEF Inv, DirInv, Run
    <3> HIDE DEF j
    <3> QED BY <3>1
  <2>5. j > last \/ Len(listing) >= MaxRecords BY <1>1
  <2>6. MaxRecords \in Nat BY FatVolumeAssumption
  <2>7. from \in Nat /\ to \in Nat /\ from <= to
    <3> HIDE DEF j, last
    <3>1. j - 1 \in 0 .. last /\ last \in 0 .. last BY <2>3, <2>4
    <3> QED BY <2>3, <3>1
  <2>8. Min2(MaxRecords, from) = Min2(MaxRecords, to)
    <3>1. CASE j > last
      <4> HIDE DEF j, last
      <4>1. j - 1 = last BY <2>3, <2>4, <3>1
      <4> QED BY <4>1
    <3>2. CASE Len(listing) >= MaxRecords
      <4>1. listing = Records(geom, dir.start, dir.chain, Min2(MaxRecords, from))
        BY <2>3 DEF FirstRecords
      <4> HIDE DEF from, to
      <4>2. Min2(MaxRecords, from) \in Nat BY <2>6, <2>7 DEF Min2
      <4>3. Len(listing) = Min2(MaxRecords, from) BY <4>1, <4>2, RecordsLength
      <4> QED BY <2>6, <2>7, <3>2, <4>3 DEF Min2
    <3> QED BY <2>5, <3>1, <3>2
  <2> QED BY <2>3, <2>8 DEF FirstRecords
<1>4. ASSUME Fits(geom) PROVE DonePart'
  <2>1. FirstRecords(AllRecords)' = FirstRecords(AllRecords)
    BY <1>1 DEF FirstRecords, AllRecords, Records, RecordAt, Total, Per
  <2> QED BY <1>1, <1>3, <1>4, <2>1 DEF DonePart
<1> QED BY <1>1, <1>2, <1>4 DEF ListInv, EarlyPart, ListParts, WalkPart, ExtentsPart, ReadPart

LEMMA ListsNext == Inv /\ ListInv /\ [Next]_vars => ListInv'
<1> SUFFICES ASSUME Inv, ListInv, [Next]_vars PROVE ListInv' OBVIOUS
<1>1. CASE Next
  <2>1. ASSUME NEW n \in 0 .. MaxCopies - 1, n < geom.fats /\ PreviewTable(n)
        PROVE  ListInv'
    <3>1. UNCHANGED <<geom, dir, runs, listing, stage>> /\ found \subseteq found'
      BY <2>1 DEF PreviewTable, opened
    <3> QED BY <3>1, SameListing
  <2>2. ASSUME Others PROVE ListInv'
    <3>1. UNCHANGED reader
      BY <2>2 DEF Others, BeginFormat, WritePiece, FormatterDies, DriverWrites, DamageField,
                  Refuse
    <3> QED BY <3>1, SameListing DEF reader, opened
  <2>3. ASSUME List PROVE ListInv'
    BY <2>3, WalkLists, ExtendLists, ExtendedLists, ReadRunLists, ListedLists DEF List
  <2> QED
    BY <1>1, <2>1, <2>2, <2>3, OpenLists, CompareLists, OpenRootLists, OpenDirectoryLists
    DEF Next, Others
<1>2. CASE UNCHANGED vars BY <1>2, SameListing DEF vars, opened
<1> QED BY <1>1, <1>2

LEMMA ListsInPlace == Inv /\ ListInv => ListedInPlace
<1> SUFFICES ASSUME Inv, ListInv,
                    stage = "tree", runs # <<>>, geom.base + VolumeBytes(geom) <= DeviceLen,
                    PartUnread \notin found
             PROVE  listing = IF dir.start = 0 THEN InRootArea ELSE InChainOrder(dir.chain)
  BY DEF ListedInPlace, Inv, PartUnread
<1>1. listing = FirstRecords(AllRecords)
  BY DEF ListInv, ListParts, DonePart, DoneStages, Fits
<1>2. CASE dir.start = 0
  <2>1. FirstRecords(AllRecords) = InRootArea
    BY <1>2 DEF FirstRecords, AllRecords, Total, Records, RecordAt, InRootArea
  <2> QED BY <1>1, <1>2, <2>1
<1>3. CASE dir.start # 0
  <2>1. FirstRecords(AllRecords) = InChainOrder(dir.chain)
    BY <1>3 DEF FirstRecords, AllRecords, Total, Records, RecordAt, InChainOrder, Per
  <2> QED BY <1>1, <1>3, <2>1
<1> QED BY <1>2, <1>3

\* In every run, when a directory has been read whole and the volume is within the device,
\* what is listed are the records of its clusters in the order of the chain, or those of the
\* fixed root, each once, all of them up to the limit, however clusters are merged into runs
\* (DirExpander::expand).
THEOREM AlwaysListed == Spec => []ListedInPlace
<1>1. Init => Inv /\ ListInv BY InvInit, InitLists
<1>2. Inv /\ ListInv /\ [Next]_vars => (Inv /\ ListInv)' BY InvNext, ListsNext
<1> QED BY <1>1, <1>2, ListsInPlace, PTL DEF Spec

---------------------------------------------------------------------------
(* What a comparison of tables lists.                                      *)

Increasing(s) == \A i, j \in 1 .. Len(s) : i < j => s[i] < s[j]

\* The first of the places D below `end`, in order and not more than the limit.
FirstOf(ds, D, end) ==
    /\ ds \in Seq(Nat) /\ Len(ds) <= MaxDiffs /\ Increasing(ds)
    /\ \A i \in 1 .. Len(ds) : ds[i] \in D /\ ds[i] < end
    /\ \A k \in D : k < end => \/ \E i \in 1 .. Len(ds) : ds[i] = k
                               \/ Len(ds) = MaxDiffs /\ \A i \in 1 .. Len(ds) : ds[i] < k
\* All places of D from a on and below b.
NextOf(t, D, a, b) ==
    /\ t \in Seq(Nat) /\ Increasing(t)
    /\ \A i \in 1 .. Len(t) : t[i] \in D /\ a <= t[i] /\ t[i] < b
    /\ \A k \in D : a <= k /\ k < b => \E i \in 1 .. Len(t) : t[i] = k
Cut(all) == SubSeq(all, 1, Min2(Len(all), MaxDiffs))

LEMMA FirstOfNone == ASSUME NEW D \in SUBSET Nat PROVE FirstOf(<<>>, D, 0)
<1>1. <<>> \in Seq(Nat) /\ Len(<<>>) = 0 /\ 1 .. 0 = {} /\ \A k \in D : ~ (k < 0) OBVIOUS
<1>2. MaxDiffs \in Nat BY FatVolumeAssumption
<1> QED BY <1>1, <1>2 DEF FirstOf, Increasing

\* The first below a, and the next up to b, cut at the limit, are the first below b.
LEMMA FirstOfMore ==
    ASSUME NEW D \in SUBSET Nat, NEW a \in Nat, NEW b \in Nat, a <= b,
           NEW ds, FirstOf(ds, D, a), NEW t, NextOf(t, D, a, b)
    PROVE  FirstOf(Cut(ds \o t), D, b)
<1> DEFINE m == Len(ds)
           n == Len(t)
           all == ds \o t
           l == Min2(m + n, MaxDiffs)
           c == Cut(all)
<1>1. /\ ds \in Seq(Nat) /\ m <= MaxDiffs /\ \A i, j \in 1 .. m : i < j => ds[i] < ds[j]
      /\ \A i \in 1 .. m : ds[i] \in D /\ ds[i] < a
  BY DEF FirstOf, Increasing
<1>2. ASSUME NEW k \in D, k < a
      PROVE  \/ \E i \in 1 .. m : ds[i] = k
             \/ m = MaxDiffs /\ \A i \in 1 .. m : ds[i] < k
  BY <1>2 DEF FirstOf
<1>3. /\ t \in Seq(Nat) /\ \A i, j \in 1 .. n : i < j => t[i] < t[j]
      /\ \A i \in 1 .. n : t[i] \in D /\ a <= t[i] /\ t[i] < b
      /\ \A k \in D : a <= k /\ k < b => \E i \in 1 .. n : t[i] = k
  BY DEF NextOf, Increasing
<1>4. m \in Nat /\ n \in Nat /\ MaxDiffs \in Nat BY <1>1, <1>3, FatVolumeAssumption
<1>5. /\ all \in Seq(Nat) /\ Len(all) = m + n
      /\ \A i \in 1 .. m : all[i] = ds[i]
      /\ \A i \in 1 .. n : all[m + i] = t[i]
  BY <1>1, <1>3
<1>6. l \in 0 .. m + n /\ l <= MaxDiffs /\ m <= l /\ (l = m + n \/ l = MaxDiffs)
  <2> HIDE DEF m, n
  <2> QED BY <1>1, <1>4 DEF Min2
<1> HIDE DEF all, m, n
<1>7. c \in Seq(Nat) /\ Len(c) = l /\ \A i \in 1 .. l : c[i] = all[i]
  <2>1. c = SubSeq(all, 1, l) BY <1>5 DEF Cut
  <2> HIDE DEF l, c
  <2>2. l \in 0 .. Len(all) BY <1>5, <1>6
  <2> QED BY <1>5, <2>1, <2>2
<1> HIDE DEF l, c
<1>8. ASSUME NEW i \in 1 .. m + n, i > m
      PROVE  i - m \in 1 .. n /\ all[i] = t[i - m]
  <2>1. i - m \in 1 .. n /\ m + (i - m) = i BY <1>4, <1>8
  <2> QED BY <1>5, <2>1
<1>9. ASSUME NEW i \in 1 .. m + n PROVE all[i] \in D /\ all[i] \in Nat /\ all[i] < b
  <2>1. CASE i <= m
    <3>1. i \in 1 .. m BY <1>4, <2>1
    <3>2. all[i] \in D /\ all[i] < a BY <1>1, <1>5, <3>1
    <3>3. all[i] \in Nat BY <3>2
    <3> QED BY <3>2, <3>3
  <2>2. CASE i > m
    <3>1. i - m \in 1 .. n /\ all[i] = t[i - m] BY <1>8, <2>2
    <3> QED BY <1>3, <3>1
  <2> QED BY <1>4, <2>1, <2>2
<1>10. ASSUME NEW i \in 1 .. m + n, NEW j \in 1 .. m + n, i < j PROVE all[i] < all[j]
  <2>1. CASE j <= m
    <3>1. i \in 1 .. m /\ j \in 1 .. m BY <1>4, <1>10, <2>1
    <3> QED BY <1>1, <1>5, <1>10, <3>1
  <2>2. CASE j > m /\ i <= m
    <3>1. i \in 1 .. m BY <1>4, <2>2
    <3>2. all[i] < a BY <1>1, <1>5, <3>1
    <3>3. j - m \in 1 .. n /\ all[j] = t[j - m] BY <1>8, <2>2
    <3>4. a <= all[j] BY <1>3, <3>3
    <3> QED BY <1>9, <3>2, <3>4
  <2>3. CASE i > m /\ j > m
    <3>1. i - m \in 1 .. n /\ all[i] = t[i - m] BY <1>8, <2>3
    <3>2. j - m \in 1 .. n /\ all[j] = t[j - m] BY <1>8, <2>3
    <3>3. i - m < j - m BY <1>4, <1>10
    <3> QED BY <1>3, <3>1, <3>2, <3>3
  <2> QED BY <1>4, <1>10, <2>1, <2>2, <2>3
<1>11. \A i \in 1 .. l : i \in 1 .. m + n BY <1>4, <1>6
<1>12. Increasing(c) BY <1>7, <1>10, <1>11 DEF Increasing
<1>13. \A i \in 1 .. l : c[i] \in D /\ c[i] < b BY <1>7, <1>9, <1>11
<1>14. ASSUME NEW k \in D, k < b
       PROVE  \/ \E i \in 1 .. l : c[i] = k
              \/ l = MaxDiffs /\ \A i \in 1 .. l : c[i] < k
  <2>1. CASE k < a
    <3>1. CASE \E i \in 1 .. m : ds[i] = k
      <4>1. PICK i \in 1 .. m : ds[i] = k BY <3>1
      <4>2. i \in 1 .. l BY <1>4, <1>6
      <4> QED BY <1>5, <1>7, <4>1, <4>2
    <3>2. CASE m = MaxDiffs /\ \A i \in 1 .. m : ds[i] < k
      <4>1. l = m BY <1>4, <1>6, <3>2
      <4> QED BY <1>5, <1>7, <3>2, <4>1
    <3> QED BY <1>2, <2>1, <3>1, <3>2
  <2>2. CASE ~ (k < a)
    <3>1. PICK i \in 1 .. n : t[i] = k BY <1>3, <1>14, <2>2
    <3>2. m + i \in 1 .. m + n /\ all[m + i] = k BY <1>4, <1>5, <3>1
    <3>3. CASE m + i <= l
      <4>1. m + i \in 1 .. l BY <1>4, <3>2, <3>3
      <4> QED BY <1>7, <3>2, <4>1
    <3>4. CASE ~ (m + i <= l)
      <4>1. l = MaxDiffs BY <1>4, <1>6, <3>2, <3>4
      <4>2. ASSUME NEW j \in 1 .. l PROVE c[j] < k
        <5>1. j \in 1 .. m + n /\ j < m + i BY <1>4, <1>6, <3>2, <3>4
        <5> QED BY <1>7, <1>10, <3>2, <5>1
      <4> QED BY <4>1, <4>2
    <3> QED BY <3>3, <3>4
  <2> QED BY <2>1, <2>2
<1>15. FirstOf(c, D, b) BY <1>6, <1>7, <1>12, <1>13, <1>14 DEF FirstOf
<1> QED BY <1>15 DEF c, all

Ascending(s, n) ==
    /\ \A i \in 1 .. n : s[i] \in Nat
    /\ \A i, j \in 1 .. n : i < j => s[i] < s[j]
\* t has, in order, what s has at the places P.
Keeps(t, s, P) ==
    /\ t \in Seq(Nat) /\ Increasing(t)
    /\ \A i \in 1 .. Len(t) : \E h \in P : t[i] = s[h]
    /\ \A h \in P : \E i \in 1 .. Len(t) : t[i] = s[h]

LEMMA OnlyIncreasing ==
    ASSUME NEW n \in Nat, NEW P \in SUBSET (1 .. n), NEW s, Ascending(s, n)
    PROVE  Keeps(Only(s, P), s, P)
<1> DEFINE t == Only(s, P)
           size == Cardinality(P)
<1>0. /\ \A i \in 1 .. n : s[i] \in Nat
      /\ \A i, j \in 1 .. n : i < j => s[i] < s[j]
  BY DEF Ascending
<1>1. \A h \in P : h \in 1 .. n /\ h \in Nat OBVIOUS
<1>2. /\ \A h \in P : Rank(P, h) \in 1 .. size /\ t[Rank(P, h)] = s[h]
      /\ \A k \in 1 .. size : Nth(P, k) \in P /\ t[k] = s[Nth(P, k)]
  <2>1. \A h \in P : Rank(P, h) \in 1 .. size BY RankFacts
  <2>2. \A k \in 1 .. size : Nth(P, k) \in P BY NthFacts
  <2>3. \A h \in P : Nth(P, Rank(P, h)) = h BY NthFacts
  <2>4. \A k \in 1 .. size : t[k] = s[Nth(P, k)] BY DEF Only
  <2> HIDE DEF t, size
  <2> QED BY <2>1, <2>2, <2>3, <2>4
<1>3. size \in Nat BY RankFacts
<1>4. t = [k \in 1 .. size |-> t[k]] BY DEF Only
<1>5. \A k \in 1 .. size : Nth(P, k) \in P /\ Rank(P, Nth(P, k)) = k BY NthFacts
<1> HIDE DEF t, size
<1>6. t \in Seq(Nat) /\ Len(t) = size
  <2>1. \A k \in 1 .. size : t[k] \in Nat BY <1>0, <1>1, <1>2
  <2> QED BY <1>3, <1>4, <2>1
<1>7. ASSUME NEW i \in 1 .. size, NEW j \in 1 .. size, i < j PROVE t[i] < t[j]
  <2>1. PICK p \in P : p = Nth(P, i) /\ Rank(P, p) = i BY <1>5
  <2>2. PICK q \in P : q = Nth(P, j) /\ Rank(P, q) = j BY <1>5
  <2>3. p \in Nat /\ q \in Nat BY <1>1
  <2>4. ~ (q < p) /\ p # q
    <3>1. ASSUME q < p PROVE FALSE
      <4>1. Rank(P, q) < Rank(P, p) BY <3>1, RankFacts
      <4> QED BY <1>3, <1>7, <2>1, <2>2, <4>1
    <3>2. ASSUME p = q PROVE FALSE BY <1>3, <1>7, <2>1, <2>2, <3>2
    <3> QED BY <3>1, <3>2
  <2>5. p < q BY <2>3, <2>4
  <2>6. t[i] = s[p] /\ t[j] = s[q] BY <1>2, <2>1, <2>2
  <2> QED BY <1>0, <1>1, <2>5, <2>6
<1>8. Increasing(t) BY <1>6, <1>7 DEF Increasing
<1>9. \A i \in 1 .. Len(t) : \E h \in P : t[i] = s[h] BY <1>2, <1>6
<1>10. \A h \in P : \E i \in 1 .. Len(t) : t[i] = s[h] BY <1>2, <1>6
<1> QED BY <1>6, <1>8, <1>9, <1>10 DEF Keeps, t

LEMMA CompareEndType == ASSUME GeomInv PROVE CompareEnd(geom) \in Nat
<1>1. FatBytes(geom) \in Nat BY TableType DEF GeomInv
<1>2. CompareLimit \in Nat BY FatVolumeAssumption
<1> QED BY <1>1, <1>2 DEF CompareEnd, Min2

LEMMA DifferingType == ASSUME GeomInv, NEW n PROVE Differing(n) \in SUBSET Nat
<1>1. CompareEnd(geom) \in Nat BY CompareEndType
<1> QED BY <1>1 DEF Differing

\* What a read gives, if it gives something.
LEMMA ReadBytesFacts ==
    ASSUME NEW at \in Nat, NEW len \in Nat, refused \subseteq Nat,
           ReadBytes(at, len) # Unread
    PROVE  LET s == ReadBytes(at, len)
           IN  /\ Len(s) \in Nat /\ Len(s) <= len
               /\ \A i \in 1 .. Len(s) : s[i] = bytes[at + i - 1] /\ Got(at + i - 1, 1) = 1
<1> DEFINE s == ReadBytes(at, len)
           n == Got(at, len)
           S == {bytes[at + i - 1] : i \in 1 .. n}
<1>1. DeviceLen \in Nat /\ BootSectorLen \in Nat
  BY FatGeometryAssumption, FatVolumeAssumption
<1>2. n # Over /\ s = [i \in 1 .. n |-> bytes[at + i - 1]] BY DEF ReadBytes
<1>3. CASE at >= DeviceLen
  <2>1. n = 0 BY <1>3 DEF Got
  <2>2. s = <<>> /\ 1 .. 0 = {} BY <1>2, <2>1
  <2> HIDE DEF s
  <2> QED BY <2>2 DEF s
<1>4. CASE ~ (at >= DeviceLen)
  <2>1. ~ Refuses(at, len) /\ n = Min2(len, DeviceLen - at) BY <1>2, <1>4 DEF Got
  <2>2. n \in Nat /\ n <= len /\ at + n <= DeviceLen BY <1>1, <1>4, <2>1 DEF Min2
  <2>3. \A i \in 1 .. n : bytes[at + i - 1] \in S OBVIOUS
  <2> HIDE DEF n, S
  <2>4. Len(s) = n /\ \A i \in 1 .. n : s[i] = bytes[at + i - 1]
    <3> HIDE DEF s
    <3> QED BY <1>2, <2>2, <2>3
  <2>5. ASSUME NEW i \in 1 .. n PROVE Got(at + i - 1, 1) = 1
    <3> DEFINE k == at + i - 1
    <3>1. k \in Nat /\ k < DeviceLen /\ at <= k /\ k + 1 <= at + len BY <1>1, <2>2
    <3> HIDE DEF k
    <3>2. ~ Refuses(k, 1)
      <4> SUFFICES ASSUME NEW x \in refused, x < k + 1, k < x + BootSectorLen, x < DeviceLen
                   PROVE  FALSE
        BY DEF Refuses
      <4>1. x \in Nat OBVIOUS
      <4>2. x < at + len /\ at < x + BootSectorLen BY <1>1, <3>1, <4>1
      <4> QED BY <2>1, <4>2 DEF Refuses
    <3>3. Min2(1, DeviceLen - k) = 1 BY <1>1, <3>1 DEF Min2
    <3>4. ~ (k >= DeviceLen) BY <1>1, <3>1
    <3> QED BY <3>2, <3>3, <3>4 DEF Got, k
  <2> HIDE DEF s
  <2> QED BY <2>2, <2>4, <2>5 DEF s
<1> QED BY <1>3, <1>4

\* The chunks differ where the tables do.
LEMMA ChunksDiffer ==
    ASSUME GeomInv, NEW n \in Nat, refused \subseteq Nat, cmp.at \in Nat, Want \in Nat,
           cmp.at + Want <= CompareEnd(geom),
           NEW left, left = ReadBytes(FatOffset(geom, 0) + cmp.at, Want), left # Unread,
           NEW right, right = ReadBytes(FatOffset(geom, n) + cmp.at, Want), right # Unread
    PROVE  LET m == Min2(Len(left), Len(right))
           IN  /\ m \in 0 .. Want
               /\ ~ (Len(left) < Want \/ Len(right) < Want) => m = Want
               /\ NextOf(DiffsAt(left, right), Differing(n), cmp.at, cmp.at + m)
<1> DEFINE m == Min2(Len(left), Len(right))
           a == cmp.at
           P == {i \in 1 .. m : left[i] # right[i]}
           s == [i \in 1 .. m |-> a + i - 1]
           t == Only(s, P)
           D == Differing(n)
           base(c) == FatOffset(geom, c)
<1>1. base(0) \in Nat /\ base(n) \in Nat
  <2>1. \A c \in Nat : FatOffset(geom, c) \in Nat BY TableType DEF GeomInv
  <2> QED BY <2>1
<1>2. base(0) + a \in Nat /\ base(n) + a \in Nat BY <1>1
<1>3. /\ Len(left) \in Nat /\ Len(left) <= Want
      /\ \A i \in 1 .. Len(left) : left[i] = bytes[base(0) + a + i - 1]
  BY <1>2, ReadBytesFacts
<1>4. /\ Len(right) \in Nat /\ Len(right) <= Want
      /\ \A i \in 1 .. Len(right) :
            right[i] = bytes[base(n) + a + i - 1] /\ Got(base(n) + a + i - 1, 1) = 1
  BY <1>2, ReadBytesFacts
<1>5. m \in Nat /\ m <= Want /\ m <= Len(left) /\ m <= Len(right) BY <1>3, <1>4 DEF Min2
<1>6. ~ (Len(left) < Want \/ Len(right) < Want) => m = Want BY <1>3, <1>4 DEF Min2
<1>7. t = DiffsAt(left, right) BY DEF DiffsAt
<1>8. ASSUME NEW i \in 1 .. m
      PROVE  /\ a + i - 1 \in 0 .. CompareEnd(geom) - 1 /\ a <= a + i - 1 /\ a + i - 1 < a + m
             /\ a + i - 1 \in D <=> left[i] # right[i]
  <2> DEFINE k == a + i - 1
  <2>1. i \in 1 .. Len(left) /\ i \in 1 .. Len(right) BY <1>3, <1>4, <1>5
  <2>2. /\ left[i] = bytes[base(0) + a + i - 1] /\ right[i] = bytes[base(n) + a + i - 1]
        /\ Got(base(n) + a + i - 1, 1) = 1
    BY <1>3, <1>4, <2>1
  <2>3. base(0) + k = base(0) + a + i - 1 /\ base(n) + k = base(n) + a + i - 1 BY <1>1
  <2>4. CompareEnd(geom) \in Nat BY CompareEndType
  <2>5. k \in 0 .. CompareEnd(geom) - 1 /\ a <= k /\ k < a + m BY <1>5, <2>4
  <2>6. k \in D <=> left[i] # right[i] BY <2>2, <2>3, <2>5 DEF Differing
  <2> QED BY <2>5, <2>6
<1> HIDE DEF m, a, D
<1>9. a \in Nat BY DEF a
<1>10. /\ t \in Seq(Nat) /\ Increasing(t)
       /\ \A i \in 1 .. Len(t) : \E h \in P : t[i] = s[h]
       /\ \A h \in P : \E i \in 1 .. Len(t) : t[i] = s[h]
  <2>1. m \in Nat /\ P \in SUBSET (1 .. m) BY <1>5
  <2>2. Ascending(s, m) BY <1>9 DEF Ascending
  <2>3. Keeps(t, s, P)
    <3> HIDE DEF s, P
    <3> QED BY <2>1, <2>2, OnlyIncreasing
  <2> QED BY <2>3 DEF Keeps
<1>11. \A h \in P : h \in 1 .. m /\ s[h] = a + h - 1 /\ left[h] # right[h] OBVIOUS
<1>12. \A h \in 1 .. m : left[h] # right[h] => h \in P OBVIOUS
<1> HIDE DEF s, P, t
<1>13. \A i \in 1 .. Len(t) : t[i] \in D /\ a <= t[i] /\ t[i] < a + m
  <2> SUFFICES ASSUME NEW i \in 1 .. Len(t) PROVE t[i] \in D /\ a <= t[i] /\ t[i] < a + m
    OBVIOUS
  <2>1. PICK h \in P : t[i] = s[h] BY <1>10
  <2> QED BY <1>8, <1>11, <2>1
<1>14. ASSUME NEW k \in D, a <= k, k < a + m PROVE \E i \in 1 .. Len(t) : t[i] = k
  <2>1. k \in Nat BY DifferingType DEF D
  <2>2. k - a + 1 \in 1 .. m /\ a + (k - a + 1) - 1 = k BY <1>5, <1>9, <1>14, <2>1
  <2>3. k - a + 1 \in P BY <1>8, <1>12, <2>2
  <2>4. s[k - a + 1] = k BY <1>11, <2>2, <2>3
  <2> QED BY <1>10, <2>3, <2>4
<1>15. NextOf(t, D, a, a + m) BY <1>10, <1>13, <1>14 DEF NextOf
<1>16. m \in 0 .. Want BY <1>5
<1> QED BY <1>6, <1>7, <1>15, <1>16 DEF m, a, D

---------------------------------------------------------------------------
(* While nobody writes, a comparison has listed the first differences.     *)

Verdict == [at : Nat, diffs : Seq(Nat), stopped : BOOLEAN]
VerdictTrue(v, D, all) ==
    /\ \E end \in Nat : FirstOf(v.diffs, D, end)
    /\ v.stopped \/ FirstOf(v.diffs, D, all)

\* A comparison with copy n has come to cmp.at.
ComparedTo(n) ==
    /\ n = cmp.copy /\ Len(verdicts) = n - 1 /\ FirstOf(cmp.diffs, Differing(n), cmp.at)
    /\ stage = "compare with" =>
          cmp.left = ReadBytes(FatOffset(geom, 0) + cmp.at, Want)
Comparing == stage \in {"compare", "compare with"} => \E n \in Copies(geom) : ComparedTo(n)
VerdictsTrue ==
    \A n \in 1 .. Len(verdicts) : VerdictTrue(verdicts[n], Differing(n), CompareEnd(geom))
CalmTrue == verdicts \in Seq(Verdict) /\ Comparing /\ VerdictsTrue
MirrorInv ==
    /\ refused \subseteq Nat
    /\ stage = "probed" => verdicts = <<>>
    /\ calm => CalmTrue

LEMMA SameTables ==
    ASSUME UNCHANGED <<geom, refused, bytes>>
    PROVE  /\ \A n : Differing(n)' = Differing(n)
           /\ CompareEnd(geom)' = CompareEnd(geom) /\ Copies(geom)' = Copies(geom)
           /\ \A at, len : ReadBytes(at, len)' = ReadBytes(at, len)
           /\ \A n : FatOffset(geom, n)' = FatOffset(geom, n)
BY DEF Differing, ReadBytes, Got, Refuses

LEMMA SameVerdicts ==
    ASSUME VerdictsTrue, UNCHANGED <<geom, refused, bytes, verdicts>>
    PROVE  VerdictsTrue'
BY SameTables DEF VerdictsTrue

\* A step that leaves the tables and the comparison alone.
LEMMA MirrorStays ==
    ASSUME MirrorInv, UNCHANGED <<geom, refused, bytes, verdicts, cmp>>, calm' => calm,
           stage' \in {"compare", "compare with", "probed"} => stage' = stage
    PROVE  MirrorInv'
<1>1. ASSUME calm' PROVE CalmTrue'
  <2>1. CalmTrue BY <1>1 DEF MirrorInv
  <2>2. VerdictsTrue' BY <2>1, SameVerdicts DEF CalmTrue
  <2>3. Comparing'
    <3> SUFFICES ASSUME stage' \in {"compare", "compare with"}
                 PROVE  \E n \in Copies(geom)' : ComparedTo(n)'
      BY DEF Comparing
    <3>1. stage' = stage OBVIOUS
    <3>2. PICK n \in Copies(geom) : ComparedTo(n) BY <2>1, <3>1 DEF CalmTrue, Comparing
    <3>3. Want' = Want BY DEF Want
    <3>4. ComparedTo(n)' BY <3>1, <3>2, <3>3, SameTables DEF ComparedTo
    <3> QED BY <3>2, <3>4
  <2> QED BY <2>1, <2>2, <2>3 DEF CalmTrue
<1> QED BY <1>1 DEF MirrorInv

\* When somebody writes, nothing is said of the comparison.
LEMMA MirrorNotCalm ==
    ASSUME MirrorInv, refused' \subseteq Nat, calm' = FALSE, UNCHANGED <<stage, verdicts>>
    PROVE  MirrorInv'
BY DEF MirrorInv

LEMMA WantFits ==
    ASSUME GeomInv, CmpInv, cmp.at < CompareEnd(geom)
    PROVE  Want \in Nat /\ cmp.at + Want <= CompareEnd(geom)
<1>1. cmp.at \in Nat BY DEF CmpInv
<1>2. CompareEnd(geom) \in Nat BY CompareEndType
<1>3. CompareChunk \in Nat BY FatVolumeAssumption
<1> QED BY <1>1, <1>2, <1>3 DEF Want, Min2

\* The verdict on a copy, and the next comparison.
LEMMA StoppedTrue ==
    ASSUME Inv, MirrorInv, CalmTrue, NEW n \in Copies(geom), ComparedTo(n),
           NEW at \in Nat, NEW diffs, NEW refusal \in BOOLEAN,
           VerdictTrue([at |-> at, diffs |-> diffs, stopped |-> refusal],
                       Differing(n), CompareEnd(geom)),
           Stopped(n, at, diffs, refusal), UNCHANGED <<geom, refused, bytes>>
    PROVE  CalmTrue'
<1> DEFINE v == [at |-> at, diffs |-> diffs, stopped |-> refusal]
<1>1. verdicts' = Append(verdicts, v) BY DEF Stopped
<1>2. v \in Verdict
  <2>1. v.diffs = diffs /\ \E end \in Nat : FirstOf(v.diffs, Differing(n), end)
    BY DEF VerdictTrue
  <2>2. diffs \in Seq(Nat) BY <2>1 DEF FirstOf
  <2> QED BY <2>2 DEF Verdict
<1>3. VerdictTrue(v, Differing(n), CompareEnd(geom)) OBVIOUS
<1> HIDE DEF v
<1>4. verdicts \in Seq(Verdict) /\ Len(verdicts) = n - 1 BY DEF CalmTrue, ComparedTo
<1>5. n \in Nat
  <2>1. n \in 0 .. MaxCopies /\ MaxCopies \in Nat
    BY CopyInRange, FatVolumeAssumption DEF Inv
  <2> QED BY <2>1
<1>6. /\ verdicts' \in Seq(Verdict) /\ Len(verdicts') = n /\ verdicts'[n] = v
      /\ \A k \in 1 .. n - 1 : verdicts'[k] = verdicts[k]
  BY <1>1, <1>2, <1>4, <1>5
<1>7. VerdictsTrue'
  <2> SUFFICES ASSUME NEW k \in 1 .. n
               PROVE  VerdictTrue(verdicts'[k], Differing(k), CompareEnd(geom))
    BY <1>6, SameTables DEF VerdictsTrue
  <2>1. CASE k = n BY <1>3, <1>6, <2>1
  <2>2. CASE k # n
    <3>1. k \in 1 .. n - 1 BY <1>5, <2>2
    <3> QED BY <1>4, <1>6, <3>1 DEF CalmTrue, VerdictsTrue
  <2> QED BY <2>1, <2>2
<1>8. Comparing'
  <2>1. CASE n + 1 \in Copies(geom)
    <3>1. cmp' = Fresh(n + 1) /\ stage' = "compare" BY <2>1 DEF Stopped, Fresh, NoCmp
    <3>2. cmp'.copy = n + 1 /\ cmp'.at = 0 /\ cmp'.diffs = <<>> BY <3>1 DEF Fresh
    <3>3. FirstOf(<<>>, Differing(n + 1), 0) BY DifferingType, FirstOfNone DEF Inv
    <3>4. n = n + 1 - 1 BY <1>5
    <3> DEFINE k == n + 1
    <3>5. k \in Copies(geom)' BY <2>1, SameTables
    <3>6. k = cmp'.copy /\ Len(verdicts') = k - 1 BY <1>6, <3>2, <3>4
    <3>7. FirstOf(cmp'.diffs, Differing(k)', cmp'.at) BY <3>2, <3>3, SameTables
    <3> HIDE DEF k
    <3>8. ComparedTo(k)' BY <3>1, <3>6, <3>7 DEF ComparedTo
    <3> QED BY <3>5, <3>8 DEF Comparing
  <2>2. CASE n + 1 \notin Copies(geom)
    <3>1. stage' = "tree" BY <2>2 DEF Stopped
    <3> QED BY <3>1 DEF Comparing
  <2> QED BY <2>1, <2>2
<1> QED BY <1>6, <1>7, <1>8 DEF CalmTrue

LEMMA NoElements ==
    ASSUME NEW S PROVE <<>> \in Seq(S) /\ Len(<<>>) = 0 /\ 1 .. 0 = {}
OBVIOUS

LEMMA MirrorBegins ==
    ASSUME MirrorInv, UNCHANGED refused, verdicts' = <<>>,
           stage' \notin {"compare", "compare with"}
    PROVE  MirrorInv'
<1>1. <<>> \in Seq(Verdict) /\ Len(<<>>) = 0 /\ 1 .. 0 = {} BY NoElements
<1>2. CalmTrue' BY <1>1 DEF CalmTrue, Comparing, VerdictsTrue
<1> QED BY <1>2 DEF MirrorInv

LEMMA InitMirror == Init => MirrorInv
BY DEF Init, MirrorInv

LEMMA CompareMirror == ASSUME Inv, MirrorInv, Compare PROVE MirrorInv'
<1>1. UNCHANGED <<geom, refused, bytes, calm>> /\ stage' \in {"compare", "compare with", "tree"}
  BY DEF Compare, OpenMirror, CompareLeft, CompareRight, EndCompare, Stopped, disk
<1> SUFFICES ASSUME calm PROVE CalmTrue'
  BY <1>1 DEF MirrorInv
<1>2. CalmTrue /\ refused \subseteq Nat BY DEF MirrorInv
<1>3. CASE OpenMirror
  <2>1. /\ Copies(geom) # {} /\ verdicts' = <<>> /\ cmp' = Fresh(1) /\ stage' = "compare"
    BY <1>3 DEF OpenMirror, Fresh, NoCmp
  <2>2. 1 \in Copies(geom)
    <3>1. geom.fats \in Nat /\ MaxCopies \in Nat
      BY FatVolumeAssumption DEF Inv, GeomInv, Geom
    <3>2. Min2(geom.fats, MaxCopies) \in Nat BY <3>1 DEF Min2
    <3> QED BY <2>1, <3>2 DEF Copies
  <2>3. <<>> \in Seq(Verdict) /\ Len(<<>>) = 0 /\ 1 .. 0 = {} /\ 1 - 1 = 0 OBVIOUS
  <2>4. cmp'.copy = 1 /\ cmp'.at = 0 /\ cmp'.diffs = <<>> BY <2>1 DEF Fresh
  <2>5. FirstOf(<<>>, Differing(1), 0) BY DifferingType, FirstOfNone DEF Inv
  <2> DEFINE k == 1
  <2>6. Len(verdicts') = k - 1 /\ k = cmp'.copy /\ k \in Copies(geom)'
    BY <1>1, <2>1, <2>2, <2>3, <2>4, SameTables
  <2>7. FirstOf(cmp'.diffs, Differing(k)', cmp'.at) BY <1>1, <2>4, <2>5, SameTables
  <2> HIDE DEF k
  <2>8. ComparedTo(k)' BY <2>1, <2>6, <2>7 DEF ComparedTo
  <2> QED BY <2>1, <2>3, <2>6, <2>8 DEF CalmTrue, Comparing, VerdictsTrue
<1>4. CASE CompareLeft
  <2>1. stage = "compare" /\ stage' = "compare with" /\ verdicts' = verdicts
    BY <1>4 DEF CompareLeft
  <2>2. PICK n \in Copies(geom) : ComparedTo(n) BY <1>2, <2>1 DEF CalmTrue, Comparing
  <2>3. cmp' = [cmp EXCEPT !.left = ReadBytes(FatOffset(geom, 0) + cmp.at, Want)]
    BY <1>4 DEF CompareLeft
  <2>4. /\ cmp'.copy = cmp.copy /\ cmp'.at = cmp.at /\ cmp'.diffs = cmp.diffs
        /\ cmp'.left = ReadBytes(FatOffset(geom, 0) + cmp.at, Want)
    BY <2>3 DEF Inv, CmpInv, NoCmp
  <2>5. Want' = Want BY <1>1, <2>4 DEF Want
  <2>6. ComparedTo(n)' BY <1>1, <2>1, <2>2, <2>4, <2>5, SameTables DEF ComparedTo
  <2>7. VerdictsTrue' BY <1>1, <1>2, <2>1, SameVerdicts DEF CalmTrue
  <2>8. n \in Copies(geom)' BY <1>1, SameTables
  <2> QED BY <1>2, <2>1, <2>6, <2>7, <2>8 DEF CalmTrue, Comparing
<1>5. CASE CompareRight
  <2> DEFINE right == ReadBytes(FatOffset(geom, cmp.copy) + cmp.at, Want)
             left == cmp.left
             refusal == Unread \in {left, right}
             short == Len(left) < Want \/ Len(right) < Want
             all == cmp.diffs \o DiffsAt(left, right)
             m == Min2(Len(left), Len(right))
  <2>1. stage = "compare with" BY <1>5 DEF CompareRight
  <2>2. PICK n \in Copies(geom) : ComparedTo(n) BY <1>2, <2>1 DEF CalmTrue, Comparing
  <2>3. /\ n = cmp.copy /\ FirstOf(cmp.diffs, Differing(n), cmp.at)
        /\ left = ReadBytes(FatOffset(geom, 0) + cmp.at, Want)
    BY <2>1, <2>2 DEF ComparedTo
  <2>4. cmp.at \in Nat /\ cmp.at < CompareEnd(geom) /\ n \in Nat
    <3>1. n \in 0 .. MaxCopies /\ MaxCopies \in Nat
      BY CopyInRange, FatVolumeAssumption DEF Inv
    <3>2. n \in Nat BY <3>1
    <3> QED BY <2>1, <3>2 DEF Inv, CmpInv
  <2>5. Want \in Nat /\ cmp.at + Want <= CompareEnd(geom)
    BY <2>4, WantFits DEF Inv
  <2>6. CASE refusal
    <3>1. Stopped(n, cmp.at, cmp.diffs, TRUE) BY <1>5, <2>3, <2>6 DEF CompareRight
    <3>2. VerdictTrue([at |-> cmp.at, diffs |-> cmp.diffs, stopped |-> TRUE],
                      Differing(n), CompareEnd(geom))
      BY <2>3, <2>4 DEF VerdictTrue
    <3> QED BY <1>1, <1>2, <2>2, <2>4, <3>1, <3>2, StoppedTrue
  <2>7. CASE ~ refusal
    <3>1. /\ m \in 0 .. Want
          /\ ~ short => m = Want
          /\ NextOf(DiffsAt(left, right), Differing(n), cmp.at, cmp.at + m)
      <4>1. /\ left # Unread /\ right # Unread
            /\ left = ReadBytes(FatOffset(geom, 0) + cmp.at, Want)
            /\ right = ReadBytes(FatOffset(geom, n) + cmp.at, Want)
        BY <2>3, <2>7
      <4> HIDE DEF left, right
      <4>2. GeomInv BY DEF Inv
      <4> QED BY ONLY <1>2, <2>4, <2>5, <4>1, <4>2, ChunksDiffer
    <3> DEFINE end == cmp.at + m
    <3>a. m \in 0 .. Want BY <3>1, Zenon
    <3>b. ~ short => end = cmp.at + Want BY <3>1, Zenon
    <3>0. end \in Nat /\ cmp.at <= end
      <4> HIDE DEF m
      <4> QED BY <2>4, <2>5, <3>a
    <3>2. FirstOf(Cut(all), Differing(n), end)
      <4>1. end \in Nat /\ cmp.at <= end BY <3>0, Zenon
      <4>2. Differing(n) \in SUBSET Nat BY DifferingType DEF Inv
      <4> HIDE DEF end, m
      <4>3. NextOf(DiffsAt(left, right), Differing(n), cmp.at, end) BY <3>1 DEF end
      <4> HIDE DEF left, right
      <4> QED BY ONLY <2>3, <2>4, <4>1, <4>2, <4>3, FirstOfMore DEF all
    <3>3. CASE short
      <4>1. Stopped(n, cmp.at, Cut(all), TRUE)
        BY <1>5, <2>3, <2>7, <3>3 DEF CompareRight, Cut
      <4>2. end \in Nat BY <3>0, Zenon
      <4> HIDE DEF end, all
      <4>3. VerdictTrue([at |-> cmp.at, diffs |-> Cut(all), stopped |-> TRUE],
                        Differing(n), CompareEnd(geom))
        BY <3>2, <4>2 DEF VerdictTrue
      <4> QED BY <1>1, <1>2, <2>2, <2>4, <4>1, <4>3, StoppedTrue
    <3>4. CASE ~ short
      <4>1. /\ cmp' = [cmp EXCEPT !.at = cmp.at + Want, !.left = <<>>, !.diffs = Cut(all)]
            /\ stage' = "compare" /\ verdicts' = verdicts
        BY <1>5, <2>3, <2>7, <3>4, Zenon DEF CompareRight, Cut
      <4>2. cmp'.copy = cmp.copy /\ cmp'.at = cmp.at + Want /\ cmp'.diffs = Cut(all)
        <5> HIDE DEF all
        <5> QED BY <4>1 DEF Inv, CmpInv, NoCmp
      <4>3. end = cmp.at + Want BY <3>b, <3>4, Zenon
      <4> HIDE DEF end, all
      <4>4. FirstOf(cmp'.diffs, Differing(n)', cmp'.at)
        BY <1>1, <3>2, <4>2, <4>3, SameTables
      <4>5. ComparedTo(n)' BY <2>2, <2>3, <4>1, <4>2, <4>4 DEF ComparedTo
      <4>6. VerdictsTrue' BY <1>1, <1>2, <4>1, SameVerdicts DEF CalmTrue
      <4>7. n \in Copies(geom)' BY <1>1, SameTables
      <4> QED BY <1>2, <4>1, <4>5, <4>6, <4>7 DEF CalmTrue, Comparing
    <3> QED BY <3>3, <3>4
  <2> QED BY <2>6, <2>7
<1>6. CASE EndCompare
  <2>1. stage = "compare" /\ ~ Scanning BY <1>6 DEF EndCompare
  <2>2. PICK n \in Copies(geom) : ComparedTo(n) BY <1>2, <2>1 DEF CalmTrue, Comparing
  <2>3. n = cmp.copy /\ FirstOf(cmp.diffs, Differing(n), cmp.at) BY <2>2 DEF ComparedTo
  <2>4. Stopped(n, cmp.at, cmp.diffs, FALSE) BY <1>6, <2>3 DEF EndCompare
  <2>5. cmp.at \in Nat /\ CompareEnd(geom) \in Nat BY CompareEndType DEF Inv, CmpInv
  <2>6. FirstOf(cmp.diffs, Differing(n), CompareEnd(geom))
    <3> DEFINE D == Differing(n)
               ds == cmp.diffs
               e == CompareEnd(geom)
               a == cmp.at
    <3>1. \A k \in D : k \in Nat /\ k < e BY <2>5 DEF Differing
    <3>2. a >= e \/ Len(ds) >= MaxDiffs
      <4>1. ~ (a < e) \/ ~ (Len(ds) < MaxDiffs) BY <2>1 DEF Scanning
      <4>2. Len(ds) \in Nat /\ MaxDiffs \in Nat
        <5>1. ds \in Seq(Nat) BY <2>3 DEF FirstOf
        <5> QED BY <5>1, FatVolumeAssumption
      <4> HIDE DEF a, e, ds
      <4>3. a \in Nat /\ e \in Nat BY <2>5 DEF a, e
      <4> QED BY <4>1, <4>2, <4>3
    <3>3. FirstOf(ds, D, a) /\ a \in Nat /\ e \in Nat BY <2>3, <2>5
    <3> HIDE DEF D, ds, e, a
    <3>4. /\ ds \in Seq(Nat) /\ Len(ds) <= MaxDiffs /\ Increasing(ds)
          /\ \A i \in 1 .. Len(ds) : ds[i] \in D /\ ds[i] < a /\ ds[i] \in Nat
          /\ \A k \in D : k < a => \/ \E i \in 1 .. Len(ds) : ds[i] = k
                                   \/ Len(ds) = MaxDiffs /\ \A i \in 1 .. Len(ds) : ds[i] < k
      BY <3>3 DEF FirstOf
    <3>5. ASSUME NEW k \in D
          PROVE  \/ \E i \in 1 .. Len(ds) : ds[i] = k
                 \/ Len(ds) = MaxDiffs /\ \A i \in 1 .. Len(ds) : ds[i] < k
      <4>1. CASE k < a BY <3>4, <4>1
      <4>2. CASE ~ (k < a)
        <5>1. k \in Nat /\ k < e BY <3>1
        <5>2. Len(ds) \in Nat /\ MaxDiffs \in Nat BY <3>4, FatVolumeAssumption
        <5>3. Len(ds) = MaxDiffs BY <3>2, <3>3, <3>4, <4>2, <5>1, <5>2
        <5>4. \A i \in 1 .. Len(ds) : ds[i] < k BY <3>3, <3>4, <4>2, <5>1
        <5> QED BY <5>3, <5>4
      <4> QED BY <4>1, <4>2
    <3>6. \A i \in 1 .. Len(ds) : ds[i] \in D /\ ds[i] < e BY <3>1, <3>4
    <3>7. FirstOf(ds, D, e) BY <3>4, <3>5, <3>6 DEF FirstOf
    <3> QED BY <3>7 DEF D, ds, e
  <2>7. VerdictTrue([at |-> cmp.at, diffs |-> cmp.diffs, stopped |-> FALSE],
                    Differing(n), CompareEnd(geom))
    BY <2>3, <2>5, <2>6 DEF VerdictTrue
  <2> QED BY <1>1, <1>2, <2>2, <2>4, <2>5, <2>7, StoppedTrue
<1> QED BY <1>3, <1>4, <1>5, <1>6 DEF Compare

LEMMA OpenMirrored == ASSUME Inv, MirrorInv, Open PROVE MirrorInv'
<1>1. CASE Probe
  <2>1. UNCHANGED refused /\ verdicts' = <<>> /\ stage' = "probed" BY <1>1 DEF Probe, disk
  <2> QED BY <2>1, MirrorBegins
<1>2. CASE ReadBoot
  <2>1. UNCHANGED <<refused, verdicts>> /\ stage = "probed" /\ stage' = "media"
    BY <1>2 DEF ReadBoot, disk, compared
  <2>2. verdicts = <<>> BY <2>1 DEF MirrorInv
  <2> QED BY <2>1, <2>2, MirrorBegins
<1>3. CASE ReadMedia \/ ReadInfo \/ ReadBackup \/ Close
  <2>1. /\ UNCHANGED <<geom, refused, bytes, verdicts, cmp, calm>>
        /\ stage' \in {"info", "backup", "tree", "closed"}
    BY <1>3 DEF ReadMedia, ReadInfo, ReadBackup, Close, disk, compared
  <2> QED BY <2>1, MirrorStays
<1> QED BY <1>1, <1>2, <1>3 DEF Open

LEMMA OthersMirrored == ASSUME Inv, MirrorInv, Others PROVE MirrorInv'
<1>1. UNCHANGED <<stage, geom, verdicts, cmp>>
  BY DEF Others, BeginFormat, WritePiece, FormatterDies, DriverWrites, DamageField, Refuse,
         reader, compared
<1>2. refused \subseteq Nat BY DEF MirrorInv
<1>3. CASE \/ \E f \in Formats : BeginFormat(f)
           \/ FormatterDies
  <2>1. UNCHANGED <<refused, bytes, calm>> BY <1>3 DEF BeginFormat, FormatterDies
  <2> QED BY <1>1, <2>1, MirrorStays
<1>4. CASE \/ \E p \in job.pieces : WritePiece(p)
           \/ \E n \in 0 .. 1, c \in Clusters, v \in EntryValues : DriverWrites(n, c, v)
           \/ \E field \in DOMAIN DamagedFields :
                 \E v \in DamagedFields[field] : DamageField(field, v)
  <2>1. refused' = refused /\ calm' = FALSE
    BY <1>4 DEF WritePiece, DriverWrites, DamageField
  <2> QED BY <1>1, <1>2, <2>1, MirrorNotCalm
<1>5. ASSUME NEW i \in 0 .. DeviceLen \div BootSectorLen - 1, Refuse(BootSectorLen * i)
      PROVE  MirrorInv'
  <2>1. BootSectorLen * i \in Nat
    <3>1. BootSectorLen \in Nat /\ i \in Nat BY FatGeometryAssumption
    <3> QED BY <3>1, MulNat
  <2>2. refused' = refused \union {BootSectorLen * i} /\ calm' = FALSE BY <1>5 DEF Refuse
  <2> QED BY <1>1, <1>2, <2>1, <2>2, MirrorNotCalm
<1> QED BY <1>3, <1>4, <1>5 DEF Others

LEMMA MirrorNext == Inv /\ MirrorInv /\ [Next]_vars => MirrorInv'
<1> SUFFICES ASSUME Inv, MirrorInv, [Next]_vars PROVE MirrorInv' OBVIOUS
<1>1. CASE Next
  <2>1. ASSUME \/ List \/ OpenRoot \/ \E c \in Clusters : OpenDirectory(c)
        PROVE  MirrorInv'
    <3>1. /\ UNCHANGED <<geom, refused, bytes, verdicts, cmp, calm>>
          /\ stage' \in {"walk", "extents", "read", "tree"}
      BY <2>1 DEF List, Walk, WalkEnds, Extend, Extended, ReadRun, Listed, OpenRoot,
                  OpenDirectory, disk, compared
    <3> QED BY <3>1, MirrorStays
  <2>2. ASSUME NEW n \in 0 .. MaxCopies - 1, n < geom.fats /\ PreviewTable(n)
        PROVE  MirrorInv'
    <3>1. UNCHANGED <<geom, refused, bytes, verdicts, cmp, calm, stage>>
      BY <2>2 DEF PreviewTable, disk, compared
    <3> QED BY <3>1, MirrorStays
  <2> QED BY <1>1, <2>1, <2>2, OpenMirrored, CompareMirror, OthersMirrored DEF Next, Others
<1>2. CASE UNCHANGED vars
  <2>1. UNCHANGED <<geom, refused, bytes, verdicts, cmp, calm, stage>>
    BY <1>2 DEF vars, disk, compared
  <2> QED BY <2>1, MirrorStays
<1> QED BY <1>1, <1>2

\* The first below some number are a beginning of all.
LEMMA FirstOfLists ==
    ASSUME NEW D \in SUBSET Nat, NEW ds, NEW end \in Nat, FirstOf(ds, D, end)
    PROVE  LET left == D \ {ds[i] : i \in DOMAIN ds}
           IN  /\ DOMAIN ds = 1 .. Len(ds) /\ Len(ds) <= MaxDiffs
               /\ \A i \in DOMAIN ds : ds[i] \in D
               /\ \A i, j \in DOMAIN ds : i < j => ds[i] < ds[j]
               /\ \A i \in DOMAIN ds, k \in left : ds[i] < k
               /\ \A k \in left : k < end => Len(ds) = MaxDiffs
<1>1. /\ ds \in Seq(Nat) /\ Len(ds) <= MaxDiffs
      /\ \A i, j \in 1 .. Len(ds) : i < j => ds[i] < ds[j]
      /\ \A i \in 1 .. Len(ds) : ds[i] \in D /\ ds[i] < end
      /\ \A k \in D : k < end => \/ \E i \in 1 .. Len(ds) : ds[i] = k
                                 \/ Len(ds) = MaxDiffs /\ \A i \in 1 .. Len(ds) : ds[i] < k
  BY DEF FirstOf, Increasing
<1>2. DOMAIN ds = 1 .. Len(ds) BY <1>1
<1> DEFINE left == D \ {ds[i] : i \in DOMAIN ds}
<1>3. \A k \in left : k \in D /\ k \in Nat /\ ~ \E i \in 1 .. Len(ds) : ds[i] = k BY <1>2
<1> HIDE DEF left
<1>4. ASSUME NEW i \in 1 .. Len(ds), NEW k \in left PROVE ds[i] < k
  <2>1. CASE k < end BY <1>1, <1>3, <2>1
  <2>2. CASE ~ (k < end)
    <3>1. ds[i] < end /\ ds[i] \in Nat BY <1>1
    <3> QED BY <1>3, <2>2, <3>1
  <2> QED BY <2>1, <2>2
<1>5. \A k \in left : k < end => Len(ds) = MaxDiffs BY <1>1, <1>3
<1> QED BY <1>1, <1>2, <1>4, <1>5 DEF left

LEMMA MirrorFollows == Inv /\ MirrorInv => MirrorTrue
<1> SUFFICES ASSUME Inv, MirrorInv, calm, NEW n \in DOMAIN verdicts
             PROVE  LET diffs == verdicts[n].diffs
                        left == Differing(n) \ {diffs[i] : i \in DOMAIN diffs}
                    IN  /\ \A i \in DOMAIN diffs : diffs[i] \in Differing(n)
                        /\ \A i, j \in DOMAIN diffs : i < j => diffs[i] < diffs[j]
                        /\ \A i \in DOMAIN diffs, k \in left : diffs[i] < k
                        /\ left # {} => verdicts[n].stopped \/ Len(diffs) = MaxDiffs
                        /\ Len(diffs) <= MaxDiffs
  BY DEF MirrorTrue
<1> DEFINE v == verdicts[n]
           ds == v.diffs
           D == Differing(n)
           e == CompareEnd(geom)
           left == D \ {ds[i] : i \in DOMAIN ds}
<1>1. verdicts \in Seq(Verdict) /\ VerdictsTrue BY DEF MirrorInv, CalmTrue
<1>2. n \in 1 .. Len(verdicts) BY <1>1
<1>3. VerdictTrue(v, D, e) BY <1>1, <1>2 DEF VerdictsTrue
<1>4. D \in SUBSET Nat /\ e \in Nat /\ \A k \in D : k < e
  <2>1. e \in Nat /\ D \in SUBSET Nat BY CompareEndType, DifferingType DEF Inv
  <2> QED BY <2>1 DEF Differing
<1>5. PICK end \in Nat : FirstOf(ds, D, end) BY <1>3 DEF VerdictTrue
<1>6. v.stopped \/ FirstOf(ds, D, e) BY <1>3 DEF VerdictTrue
<1> HIDE DEF v, D, e
<1>7. /\ DOMAIN ds = 1 .. Len(ds) /\ Len(ds) <= MaxDiffs
      /\ \A i \in DOMAIN ds : ds[i] \in D
      /\ \A i, j \in DOMAIN ds : i < j => ds[i] < ds[j]
      /\ \A i \in DOMAIN ds, k \in left : ds[i] < k
  BY <1>4, <1>5, FirstOfLists
<1>8. FirstOf(ds, D, e) => (left # {} => Len(ds) = MaxDiffs)
  <2> SUFFICES ASSUME FirstOf(ds, D, e), NEW k \in left PROVE Len(ds) = MaxDiffs
    OBVIOUS
  <2>1. k < e BY <1>4
  <2>2. \A x \in left : x < e => Len(ds) = MaxDiffs BY <1>4, FirstOfLists
  <2> QED BY <2>1, <2>2
<1> QED BY <1>6, <1>7, <1>8 DEF v, D

\* In every run, while nobody has written since the probe, what a comparison of two tables
\* lists is the beginning of all bytes in which they differ, in order, and all of them if no
\* read was refused and the limit was not reached, however the tables are cut into chunks
\* (compare_fats).
THEOREM AlwaysMirrorTrue == Spec => []MirrorTrue
<1>1. Init => Inv /\ MirrorInv BY InvInit, InitMirror
<1>2. Inv /\ MirrorInv /\ [Next]_vars => (Inv /\ MirrorInv)' BY InvNext, MirrorNext
<1> QED BY <1>1, <1>2, MirrorFollows, PTL DEF Spec

---------------------------------------------------------------------------
(* What a formatter writes is what the checks ask for.                     *)

Rules(f, g) ==
    /\ f.sig /\ f.jump /\ f.oem # "exfat" /\ f.fs_type = g.kind
    /\ f.reserved_sectors # 0 /\ f.num_fats \in {1, 2}
    /\ f.media \in {240} \union (248 .. 255)
    /\ f.total_sectors_16 = 0 \/ f.total_sectors_32 = 0
    /\ g.sane /\ LastCluster(g) < BadMark(g.kind)
    /\ g.base + VolumeBytes(g) <= DeviceLen
    /\ f.root_entries = 0 <=> g.kind = "FAT32"
    /\ g.kind = "FAT32" => /\ f.fat_size_16 = 0 /\ f.backup_boot_sector # 0
                           /\ ClusterInRange(g, f.root_cluster)

LEMMA ByTheRules == ASSUME NEW f \in Formats PROVE f \in Boot /\ Rules(f, GeomOf(f))
BY FormattersAssumption, FatVolumeAssumption DEF Rules

LEMMA FormatterGeom ==
    ASSUME NEW f \in Formats
    PROVE  /\ LaidOut(f, Base) /\ GeomOf(f) \in Geom
           /\ Derived(GeomOf(f)) /\ Fits(GeomOf(f)) /\ GeomOf(f).sane
           /\ GeomOf(f).base = Base /\ GeomOf(f).bps = f.bytes_per_sector
           /\ GeomOf(f).fats = f.num_fats /\ GeomOf(f).fat_size = FatSize(f)
           /\ GeomOf(f).fat_start = FatStart(f, Base)
           /\ GeomOf(f).root_start = RootStart(f, Base)
           /\ GeomOf(f).count = ClusterCount(f) /\ ClusterCount(f) > 0
           /\ GeomOf(f).kind = KindOf(ClusterCount(f)) /\ GeomOf(f).kind \in Kinds
           /\ GeomOf(f).root_cluster = f.root_cluster
<1>1. f \in Boot /\ GeomOf(f).sane /\ Fits(GeomOf(f))
  BY ByTheRules DEF Rules, Fits
<1>2. GeomOf(f) \in Geom /\ Derived(GeomOf(f)) BY <1>1, DeriveType DEF GeomOf, Derived
<1>3. LaidOut(f, Base)
  <2>1. BlankGeom(f, Base).sane = FALSE BY DEF BlankGeom
  <2> QED BY <1>1, <2>1 DEF GeomOf, Derive
<1>4. GeomOf(f).kind \in Kinds BY <1>2 DEF Geom
<1> QED BY <1>1, <1>2, <1>3, <1>4 DEF GeomOf, Derive

LEMMA QuietDerive == ASSUME NEW f \in Formats PROVE DeriveFindings(f) = {}
<1> DEFINE g == GeomOf(f)
<1>1. Rules(f, g) /\ f \in Boot BY ByTheRules
<1>2. /\ LaidOut(f, Base) /\ g.kind = KindOf(ClusterCount(f)) /\ ClusterCount(f) > 0
  BY FormatterGeom
<1> HIDE DEF g
<1>3. /\ Sized(f) /\ BpsOk(f) /\ SpcOk(f) /\ FatSize(f) # 0 /\ TotalSectors(f) # 0
  BY <1>2 DEF LaidOut, Sized
<1>4. /\ f.total_sectors_16 = 0 \/ f.total_sectors_32 = 0
      /\ g.kind = "FAT32" => f.fat_size_16 = 0
      /\ (f.root_entries # 0) <=> ~ (g.kind = "FAT32")
  BY <1>1 DEF Rules
<1>5. ClusterCount(f) # 0
  BY <1>2
<1> QED BY <1>2, <1>3, <1>4, <1>5 DEF DeriveFindings, If

LEMMA QuietBoot ==
    ASSUME NEW f \in Formats, NEW at, ~ Refuses(at, BootSectorLen)
    PROVE  BootFindings(f, GeomOf(f), at) = {}
<1> DEFINE g == GeomOf(f)
<1>1. Rules(f, g) /\ f \in Boot BY ByTheRules
<1>2. LaidOut(f, Base) /\ g.root_cluster = f.root_cluster /\ g \in Geom BY FormatterGeom
<1> HIDE DEF g
<1>3. FieldFindings(f) = {} BY <1>1 DEF FieldFindings, If, Rules
<1>4. EbpbFindings(f, g) = {}
  <2>1. f.fs_type = g.kind /\ g.sane BY <1>1 DEF Rules
  <2>2. ASSUME g.kind = "FAT32"
        PROVE  /\ ClusterInRange(g, g.root_cluster) /\ f.backup_boot_sector # 0
               /\ f.fat_size_32 # 0
    <3>1. /\ ClusterInRange(g, f.root_cluster) /\ f.backup_boot_sector # 0
          /\ f.fat_size_16 = 0
      BY <1>1, <2>2 DEF Rules
    <3>2. f.fat_size_32 # 0 BY <1>2, <3>1 DEF LaidOut, Sized, FatSize
    <3> QED BY <1>2, <3>1, <3>2
  <2> QED BY <2>1, <2>2 DEF EbpbFindings, If
<1>5. If(Refuses(at, BootSectorLen), "unreadable") = {} BY DEF If
<1>6. If(g.sane /\ g.base + VolumeBytes(g) > DeviceLen, "total_sectors_32") = {}
  <2>1. g.base + VolumeBytes(g) <= DeviceLen BY <1>1 DEF Rules
  <2>2. g.base + VolumeBytes(g) \in Int
    <3>1. g.base \in Nat /\ g.total \in Nat /\ g.bps \in Nat /\ BootSectorLen \in Nat
      BY <1>2, FatGeometryAssumption DEF Geom
    <3>2. g.total * g.bps \in Nat BY <3>1, MulNat
    <3> QED BY <3>1, <3>2 DEF VolumeBytes, Bigger
  <2>3. ~ (g.base + VolumeBytes(g) > DeviceLen)
    BY <2>1, <2>2, FatVolumeAssumption, FatGeometryAssumption
  <2> QED BY <2>3 DEF If
<1>7. DeriveFindings(f) = {} BY QuietDerive
<1> QED BY <1>3, <1>4, <1>5, <1>6, <1>7 DEF BootFindings, g

LEMMA CertainScore == ASSUME NEW f \in Formats PROVE Score(f) = 100
<1> DEFINE g == GeomOf(f)
<1>1. Rules(f, g) /\ f \in Boot BY ByTheRules
<1>2. /\ LaidOut(f, Base) /\ g = Derive(f, Base) /\ g.kind \in Kinds /\ g \in Geom
  BY FormatterGeom DEF GeomOf
<1> HIDE DEF g
<1>3. BpsOk(f) /\ SpcOk(f) BY <1>2 DEF LaidOut, Sized
<1>4. /\ f.sig /\ f.jump /\ f.oem # "exfat" /\ f.reserved_sectors # 0 /\ f.num_fats # 0
      /\ f.media \in {240} \union (248 .. 255) /\ g.sane /\ f.fs_type = g.kind
      /\ f.fs_type # "none"
  BY <1>1, <1>2 DEF Rules, Kinds
<1>5. ~ (g.base + VolumeBytes(g) > DeviceLen)
  <2>1. g.base + VolumeBytes(g) <= DeviceLen BY <1>1 DEF Rules
  <2>2. g.base + VolumeBytes(g) \in Int
    <3>1. g.base \in Nat /\ g.total \in Nat /\ g.bps \in Nat /\ BootSectorLen \in Nat
      BY <1>2, FatGeometryAssumption DEF Geom
    <3>2. g.total * g.bps \in Nat BY <3>1, MulNat
    <3> QED BY <3>1, <3>2 DEF VolumeBytes, Bigger
  <2> QED BY <2>1, <2>2, FatVolumeAssumption, FatGeometryAssumption
<1> QED BY <1>2, <1>3, <1>4, <1>5 DEF Score

---------------------------------------------------------------------------
(* The tables of a volume that is whole.                                   *)

LEMMA NothingRefused ==
    ASSUME NEW f, Whole(f)
    PROVE  /\ \A at, len : ~ Refuses(at, len)
           /\ BootAt(Base) = f
BY DEF Whole, Refuses, BootAt

\* Of the entries of a whole volume nothing is said.
LEMMA QuietEntry ==
    ASSUME NEW f \in Formats, Whole(f), NEW n \in 0 .. f.num_fats - 1,
           NEW c \in 0 .. LastCluster(GeomOf(f)) + 1, FatEntry(GeomOf(f), n, c) # Over
    PROVE  EntryFinding(GeomOf(f), c, FatEntry(GeomOf(f), n, c)) = {}
<1> DEFINE g == GeomOf(f)
           v == FatEntry(g, n, c)
           clusters == 2 .. LastCluster(g)
<1>1. /\ Rules(f, g) /\ f \in Boot /\ g \in Geom /\ g.kind \in Kinds
  BY ByTheRules, FormatterGeom
<1>2. EntryInTable(g, n, c) /\ v = Stored(g, n, c) BY DEF FatEntry
<1>3. c \in Nat /\ LastCluster(g) \in Nat
  BY <1>1 DEF LastCluster, Geom
<1>4. CASE c = 0 BY <1>4 DEF EntryFinding
<1>5. CASE c = 1
  <2>1. 1 \in 0 .. LastCluster(g) BY <1>1 DEF LastCluster, Geom
  <2>2. v = FreshEntries(g, f.media)[1] BY <1>2, <1>5 DEF Whole
  <2>3. v = Mask(g.kind) BY <2>1, <2>2 DEF FreshEntries
  <2> HIDE DEF v, g
  <2>4. g.kind = "FAT32" => v = 268435455 BY <2>3 DEF Mask
  <2>5. EntryFinding(g, c, v) = {} BY <1>5, <2>4 DEF EntryFinding, If, CleanBit
  <2> QED BY <2>5 DEF v, g
<1>6. CASE c > 1
  <2>1. v = 0 \/ v \in clusters \/ v \in EocMin(g.kind) .. Mask(g.kind)
    <3>1. c \in clusters \union {LastCluster(g) + 1} BY <1>3, <1>6
    <3> QED BY <1>2, <3>1 DEF Whole
  <2>2. /\ EocMin(g.kind) \in Nat /\ BadMark(g.kind) = EocMin(g.kind) - 1
        /\ BadMark(g.kind) \in Nat \ {0} /\ Mask(g.kind) \in Nat
    BY <1>1 DEF EocMin, BadMark, Mask, Kinds
  <2>3. LastCluster(g) < BadMark(g.kind) /\ g.sane BY <1>1 DEF Rules
  <2> HIDE DEF v, g
  <2>4. v # BadMark(g.kind)
    BY <1>3, <2>1, <2>2, <2>3
  <2>5. ~ (v # 0 /\ v < EocMin(g.kind) /\ ~ ClusterInRange(g, v))
    <3>1. CASE v \in clusters BY <2>3, <3>1 DEF ClusterInRange
    <3>2. CASE v \in EocMin(g.kind) .. Mask(g.kind) BY <2>2, <3>2
    <3> QED BY <2>1, <3>1, <3>2
  <2>6. c # 0 /\ c # 1 BY <1>6
  <2>7. EntryFinding(g, c, v) = {} BY <1>6, <2>4, <2>5, <2>6 DEF EntryFinding, If
  <2> QED BY <2>7 DEF v, g
<1> QED BY <1>3, <1>4, <1>5, <1>6

LEMMA QuietMedia == ASSUME NEW f \in Formats, Whole(f) PROVE MediaFindings(f, GeomOf(f)) = {}
<1> DEFINE g == GeomOf(f)
           v == FatEntry(g, 0, 0)
<1>1. Rules(f, g) /\ g.kind \in Kinds /\ g \in Geom BY ByTheRules, FormatterGeom
<1>2. CASE v # Over
  <2>1. v = Stored(g, 0, 0) BY <1>2 DEF FatEntry
  <2>2. 0 \in 0 .. f.num_fats - 1 BY <1>1 DEF Rules
  <2>3. v = FreshEntries(g, f.media)[0] BY <2>1, <2>2 DEF Whole
  <2>4. 0 \in 0 .. LastCluster(g) BY <1>1 DEF LastCluster, Geom
  <2>5. v = Mask(g.kind) - 255 + f.media BY <2>3, <2>4 DEF FreshEntries
  <2>6. Mask(g.kind) \in {4095, 65535, 268435455} BY <1>1 DEF Mask, Kinds
  <2>7. f.media \in 240 .. 255 BY <1>1 DEF Rules
  <2>8. v % 256 = f.media BY <2>5, <2>6, <2>7
  <2> QED BY <2>8 DEF MediaFindings, If
<1>3. CASE v = Over BY <1>3 DEF MediaFindings, If
<1> QED BY <1>2, <1>3

LEMMA GotSome ==
    ASSUME NEW at \in Nat, NEW len \in Nat, ~ Refuses(at, len)
    PROVE  Got(at, len) \in Nat /\ Got(at, len) # Over
BY FatVolumeAssumption, FatGeometryAssumption DEF Got, Min2, Over

\* What is shown of a table of a whole volume, the entry behind the last included.
LEMMA QuietPreview ==
    ASSUME NEW f \in Formats, Whole(f), NEW n \in 0 .. f.num_fats - 1,
           NEW c \in 0 .. LastCluster(GeomOf(f)) + 1
    PROVE  /\ Got(FatEntryOffset(GeomOf(f), n, c), EntryWidth(GeomOf(f))) # Over
           /\ FatEntry(GeomOf(f), n, c) # Over =>
                  EntryFinding(GeomOf(f), c, FatEntry(GeomOf(f), n, c)) = {}
<1> DEFINE g == GeomOf(f)
<1>1. g \in Geom /\ g.kind \in Kinds BY FormatterGeom
<1>2. n \in Nat /\ c \in Nat
  <2>1. f.num_fats \in Nat /\ LastCluster(g) \in Nat
    BY <1>1, ByTheRules DEF Boot, Geom, LastCluster
  <2> QED BY <2>1
<1> HIDE DEF g
<1>3. FatOffset(g, n) \in Nat
  <2>1. g.fat_size \in Nat /\ g.bps \in Nat /\ g.fat_start \in Nat BY <1>1 DEF Geom
  <2>2. FatBytes(g) \in Nat BY <2>1, MulNat DEF FatBytes
  <2>3. n * FatBytes(g) \in Nat BY <1>2, <2>2, MulNat
  <2> QED BY <2>1, <2>3 DEF FatOffset
<1>4. FatEntryOffset(g, n, c) \in Nat /\ EntryWidth(g) \in Nat
  <2>1. c \div 2 \in Nat BY <1>2, DivNat
  <2> QED BY <1>1, <1>2, <1>3, <2>1 DEF FatEntryOffset, EntryWidth, Kinds
<1>5. ~ Refuses(FatEntryOffset(g, n, c), EntryWidth(g)) BY NothingRefused
<1>6. Got(FatEntryOffset(g, n, c), EntryWidth(g)) # Over BY <1>4, <1>5, GotSome
<1> QED BY <1>6, QuietEntry DEF g

LEMMA TablesFit ==
    ASSUME NEW f \in Formats, NEW n \in 0 .. f.num_fats - 1
    PROVE  /\ FatOffset(GeomOf(f), n) \in Nat /\ FatBytes(GeomOf(f)) \in Nat
           /\ FatOffset(GeomOf(f), n) + FatBytes(GeomOf(f)) <= DeviceLen
<1> DEFINE g == GeomOf(f)
           bps == f.bytes_per_sector
           size == FatSize(f)
           fats == f.num_fats
           front == f.reserved_sectors
<1>1. /\ g \in Geom /\ Derived(g) /\ Fits(g) /\ g.sane /\ g.bps = bps /\ g.fat_size = size
      /\ g.fat_start = front * bps + 0 /\ g.root_start = (fats * size + front) * bps + 0
  BY FormatterGeom DEF FatStart, RootStart, Base
<1>2. /\ bps \in Nat /\ size \in Nat /\ fats \in Nat /\ front \in Nat /\ n \in Nat /\ n + 1 <= fats
  BY ByTheRules DEF Boot, FatSize
<1>3. g.root_start + g.root_len <= DeviceLen /\ g.root_len \in Nat
  <2>1. g.root_len \in Nat BY <1>1 DEF Geom
  <2> QED BY <1>1, <2>1, Layout
<1> HIDE DEF g, bps, size, fats, front
<1>4. FatBytes(g) = size * bps BY <1>1 DEF FatBytes
<1>5. /\ size * bps \in Nat /\ n * (size * bps) \in Nat /\ front * bps \in Nat
      /\ fats * size \in Nat /\ (n + 1) * size \in Nat
  <2>1. size * bps \in Nat /\ front * bps \in Nat /\ fats * size \in Nat BY <1>2, MulNat
  <2>2. n + 1 \in Nat BY <1>2
  <2> QED BY <1>2, <2>1, <2>2, MulNat
<1>6. FatOffset(g, n) = n * (size * bps) + front * bps BY <1>1, <1>4, <1>5 DEF FatOffset
<1>7. n * (size * bps) + size * bps = ((n + 1) * size) * bps
  <2>1. n * (size * bps) = (n * size) * bps BY <1>2
  <2>2. (n + 1) * size = n * size + size BY <1>2
  <2>3. n * size \in Nat BY <1>2, MulNat
  <2>4. (n * size + size) * bps = (n * size) * bps + size * bps BY <1>2, <2>3
  <2> QED BY <2>1, <2>2, <2>4
<1>8. ((n + 1) * size) * bps <= (fats * size) * bps
  <2>1. (n + 1) * size <= fats * size
    <3>1. n + 1 \in Nat BY <1>2
    <3> QED BY <1>2, <3>1, Products
  <2> QED BY <1>2, <1>5, <2>1, Products
<1>9. g.root_start = (fats * size) * bps + front * bps
  <2>1. (fats * size + front) * bps = (fats * size) * bps + front * bps BY <1>2, <1>5
  <2>2. (fats * size) * bps \in Nat BY <1>2, <1>5, MulNat
  <2> QED BY <1>1, <1>5, <2>1, <2>2
<1>10. FatOffset(g, n) + FatBytes(g) <= DeviceLen
  <2> DEFINE a == n * (size * bps)
             b == size * bps
             r == front * bps
             t == (fats * size) * bps
  <2>1. a \in Nat /\ b \in Nat /\ r \in Nat /\ t \in Nat
    BY <1>2, <1>5, MulNat
  <2>2. a + b <= t BY <1>7, <1>8
  <2>3. t + r + g.root_len <= DeviceLen /\ g.root_len \in Nat /\ DeviceLen \in Nat
    BY <1>3, <1>9, FatVolumeAssumption, FatGeometryAssumption
  <2>4. FatOffset(g, n) = a + r /\ FatBytes(g) = b BY <1>4, <1>6
  <2> HIDE DEF a, b, r, t
  <2> QED BY <2>1, <2>2, <2>3, <2>4
<1>11. FatOffset(g, n) \in Nat /\ FatBytes(g) \in Nat BY <1>4, <1>5, <1>6
<1> QED BY <1>10, <1>11 DEF g

\* A read within the device of which nothing is refused gives what was wanted.
LEMMA AllRead ==
    ASSUME NEW at \in Nat, NEW len \in Nat \ {0}, at + len <= DeviceLen, ~ Refuses(at, len)
    PROVE  ReadBytes(at, len) # Unread /\ Len(ReadBytes(at, len)) = len
<1>1. Got(at, len) = len /\ len # Over
  BY FatVolumeAssumption, FatGeometryAssumption DEF Got, Min2, Over
<1> DEFINE s == [i \in 1 .. len |-> bytes[at + i - 1]]
           S == {bytes[at + i - 1] : i \in 1 .. len}
<1>2. ReadBytes(at, len) = s BY <1>1 DEF ReadBytes
<1>3. s \in [1 .. len -> S] OBVIOUS
<1> HIDE DEF s, S
<1>4. s \in Seq(S) /\ Len(s) = len BY <1>3
<1>5. 0 \notin DOMAIN s /\ 0 \in DOMAIN Unread BY <1>3 DEF Unread
<1> QED BY <1>2, <1>4, <1>5

\* The tables of a whole volume do not differ.
LEMMA NoneDiffer ==
    ASSUME NEW f \in Formats, Whole(f), geom = GeomOf(f), GeomInv, NEW n \in Copies(geom)
    PROVE  n \in 0 .. f.num_fats - 1 /\ Differing(n) = {}
<1>1. geom.fats = f.num_fats /\ f.num_fats \in Nat
  BY FormatterGeom, ByTheRules DEF Boot
<1>2. n \in 0 .. f.num_fats - 1
  BY <1>1, FatVolumeAssumption DEF Copies, Min2
<1>3. CompareEnd(geom) \in Nat /\ CompareEnd(geom) <= FatBytes(geom) /\ FatBytes(geom) \in Nat
  <2>1. FatBytes(geom) \in Nat BY <1>2, TablesFit
  <2> QED BY <2>1, FatVolumeAssumption DEF CompareEnd, Min2
<1>4. ASSUME NEW k \in 0 .. CompareEnd(geom) - 1
      PROVE  bytes[FatOffset(geom, 0) + k] = bytes[FatOffset(geom, n) + k]
  <2>1. k \in 0 .. FatBytes(geom) - 1 BY <1>3
  <2> QED BY <1>2, <2>1 DEF Whole
<1> QED BY <1>2, <1>4 DEF Differing

---------------------------------------------------------------------------
(* While nobody writes, nothing has been said of a whole volume.           *)

QuietFor(f) ==
    /\ score = 100
    /\ stage # "probed" => boot = f /\ geom = GeomOf(f)
    /\ stage \in {"info", "backup"} => geom.kind = "FAT32"
    /\ \A x \in found : x[1] = "directory"
QuietInv == calm /\ stage # "closed" => \A f \in Formats : Whole(f) => QuietFor(f)

SaysNothing == \A x \in found' : x \in found \/ x[1] = "directory"
QuietOf(f) == Whole(f) /\ QuietFor(f)

LEMMA SameWhole ==
    ASSUME UNCHANGED <<sectors, infos, bytes, refused>>, NEW f
    PROVE  Whole(f)' <=> Whole(f)
BY DEF Whole, Stored

LEMMA QuietStays ==
    ASSUME QuietInv, UNCHANGED <<sectors, infos, bytes, refused, calm, score, boot, geom>>,
           stage' = stage \/ stage \notin {"probed", "closed"},
           stage' \in {"info", "backup"} => stage' = stage \/ geom.kind = "FAT32",
           stage' = "probed" => stage' = stage,
           \A f \in Formats : calm /\ QuietOf(f) => SaysNothing
    PROVE  QuietInv'
<1> SUFFICES ASSUME calm', stage' # "closed", NEW f \in Formats, Whole(f)' PROVE QuietFor(f)'
  BY DEF QuietInv
<1>1. calm /\ Whole(f) BY SameWhole
<1>2. stage # "closed" OBVIOUS
<1>3. QuietFor(f) BY <1>1, <1>2 DEF QuietInv
<1>4. SaysNothing BY <1>1, <1>3 DEF QuietOf
<1>5. \A x \in found' : x[1] = "directory" BY <1>3, <1>4 DEF QuietFor, SaysNothing
<1> QED BY <1>3, <1>5 DEF QuietFor

LEMMA InitQuiet == Init => QuietInv
BY DEF Init, QuietInv

LEMMA NothingIn == \A where : In(where, {}) = {}
BY DEF In

LEMMA OpenQuiet == ASSUME Inv, QuietInv, Open PROVE QuietInv'
<1>1. CASE Probe
  <2> SUFFICES ASSUME NEW f \in Formats, Whole(f)' PROVE QuietFor(f)'
    BY DEF QuietInv
  <2>1. Whole(f) BY <1>1, SameWhole DEF Probe, disk
  <2>2. score' = 100 BY <1>1, <2>1, NothingRefused, CertainScore DEF Probe
  <2> QED BY <1>1, <2>2 DEF Probe, QuietFor
<1>2. CASE ReadBoot
  <2> SUFFICES ASSUME calm', NEW f \in Formats, Whole(f)' PROVE QuietFor(f)'
    BY DEF QuietInv
  <2>1. Whole(f) /\ QuietFor(f) BY <1>2, SameWhole DEF ReadBoot, disk, QuietInv
  <2>2. BootAt(Base) = f /\ ~ Refuses(Base, BootSectorLen) BY <2>1, NothingRefused
  <2>3. boot' = f /\ geom' = GeomOf(f) /\ stage' = "media" /\ score' = score
    BY <1>2, <2>2 DEF ReadBoot, GeomOf
  <2>4. found' = {}
    <3>1. BootFindings(f, GeomOf(f), Base) = {} BY <2>2, QuietBoot
    <3>2. GeomOf(f).sane BY FormatterGeom
    <3>3. found' = In("boot", BootFindings(f, GeomOf(f), Base))
                   \union In("volume", If(~ GeomOf(f).sane, "contents"))
      BY <1>2, <2>2 DEF ReadBoot, GeomOf
    <3>4. If(~ GeomOf(f).sane, "contents") = {} BY <3>2 DEF If
    <3> QED BY <3>1, <3>3, <3>4, NothingIn
  <2> QED BY <2>1, <2>3, <2>4 DEF QuietFor
<1>3. CASE ReadMedia
  <2>1. /\ stage = "media" /\ stage' \in {"info", "tree"}
        /\ stage' = "info" => geom.kind = "FAT32"
        /\ found' = found \union In("boot", MediaFindings(boot, geom))
        /\ UNCHANGED <<sectors, infos, bytes, refused, calm, score, boot, geom>>
    BY <1>3 DEF ReadMedia, disk
  <2>2. ASSUME NEW f \in Formats, QuietOf(f) PROVE SaysNothing
    <3>1. Whole(f) /\ boot = f /\ geom = GeomOf(f) BY <2>1, <2>2 DEF QuietOf, QuietFor
    <3>2. MediaFindings(boot, geom) = {} BY <3>1, QuietMedia
    <3> QED BY <2>1, <3>2, NothingIn DEF SaysNothing
  <2> QED BY <2>1, <2>2, QuietStays
<1>4. CASE ReadInfo
  <2> DEFINE at == boot.fsinfo_sector * geom.bps + geom.base
             there == at \in DOMAIN infos /\ ~ Refuses(at, BootSectorLen)
             none == Mask("FAT32")
             said == If(~ there, "signatures")
                \union If(there /\ infos[at].free # none /\ infos[at].free > geom.count,
                          "free_count")
                \union If(there /\ infos[at].next \notin {0, none}
                                /\ ~ ClusterInRange(geom, infos[at].next), "next_free")
  <2>1. /\ stage = "info" /\ stage' = "backup" /\ found' = found \union In("info", said)
        /\ UNCHANGED <<sectors, infos, bytes, refused, calm, score, boot, geom>>
    BY <1>4 DEF ReadInfo, disk
  <2>2. ASSUME NEW f \in Formats, QuietOf(f) PROVE SaysNothing /\ geom.kind = "FAT32"
    <3>1. /\ Whole(f) /\ boot = f /\ geom = GeomOf(f) /\ geom.kind = "FAT32"
      BY <2>1, <2>2 DEF QuietOf, QuietFor
    <3>2. at = InfoAt(f) BY <3>1, FormatterGeom DEF InfoAt
    <3>3. InfoAt(f) \in DOMAIN infos /\ infos[InfoAt(f)] = FreshInfo BY <3>1 DEF Whole
    <3>4. ~ Refuses(InfoAt(f), BootSectorLen) BY <3>1, NothingRefused
    <3>5. infos[at].free = none /\ infos[at].next = none BY <3>2, <3>3 DEF FreshInfo
    <3>6. there BY <3>2, <3>3, <3>4
    <3> HIDE DEF at, there, none
    <3>7. said = {} BY <3>5, <3>6 DEF If
    <3> HIDE DEF said
    <3>8. SaysNothing BY <2>1, <3>7, NothingIn DEF SaysNothing
    <3> QED BY <3>1, <3>8
  <2>3. stage' # "probed" /\ stage \notin {"probed", "closed"} BY <2>1
  <2> HIDE DEF said
  <2> SUFFICES ASSUME calm', NEW f \in Formats, Whole(f)' PROVE QuietFor(f)'
    BY DEF QuietInv
  <2>4. Whole(f) BY <2>1, SameWhole
  <2>5. QuietOf(f) BY <2>1, <2>3, <2>4 DEF QuietInv, QuietOf
  <2>6. SaysNothing /\ geom.kind = "FAT32" BY <2>2, <2>5
  <2>7. \A x \in found' : x[1] = "directory"
    BY <2>5, <2>6 DEF QuietOf, QuietFor, SaysNothing
  <2> QED BY <2>1, <2>5, <2>6, <2>7 DEF QuietOf, QuietFor
<1>5. CASE ReadBackup
  <2> DEFINE at == boot.backup_boot_sector * geom.bps + geom.base
             b == BootAt(at)
             bg == Derive(b, geom.base)
  <2>1. /\ stage = "backup" /\ stage' = "tree"
        /\ UNCHANGED <<sectors, infos, bytes, refused, calm, score, boot, geom>>
        /\ boot.backup_boot_sector = 0 => found' = found \union {<<"backup", "none">>}
        /\ boot.backup_boot_sector # 0 =>
               found' = found \union In("backup",
                   BootFindings(b, bg, at) \union MediaFindings(b, bg)
                   \union If(~ Same(boot, at), "differs"))
    BY <1>5 DEF ReadBackup, disk
  <2>2. ASSUME NEW f \in Formats, QuietOf(f) PROVE SaysNothing
    <3>1. /\ Whole(f) /\ boot = f /\ geom = GeomOf(f) /\ geom.kind = "FAT32"
      BY <2>1, <2>2 DEF QuietOf, QuietFor
    <3>2. at = SpareAt(f) /\ geom.base = Base BY <3>1, FormatterGeom DEF SpareAt
    <3>3. SpareAt(f) \in DOMAIN sectors /\ sectors[SpareAt(f)] = f BY <3>1 DEF Whole
    <3>4. ~ Refuses(at, BootSectorLen) BY <3>1, NothingRefused
    <3>5. b = f BY <3>2, <3>3, <3>4 DEF BootAt
    <3>6. bg = GeomOf(f) BY <3>2, <3>5 DEF GeomOf
    <3>7. BootFindings(b, bg, at) = {} BY <3>4, <3>5, <3>6, QuietBoot
    <3>8. MediaFindings(b, bg) = {} BY <3>1, <3>5, <3>6, QuietMedia
    <3>9. Same(boot, at) BY <3>1, <3>4, <3>5 DEF Same
    <3>10. boot.backup_boot_sector # 0 BY <3>1, ByTheRules DEF Rules
    <3> HIDE DEF at, b, bg
    <3>11. BootFindings(b, bg, at) \union MediaFindings(b, bg)
           \union If(~ Same(boot, at), "differs") = {}
      BY <3>7, <3>8, <3>9 DEF If
    <3>12. found' = found \union In("backup", {}) BY <2>1, <3>10, <3>11
    <3> QED BY <3>12, NothingIn DEF SaysNothing
  <2> HIDE DEF at, b, bg
  <2>3. stage \notin {"probed", "closed"} /\ stage' \notin {"info", "backup", "probed"}
    BY <2>1
  <2>4. UNCHANGED <<sectors, infos, bytes, refused, calm, score, boot, geom>> BY <2>1
  <2> QED BY <2>2, <2>3, <2>4, QuietStays
<1>6. CASE Close
  BY <1>6 DEF Close, QuietInv
<1> QED BY <1>1, <1>2, <1>3, <1>4, <1>5, <1>6 DEF Open


\* A chunk that is wanted of both tables of a whole volume is read in whole, and is the same.
LEMMA QuietChunk ==
    ASSUME Inv, NEW f \in Formats, Whole(f), geom = GeomOf(f), NEW n \in 0 .. f.num_fats - 1,
           cmp.at < CompareEnd(geom)
    PROVE  /\ ReadBytes(FatOffset(geom, n) + cmp.at, Want) # Unread
           /\ Len(ReadBytes(FatOffset(geom, n) + cmp.at, Want)) = Want
           /\ Want \in Nat
<1> DEFINE at == cmp.at
           e == CompareEnd(geom)
           o == FatOffset(geom, n)
           b == FatBytes(geom)
           w == Want
<1>1. at \in Nat /\ e \in Nat /\ at < e BY CompareEndType DEF Inv, CmpInv
<1>2. w = Min2(CompareChunk, e - at) BY DEF Want
<1>3. CompareChunk \in Nat \ {0} /\ CompareLimit \in Nat \ {0} /\ DeviceLen \in Nat
  BY FatVolumeAssumption, FatGeometryAssumption
<1>4. o \in Nat /\ b \in Nat /\ o + b <= DeviceLen BY TablesFit
<1>5. e <= b BY <1>3, <1>4 DEF CompareEnd, Min2
<1>6. ~ Refuses(o + at, w) BY NothingRefused
<1> HIDE DEF at, e, o, b, w
<1>7. w \in Nat \ {0} /\ at + w <= e BY <1>1, <1>2, <1>3 DEF Min2
<1>8. o + at \in Nat /\ (o + at) + w <= DeviceLen BY <1>1, <1>3, <1>4, <1>5, <1>7
<1>9. ReadBytes(o + at, w) # Unread /\ Len(ReadBytes(o + at, w)) = w
  BY ONLY <1>6, <1>7, <1>8, AllRead
<1> QED BY <1>7, <1>9 DEF o, at, w

LEMMA NoneFirst ==
    ASSUME NEW ds, NEW a, FirstOf(ds, {}, a)
    PROVE  ds = <<>>
<1>1. ds \in Seq(Nat) /\ \A i \in 1 .. Len(ds) : ds[i] \in {} BY DEF FirstOf
<1>2. Len(ds) = 0 BY <1>1
<1> QED BY <1>1, <1>2

LEMMA CompareQuiet == ASSUME Inv, MirrorInv, QuietInv, Compare PROVE QuietInv'
<1>1. /\ UNCHANGED <<sectors, infos, bytes, refused, calm, score, boot, geom>>
      /\ stage \in {"tree", "compare", "compare with"}
      /\ stage' \in {"tree", "compare", "compare with"}
  BY DEF Compare, OpenMirror, CompareLeft, CompareRight, EndCompare, Stopped, disk
<1>2. ASSUME NEW f \in Formats, calm, QuietOf(f), stage \in {"compare", "compare with"}
      PROVE  /\ Whole(f) /\ geom = GeomOf(f) /\ cmp.diffs = <<>>
             /\ cmp.copy \in 0 .. f.num_fats - 1
             /\ stage = "compare with" =>
                    cmp.left = ReadBytes(FatOffset(geom, 0) + cmp.at, Want)
  <2>1. Whole(f) /\ geom = GeomOf(f) BY <1>2 DEF QuietOf, QuietFor
  <2>2. PICK n \in Copies(geom) : ComparedTo(n)
    BY <1>2 DEF MirrorInv, CalmTrue, Comparing
  <2>3. n \in 0 .. f.num_fats - 1 /\ Differing(n) = {} BY <2>1, NoneDiffer DEF Inv
  <2>4. /\ n = cmp.copy /\ FirstOf(cmp.diffs, {}, cmp.at)
        /\ stage = "compare with" =>
               cmp.left = ReadBytes(FatOffset(geom, 0) + cmp.at, Want)
    BY <2>2, <2>3 DEF ComparedTo
  <2>5. cmp.diffs = <<>> BY <2>4, NoneFirst
  <2> QED BY <2>1, <2>3, <2>4, <2>5
<1>3. ASSUME NEW f \in Formats, calm, QuietOf(f) PROVE SaysNothing
  <2>1. CASE OpenMirror
    BY <2>1 DEF OpenMirror, SaysNothing
  <2>2. CASE CompareLeft
    BY <2>2 DEF CompareLeft, SaysNothing
  <2>3. CASE CompareRight
    <3> DEFINE left == ReadBytes(FatOffset(geom, 0) + cmp.at, Want)
               right == ReadBytes(FatOffset(geom, cmp.copy) + cmp.at, Want)
    <3>1. stage = "compare with" BY <2>3 DEF CompareRight
    <3>2. /\ Whole(f) /\ geom = GeomOf(f) /\ cmp.copy \in 0 .. f.num_fats - 1
          /\ cmp.left = left
      BY <1>2, <1>3, <3>1
    <3>3. cmp.at < CompareEnd(geom) BY <3>1 DEF Inv, CmpInv
    <3>4. 0 \in 0 .. f.num_fats - 1 BY ByTheRules DEF Rules
    <3>5. left # Unread /\ Len(left) = Want /\ Want \in Nat
      BY <3>2, <3>3, <3>4, QuietChunk
    <3>6. right # Unread /\ Len(right) = Want
      BY <3>2, <3>3, QuietChunk
    <3> HIDE DEF left, right
    <3>7. Unread \notin {left, right} /\ ~ (Len(left) < Want \/ Len(right) < Want)
      BY <3>5, <3>6
    <3>8. found' = found BY <2>3, <3>2, <3>7, Zenon DEF CompareRight, right
    <3> QED BY <3>8 DEF SaysNothing
  <2>4. CASE EndCompare
    <3>1. stage = "compare" BY <2>4 DEF EndCompare
    <3>2. cmp.diffs = <<>> BY <1>2, <1>3, <3>1
    <3>3. Stopped(cmp.copy, cmp.at, <<>>, FALSE) BY <2>4, <3>2 DEF EndCompare
    <3>4. found' = found \union In("mirror", {}) BY <3>3 DEF Stopped, If
    <3> QED BY <3>4, NothingIn DEF SaysNothing
  <2> QED BY <2>1, <2>2, <2>3, <2>4 DEF Compare
<1>4. /\ stage' = stage \/ stage \notin {"probed", "closed"}
      /\ stage' \notin {"info", "backup", "probed"}
  BY <1>1
<1> QED BY <1>1, <1>3, <1>4, QuietStays

LEMMA PreviewQuiet ==
    ASSUME Inv, QuietInv, NEW n \in 0 .. MaxCopies - 1, n < geom.fats, PreviewTable(n)
    PROVE  QuietInv'
<1> DEFINE g == geom
           shown == 0 .. LastShown(g)
           of(c) == IF Got(FatEntryOffset(g, n, c), EntryWidth(g)) = Over
                    THEN {"unreadable"}
                    ELSE IF FatEntry(g, n, c) = Over THEN {}
                    ELSE EntryFinding(g, c, FatEntry(g, n, c))
           said == UNION {of(c) : c \in shown}
<1>1. /\ stage = "tree" /\ found' = found \union In("table", said)
      /\ UNCHANGED <<sectors, infos, bytes, refused, calm, stage, score, boot, geom>>
  BY DEF PreviewTable, disk
<1>2. ASSUME NEW f \in Formats, calm, QuietOf(f) PROVE SaysNothing
  <2>1. Whole(f) /\ geom = GeomOf(f) BY <1>1, <1>2 DEF QuietOf, QuietFor
  <2>2. n \in 0 .. f.num_fats - 1
    <3>1. geom.fats = f.num_fats /\ f.num_fats \in Nat
      BY <2>1, FormatterGeom, ByTheRules DEF Boot
    <3>2. MaxCopies \in Nat BY FatVolumeAssumption
    <3> QED BY <3>1, <3>2
  <2>3. ASSUME NEW c \in shown PROVE of(c) = {}
    <3>1. c \in 0 .. LastCluster(GeomOf(f)) + 1
      <4>1. LastCluster(g) + 1 \in Nat BY DEF Inv, GeomInv, Geom, LastCluster
      <4>2. PreviewEntries \in Nat BY FatVolumeAssumption
      <4> QED BY <2>1, <4>1, <4>2 DEF LastShown, Min2
    <3>2. /\ Got(FatEntryOffset(GeomOf(f), n, c), EntryWidth(GeomOf(f))) # Over
          /\ FatEntry(GeomOf(f), n, c) # Over =>
                 EntryFinding(GeomOf(f), c, FatEntry(GeomOf(f), n, c)) = {}
      BY <2>1, <2>2, <3>1, QuietPreview
    <3> QED BY <2>1, <3>2
  <2> HIDE DEF of, shown
  <2>4. said = {} BY <2>3
  <2> HIDE DEF said
  <2> QED BY <1>1, <2>4, NothingIn DEF SaysNothing
<1>3. /\ stage' = stage /\ stage' \notin {"info", "backup", "probed"}
  BY <1>1
<1> HIDE DEF said
<1> QED BY <1>1, <1>2, <1>3, QuietStays

\* The root directory of a volume that the device has room for has a place.
LEMMA RootHasPlace ==
    ASSUME NEW f \in Formats, GeomOf(f).kind = "FAT32"
    PROVE  ClusterToByte(GeomOf(f), GeomOf(f).root_cluster) # Over
<1> DEFINE g == GeomOf(f)
           r == g.root_cluster
<1>1. g \in Geom /\ Derived(g) /\ Fits(g) /\ g.sane /\ r = f.root_cluster BY FormatterGeom
<1>2. r \in 2 .. g.count + 1
  <2>1. ClusterInRange(g, f.root_cluster) BY ByTheRules DEF Rules
  <2> QED BY <1>1, <2>1 DEF ClusterInRange, LastCluster
<1>3. g.data_start + g.count * g.bpc <= DeviceLen BY <1>1, Layout
<1>4. g.count \in Nat /\ g.bpc \in Nat /\ g.data_start \in Nat BY <1>1 DEF Geom
<1>5. DeviceLen \in 0 .. Top /\ Top \in Nat BY FatVolumeAssumption, FatGeometryAssumption
<1> HIDE DEF g, r
<1>6. r \in Nat /\ r >= 2 /\ r - 2 \in Nat /\ r - 2 <= g.count BY <1>2, <1>4
<1>7. /\ (r - 2) * g.bpc <= g.count * g.bpc /\ (r - 2) * g.bpc \in Nat
      /\ g.count * g.bpc \in Nat
  BY <1>4, <1>6, Products
<1> DEFINE x == (r - 2) * g.bpc
           y == g.count * g.bpc
<1>8. x \in Nat /\ y \in Nat /\ x <= y /\ g.data_start + y <= DeviceLen BY <1>3, <1>7
<1>9. ClusterToByte(g, r) = IF g.sane /\ r >= 2 /\ x + g.data_start <= Top
                            THEN x + g.data_start ELSE Over
  BY DEF ClusterToByte
<1> HIDE DEF x, y
<1>10. x + g.data_start <= Top /\ x + g.data_start \in Nat BY <1>4, <1>5, <1>8
<1>11. ClusterToByte(g, r) # Over BY <1>1, <1>6, <1>9, <1>10 DEF Over
<1> QED BY <1>11 DEF g, r

\* What is said of a directory is said there.
LEMMA DirectoryQuiet ==
    ASSUME QuietInv, List \/ OpenRoot \/ \E c \in Clusters : OpenDirectory(c)
    PROVE  QuietInv'
<1>1. /\ UNCHANGED <<sectors, infos, bytes, refused, calm, score, boot, geom>>
      /\ stage \in {"tree", "walk", "extents", "read"}
      /\ stage' \in {"tree", "walk", "extents", "read"}
  BY DEF List, Walk, WalkEnds, Extend, Extended, ReadRun, Listed, OpenRoot, OpenDirectory, disk
<1>2. ASSUME NEW f \in Formats, calm, QuietOf(f) PROVE SaysNothing
  <2>1. geom = GeomOf(f) BY <1>1, <1>2 DEF QuietOf, QuietFor
  <2>2. CASE List
    <3>1. \/ found' = found
          \/ \E what : found' = found \union In("directory", what)
          \/ found' = found \union {PartUnread}
      <4>1. CASE Walk
        <5>1. ASSUME NEW end, WalkEnds(end)
              PROVE  \E what : found' = found \union In("directory", what)
          BY <5>1, Zenon DEF WalkEnds
        <5>2. \/ \E end : WalkEnds(end)
              \/ found' = found
              \/ \E what : found' = found \union In("directory", what)
          BY <4>1, Zenon DEF Walk
        <5> QED BY <5>1, <5>2
      <4>2. CASE Extend \/ Listed BY <4>2 DEF Extend, Listed
      <4>3. CASE Extended BY <4>3, Zenon DEF Extended
      <4>4. CASE ReadRun BY <4>4, Zenon DEF ReadRun, PartUnread
      <4> QED BY <2>2, <4>1, <4>2, <4>3, <4>4 DEF List
    <3>2. ASSUME NEW what, found' = found \union In("directory", what) PROVE SaysNothing
      <4>1. \A x \in In("directory", what) : x[1] = "directory" BY DEF In
      <4> QED BY <3>2, <4>1 DEF SaysNothing
    <3>3. found' = found \union {PartUnread} => SaysNothing
      <4>1. PartUnread[1] = "directory" BY DEF PartUnread
      <4> QED BY <4>1 DEF SaysNothing
    <3>4. found' = found => SaysNothing BY DEF SaysNothing
    <3> QED BY <3>1, <3>2, <3>3, <3>4
  <2>3. CASE OpenRoot
    <3>1. CASE geom.kind # "FAT32"
      BY <2>3, <3>1 DEF OpenRoot, Without, SaysNothing
    <3>2. CASE geom.kind = "FAT32"
      <4>1. ClusterToByte(geom, geom.root_cluster) # Over BY <2>1, <3>2, RootHasPlace
      <4>2. found' = Without("directory") BY <2>3, <3>2, <4>1 DEF OpenRoot
      <4> QED BY <4>2 DEF Without, SaysNothing
    <3> QED BY <3>1, <3>2
  <2>4. CASE \E c \in Clusters : OpenDirectory(c)
    BY <2>4 DEF OpenDirectory, Without, SaysNothing
  <2> QED BY <2>2, <2>3, <2>4
<1>3. /\ stage \notin {"probed", "closed"} /\ stage' \notin {"info", "backup", "probed"}
  BY <1>1
<1> QED BY <1>1, <1>2, <1>3, QuietStays

LEMMA OthersQuiet == ASSUME QuietInv, Others PROVE QuietInv'
<1>1. UNCHANGED reader
  BY DEF Others, BeginFormat, WritePiece, FormatterDies, DriverWrites, DamageField, Refuse
<1>2. CASE calm' = FALSE BY <1>2 DEF QuietInv
<1>3. CASE UNCHANGED <<sectors, infos, bytes, refused, calm>>
  <2>1. \A f \in Formats : calm /\ QuietOf(f) => SaysNothing BY <1>1 DEF reader, SaysNothing
  <2> QED BY <1>1, <1>3, <2>1, QuietStays DEF reader
<1> QED
  BY <1>2, <1>3
  DEF Others, BeginFormat, WritePiece, FormatterDies, DriverWrites, DamageField, Refuse

LEMMA QuietNext == Inv /\ MirrorInv /\ QuietInv /\ [Next]_vars => QuietInv'
<1> SUFFICES ASSUME Inv, MirrorInv, QuietInv, [Next]_vars PROVE QuietInv' OBVIOUS
<1>1. CASE Next
  BY <1>1, OpenQuiet, CompareQuiet, PreviewQuiet, DirectoryQuiet, OthersQuiet DEF Next, Others
<1>2. CASE UNCHANGED vars
  <2>1. \A f \in Formats : calm /\ QuietOf(f) => SaysNothing BY <1>2 DEF vars, SaysNothing
  <2>2. UNCHANGED <<sectors, infos, bytes, refused, calm, score, boot, geom, stage>>
    BY <1>2 DEF vars, disk
  <2> QED BY <2>1, <2>2, QuietStays
<1> QED BY <1>1, <1>2

LEMMA QuietFollows == QuietInv => HealthyIsQuiet
BY DEF QuietInv, QuietFor, HealthyIsQuiet

\* In every run, while nobody has written since the probe: of a volume that lies on the device
\* as a formatter leaves it and a driver keeps it, of whichever of the three kinds, the probe is
\* certain and nothing is said of its boot sectors, FSInfo, entries and tables, in whatever
\* order they are opened and compared (FatProbe::probe, FatReader::root, FatPreview, FatMirror).
THEOREM AlwaysQuiet == Spec => []HealthyIsQuiet
<1>1. Init => Inv /\ MirrorInv /\ QuietInv BY InvInit, InitMirror, InitQuiet
<1>2. Inv /\ MirrorInv /\ QuietInv /\ [Next]_vars => (Inv /\ MirrorInv /\ QuietInv)'
  BY InvNext, MirrorNext, QuietNext
<1> QED BY <1>1, <1>2, QuietFollows, PTL DEF Spec
===========================================================================
