------------------------- MODULE ExfatVolume_proofs -------------------------
(***************************************************************************)
(* That silence about the boot regions means one region written twice,     *)
(* that the clusters shown as chained but free are, and that nothing is    *)
(* found wrong with a sound volume, for every set of volumes, every device *)
(* and any damage.                                                         *)
(*                                                                         *)
(* The inductive invariant says where checksums come from: a unit that     *)
(* holds one holds that of a region a formatter wrote.  And what the       *)
(* reader has said so far is said of the device as it is, as long as       *)
(* nobody wrote.  A second one says what it knows of the bitmap: the loops *)
(* over the clusters of a chain, the runs made of them and the units of a  *)
(* run are followed turn by turn.  A third one says what the reader finds  *)
(* of a volume that at most a mount has touched: where its pieces lie,     *)
(* that they do not meet, and what every part of it is read as.            *)
(***************************************************************************)
EXTENDS ExfatVolume, Selection_proofs

SumOf(f) == [sum |-> Sum(BootArea(f.boot))]
Sound(u) ==
    /\ "sum" \in DOMAIN u => \E f \in Formats : u = SumOf(f)
    /\ "unread" \notin DOMAIN u

Device == 0 .. DeviceLen - 1
UnitsInv == DOMAIN units = Device /\ \A x \in Device : Sound(units[x])
JobInv == \A w \in job : w[1] \in Formats /\ w[2] \in Pieces(w[1])

\* The reader is past a part of the boot regions.
PastBoot == stage[1] \notin {"closed", "probed"}
PastMain == PastBoot /\ ~ (stage[1] = "region" /\ stage[2] = 0)
PastBoth == PastBoot /\ stage[1] \notin {"region", "diff"}

Quiet == \A w \in found : w[1] \notin {"main", "backup"}
ReadInv ==
    calm =>
        /\ PastBoot => /\ geo = FromBoot(BootOf(UnitAt(0)))
                       /\ Quiet => GeometryFindings(BootOf(UnitAt(0))) = {}
        /\ PastMain /\ Quiet => SumFindings(geo, 0) = {}
        /\ PastBoth /\ Quiet => DiffFindings(geo) = {}

Inv == UnitsInv /\ JobInv /\ ReadInv

---------------------------------------------------------------------------
(* What is written.                                                        *)

LEMMA PlainUnits ==
    /\ Sound(Zero) /\ Sound(Junk) /\ Sound(Signature)
    /\ \A b : Sound([boot |-> b]) /\ Sound([fat |-> b]) /\ Sound([bits |-> b])
              /\ Sound([entries |-> b]) /\ Sound([upcase |-> b])
BY DEF Sound, Zero, Junk, Signature

\* A sequence laid out on the device holds its members.
LEMMA AtHolds ==
    ASSUME NEW S, NEW us \in Seq(S), NEW at \in Int, NEW x \in DOMAIN At(at, us)
    PROVE  At(at, us)[x] \in S
<1>1. x \in at .. at + Len(us) - 1 BY DEF At
<1>2. Len(us) \in Nat /\ DOMAIN us = 1 .. Len(us) OBVIOUS
<1>3. x - at + 1 \in DOMAIN us BY <1>1, <1>2
<1> QED BY <1>1, <1>3 DEF At

LEMMA AreaType ==
    ASSUME NEW b, b.bytes_per_sector \in Nat
    PROVE  /\ BootArea(b) \in Seq({[boot |-> b], Signature, Zero})
           /\ Len(BootArea(b)) = BootChecksumSector * b.bytes_per_sector
           /\ SumSector(b) \in Seq({[sum |-> Sum(BootArea(b))]})
           /\ Len(SumSector(b)) = b.bytes_per_sector
<1>1. BootChecksumSector * b.bytes_per_sector \in Nat
  BY ExfatVolumeAssumption DEF BootChecksumSector
<1> QED BY <1>1 DEF BootArea, SumSector

LEMMA GeoInts ==
    ASSUME NEW f \in Formats, NEW n \in Nat
    PROVE  SectorAt(FromBoot(f.boot), n) \in Nat
<1>1. FromBoot(f.boot).sector \in Nat BY ExfatVolumeAssumption DEF FromBoot
<1> QED BY <1>1 DEF SectorAt

LEMMA WrittenSound ==
    ASSUME NEW f \in Formats, NEW piece \in Pieces(f), NEW x \in DOMAIN Written[f][piece]
    PROVE  Sound(Written[f][piece][x])
<1> DEFINE g == FromBoot(f.boot)
           n == piece[2]
<1>1. Written[f][piece] = Piece(f, piece) BY DEF Written
<1>2. f.boot.bytes_per_sector \in Nat BY ExfatVolumeAssumption
<1>3. /\ BackupBootSector \in Nat /\ BootChecksumSector \in Nat
      /\ piece[1] \in {"region", "sum", "tables", "heap"}
      /\ piece[2] \in {0, BackupBootSector}
  BY ExfatVolumeAssumption DEF Pieces, BackupBootSector, BootRegionSectors, BootChecksumSector
<1>4. CASE piece[1] = "region"
  <2>1. Piece(f, piece) = At(SectorAt(g, n), BootArea(f.boot)) BY <1>4 DEF Piece
  <2>2. SectorAt(g, n) \in Int BY <1>3, GeoInts
  <2>3. Written[f][piece][x] \in {[boot |-> f.boot], Signature, Zero}
    BY <1>1, <1>2, <2>1, <2>2, AreaType, AtHolds
  <2> QED BY <2>3, PlainUnits
<1>5. CASE piece[1] = "sum"
  <2>1. Piece(f, piece) = At(SectorAt(g, n + BootChecksumSector), SumSector(f.boot))
    BY <1>5 DEF Piece
  <2>2. SectorAt(g, n + BootChecksumSector) \in Int BY <1>3, GeoInts
  <2>3. Written[f][piece][x] \in {[sum |-> Sum(BootArea(f.boot))]}
    BY <1>1, <1>2, <2>1, <2>2, AreaType, AtHolds
  <2> QED BY <2>3 DEF Sound, SumOf
<1>6. CASE piece[1] = "tables"
  <2> DEFINE before(y) == ((y - FatAt(g, 0)) % SectorAt(g, g.fat_length)) * TableEntries
             fat(y) == [i \in 1 .. TableEntries |-> FreshEntry(f, before(y) + i - 1)]
  <2>1. Piece(f, piece) = [y \in FatAt(g, 0) .. FatAt(g, g.fats) - 1 |-> [fat |-> fat(y)]]
    BY <1>6 DEF Piece
  <2> HIDE DEF fat
  <2>2. Written[f][piece][x] = [fat |-> fat(x)] BY <1>1, <2>1
  <2> QED BY <2>2, PlainUnits
<1>7. CASE piece[1] = "heap"
  <2>1. Piece(f, piece) = Heap(f) BY <1>7 DEF Piece
  <2> DEFINE bit(y) == {BitPlace(c) : c \in {d \in Used(f) : BitUnit(f, d) = y}}
  <2>2. \/ Heap(f)[x] \in {[entries |-> Entries(f)], UpcaseTable[1], Zero}
        \/ Heap(f)[x] = [bits |-> bit(x)]
    BY <1>1, <2>1 DEF Heap
  <2> HIDE DEF bit
  <2>3. UpcaseTable[1] = [upcase |-> TRUE] BY DEF UpcaseTable
  <2> QED BY <1>1, <2>1, <2>2, <2>3, PlainUnits
<1> QED BY <1>3, <1>4, <1>5, <1>6, <1>7

---------------------------------------------------------------------------
(* The invariant is inductive.                                             *)

LEMMA InvInit == Init => Inv
<1> SUFFICES ASSUME Init PROVE Inv OBVIOUS
<1>1. PICK f \in Formats : units = Fresh(f) BY DEF Init
<1>2. DOMAIN units = Device BY <1>1 DEF Fresh, Device
<1>3. ASSUME NEW x \in Device PROVE Sound(units[x])
  <2> DEFINE holds(piece) == x \in DOMAIN Written[f][piece]
             which == CHOOSE piece \in Pieces(f) : holds(piece)
  <2>1. CASE \E piece \in Pieces(f) : holds(piece)
    <3>1. which \in Pieces(f) /\ holds(which) BY <2>1
    <3>2. units[x] = Written[f][which][x] BY <1>1, <1>3, <2>1 DEF Fresh, Device
    <3> QED BY <3>1, <3>2, WrittenSound
  <2>2. CASE ~ \E piece \in Pieces(f) : holds(piece)
    <3>1. units[x] = Zero BY <1>1, <1>3, <2>2 DEF Fresh, Device
    <3> QED BY <3>1, PlainUnits
  <2> QED BY <2>1, <2>2
<1>4. JobInv /\ ReadInv
  BY DEF Init, JobInv, ReadInv, PastBoot, PastMain, PastBoth
<1> QED BY <1>2, <1>3, <1>4 DEF Inv, UnitsInv

\* Whatever is written over the device: one unit, or those of a piece.
LEMMA OneUnit ==
    ASSUME UnitsInv, NEW x, NEW u, x \in Device => Sound(u), units' = [units EXCEPT ![x] = u]
    PROVE  UnitsInv'
BY DEF UnitsInv, Device

LEMMA SumUntouched ==
    ASSUME NEW u, NEW field, NEW v, field # "sum", Sound(u)
    PROVE  Sound([u EXCEPT ![field] = v])
<1> DEFINE w == [u EXCEPT ![field] = v]
<1> SUFFICES ASSUME "sum" \in DOMAIN w PROVE \E f \in Formats : w = SumOf(f) BY DEF Sound
<1>1. DOMAIN w = DOMAIN u OBVIOUS
<1>2. PICK f \in Formats : u = SumOf(f) BY <1>1 DEF Sound
<1>3. w = u BY <1>2 DEF SumOf
<1> QED BY <1>2, <1>3

LEMMA OneField ==
    ASSUME UnitsInv, NEW x, NEW field, NEW v, field # "sum",
           units' = [units EXCEPT ![x] = [units[x] EXCEPT ![field] = v]]
    PROVE  UnitsInv'
<1>1. x \in Device => Sound([units[x] EXCEPT ![field] = v]) BY SumUntouched DEF UnitsInv
<1> QED BY <1>1, OneUnit

LEMMA DamagedSound == ASSUME NEW u, NEW d \in Damaged(u) PROVE Sound(d)
<1>1. CASE d \in {Zero, Junk} BY <1>1, PlainUnits
<1>2. CASE \E b : d = [boot |-> b] BY <1>2, PlainUnits
<1>3. CASE \E b : d = [fat |-> b] BY <1>3, PlainUnits
<1>4. CASE Is(u, "entries") /\ DOMAIN d = DOMAIN u BY <1>4 DEF Sound, Is
<1>5. CASE \E field \in DOMAIN DamagedFields : \E v \in DamagedFields[field] :
              d = [boot |-> [u.boot EXCEPT ![field] = v]]
  BY <1>5, <1>2
<1>6. CASE \E i \in DOMAIN u.fat, v \in EntryValues : d = [fat |-> [u.fat EXCEPT ![i] = v]]
  BY <1>6, <1>3
<1>7. CASE Is(u, "entries") /\ \/ \E v \in EntryValues : d = [u EXCEPT !.entries.bitmap[1].first = v]
                               \/ d = [u EXCEPT !.entries.bitmap[1].len = @ + 1]
                               \/ d = [u EXCEPT !.entries.bitmap = <<>>]
  BY <1>7, <1>4
<1> QED BY <1>1, <1>5, <1>6, <1>7 DEF Damaged

LEMMA OthersKeep == ASSUME Inv, Others PROVE Inv'
<1>1. calm' => ~ PastBoot' 
  <2>1. Unseen
    BY DEF Others, BeginFormat, WritePiece, Mount, Unmount, MarkCluster, LinkCluster,
           Damage, Refuse
  <2> QED BY <2>1 DEF Unseen, PastBoot
<1>2. ReadInv' BY <1>1 DEF ReadInv, PastMain, PastBoth
<1>3. UnitsInv' /\ JobInv'
  <2>1. CASE BeginFormat
    <3>1. units' = units BY <2>1 DEF BeginFormat
    <3>2. PICK f \in Formats : job' = {f} \X Pieces(f) BY <2>1 DEF BeginFormat
    <3> QED BY <3>1, <3>2 DEF Inv, UnitsInv, JobInv
  <2>2. CASE WritePiece
    <3>1. PICK w \in job : /\ job' = job \ {w}
                           /\ units' = Over(units, Written[w[1]][w[2]])
      BY <2>2 DEF WritePiece
    <3>2. w[1] \in Formats /\ w[2] \in Pieces(w[1]) BY DEF Inv, JobInv
    <3>3. DOMAIN units' = Device BY <3>1 DEF Over, Inv, UnitsInv
    <3>4. ASSUME NEW x \in Device PROVE Sound(units'[x])
      <4>1. units'[x] = IF x \in DOMAIN Written[w[1]][w[2]]
                        THEN Written[w[1]][w[2]][x] ELSE units[x]
        BY <3>1, <3>4 DEF Over, Inv, UnitsInv
      <4>2. Sound(units[x]) BY <3>4 DEF Inv, UnitsInv
      <4> QED BY <3>2, <4>1, <4>2, WrittenSound
    <3>5. JobInv' BY <3>1 DEF Inv, JobInv
    <3> QED BY <3>3, <3>4, <3>5 DEF UnitsInv
  <2>3. CASE Mount
    <3>1. PICK b : units' = [units EXCEPT ![0] = [boot |-> b]]
      BY <2>3 DEF Mount, WithBoot
    <3> QED BY <2>3, <3>1, OneUnit, PlainUnits DEF Mount, Inv, JobInv
  <2>4. CASE Unmount
    <3>1. PICK b : units' = [units EXCEPT ![0] = [boot |-> b]]
      BY <2>4 DEF Unmount, WithBoot
    <3> QED BY <2>4, <3>1, OneUnit, PlainUnits DEF Unmount, Inv, JobInv
  <2>5. CASE MarkCluster
    <3>1. \E x, v : units' = [units EXCEPT ![x] = [units[x] EXCEPT !["bits"] = v]]
      BY <2>5 DEF MarkCluster
    <3>2. UnitsInv' BY <3>1, OneField DEF Inv
    <3> QED BY <2>5, <3>2 DEF MarkCluster, Inv, JobInv
  <2>6. CASE LinkCluster
    <3>1. \E x, v : units' = [units EXCEPT ![x] = [units[x] EXCEPT !["fat"] = v]]
      BY <2>6 DEF LinkCluster
    <3>2. UnitsInv' BY <3>1, OneField DEF Inv
    <3> QED BY <2>6, <3>2 DEF LinkCluster, Inv, JobInv
  <2>7. CASE Damage
    <3>1. PICK x \in DOMAIN units : \E u \in Damaged(units[x]) :
              units' = [units EXCEPT ![x] = u]
      BY <2>7 DEF Damage
    <3> QED BY <2>7, <3>1, DamagedSound, OneUnit DEF Damage, Inv, JobInv
  <2>8. CASE Refuse
    BY <2>8 DEF Refuse, Inv, JobInv, UnitsInv
  <2> QED BY <2>1, <2>2, <2>3, <2>4, <2>5, <2>6, <2>7, <2>8 DEF Others
<1> QED BY <1>2, <1>3 DEF Inv

LEMMA NothingSaid ==
    ASSUME NEW what, NEW where \in {"main", "backup"}, NEW said, In(where, what) \subseteq said,
           \A w \in said : w[1] \notin {"main", "backup"}
    PROVE  what = {}
<1>1. ASSUME NEW x \in what PROVE FALSE
  <2>1. <<where, x>> \in said BY <1>1 DEF In
  <2>2. <<where, x>>[1] = where OBVIOUS
  <2> QED BY <2>1, <2>2
<1> QED BY <1>1

\* A step of the reader that reads no part of the boot regions.
LEMMA ReaderKeeps ==
    ASSUME Inv, UNCHANGED <<disk, calm, geo>>, found \subseteq found',
           PastBoot' => PastBoot, PastMain' => PastMain, PastBoth' => PastBoth
    PROVE  Inv'
<1>1. UNCHANGED <<units, refused, job>> BY DEF disk
<1>2. UnitsInv' /\ JobInv' BY <1>1 DEF Inv, UnitsInv, JobInv
<1>3. Quiet' => Quiet BY DEF Quiet
<1>4. UnitAt(0)' = UnitAt(0) BY <1>1 DEF UnitAt, Got
<1>5. SumFindings(geo, 0)' = SumFindings(geo, 0) BY <1>1 DEF SumFindings, Got
<1>6. DiffFindings(geo)' = DiffFindings(geo) BY <1>1 DEF DiffFindings, Got
<1>7. ReadInv' BY <1>3, <1>4, <1>5, <1>6 DEF Inv, ReadInv
<1> QED BY <1>2, <1>7 DEF Inv

\* One that reads a part and shows what it found there.
LEMMA ReadBootKeeps == ASSUME Inv, ReadBoot PROVE Inv'
<1>1. UNCHANGED <<units, refused, job, calm>> BY DEF ReadBoot, disk
<1>2. UnitsInv' /\ JobInv' BY <1>1 DEF Inv, UnitsInv, JobInv
<1>3. UnitAt(0)' = UnitAt(0) BY <1>1 DEF UnitAt, Got
<1>4. geo' = FromBoot(BootOf(UnitAt(0))) BY DEF ReadBoot
<1>5. Quiet' => GeometryFindings(BootOf(UnitAt(0))) = {}
  <2> DEFINE what == GeometryFindings(BootOf(UnitAt(0)))
  <2>1. found' = found \union In("main", what) BY DEF ReadBoot
  <2> HIDE DEF what
  <2>2. Quiet' => what = {} BY <2>1, NothingSaid DEF Quiet
  <2> QED BY <2>2 DEF what
<1>6. ~ PastMain' /\ ~ PastBoth' BY DEF ReadBoot, PastMain, PastBoth
<1>7. ReadInv' BY <1>3, <1>4, <1>5, <1>6 DEF ReadInv
<1> QED BY <1>2, <1>7 DEF Inv

LEMMA ReadRegionKeeps == ASSUME Inv, ReadRegion PROVE Inv'
<1>1. UNCHANGED <<units, refused, job, calm, geo>> BY DEF ReadRegion, disk
<1>2. found \subseteq found' BY DEF ReadRegion
<1>3. PastBoot /\ ~ PastBoth' /\ stage[1] = "region"
  BY DEF ReadRegion, PastBoot, PastBoth
<1>4. CASE PastMain
  BY <1>1, <1>2, <1>3, <1>4, ReaderKeeps DEF ReadRegion, disk
<1>5. CASE ~ PastMain
  <2>1. stage[2] = 0 BY <1>3, <1>5 DEF PastMain
  <2>2. UnitsInv' /\ JobInv' BY <1>1 DEF Inv, UnitsInv, JobInv
  <2>3. UnitAt(0)' = UnitAt(0) BY <1>1 DEF UnitAt, Got
  <2>4. SumFindings(geo, 0)' = SumFindings(geo, 0) BY <1>1 DEF SumFindings, Got
  <2>5. Quiet' => Quiet BY <1>2 DEF Quiet
  <2>6. Quiet' => SumFindings(geo, 0) = {}
    <3> DEFINE what == SumFindings(geo, 0)
    <3>1. found' = found \union In("main", RegionFindings(boot, geo, 0) \union what)
      BY <2>1 DEF ReadRegion
    <3> HIDE DEF what
    <3>2. In("main", what) \subseteq found' BY <3>1 DEF In
    <3>3. Quiet' => what = {} BY <3>2, NothingSaid DEF Quiet
    <3> QED BY <3>3 DEF what
  <2>7. ReadInv' BY <1>1, <1>3, <2>3, <2>4, <2>5, <2>6 DEF Inv, ReadInv
  <2> QED BY <2>2, <2>7 DEF Inv
<1> QED BY <1>4, <1>5

LEMMA CompareKeeps == ASSUME Inv, Compare PROVE Inv'
<1>1. UNCHANGED <<units, refused, job, calm, geo>> BY DEF Compare, disk
<1>2. UnitsInv' /\ JobInv' BY <1>1 DEF Inv, UnitsInv, JobInv
<1>3. UnitAt(0)' = UnitAt(0) BY <1>1 DEF UnitAt, Got
<1>4. SumFindings(geo, 0)' = SumFindings(geo, 0) BY <1>1 DEF SumFindings, Got
<1>5. DiffFindings(geo)' = DiffFindings(geo) BY <1>1 DEF DiffFindings, Got
<1>6. Quiet' => Quiet BY DEF Compare, Quiet
<1>7. Quiet' => DiffFindings(geo) = {}
  <2> DEFINE what == DiffFindings(geo)
             rest == In("volume", If(~ geo.trusted, "geometry"))
  <2>1. found' = found \union In("backup", what) \union rest BY DEF Compare
  <2> HIDE DEF what, rest
  <2>2. Quiet' => what = {} BY <2>1, NothingSaid DEF Quiet
  <2> QED BY <2>2 DEF what
<1>8. PastBoot /\ PastMain BY DEF Compare, PastBoot, PastMain
<1>9. ReadInv' BY <1>1, <1>3, <1>4, <1>5, <1>6, <1>7, <1>8 DEF Inv, ReadInv
<1> QED BY <1>2, <1>9 DEF Inv

LEMMA CloseKeeps == ASSUME Inv, Close PROVE Inv'
<1>1. UnitsInv' /\ JobInv' BY DEF Close, disk, Inv, UnitsInv, JobInv
<1>2. ReadInv' BY DEF Close, ReadInv, PastBoot, PastMain, PastBoth
<1> QED BY <1>1, <1>2 DEF Inv

LEMMA InvNext == Inv /\ [Next]_vars => Inv'
<1> SUFFICES ASSUME Inv, [Next]_vars PROVE Inv' OBVIOUS
<1> USE DEF PastBoot, PastMain, PastBoth
<1>1. CASE Probe BY <1>1, ReaderKeeps DEF Probe
<1>2. CASE ReadTable BY <1>2, ReaderKeeps DEF ReadTable, TableStage
<1>3. CASE ReadRoot BY <1>3, ReaderKeeps DEF ReadRoot
<1>4. CASE ReadBitmap BY <1>4, ReaderKeeps DEF ReadBitmap
<1>5. CASE NoBitmap BY <1>5, ReaderKeeps DEF NoBitmap, shown
<1>6. CASE Crosscheck BY <1>6, ReaderKeeps DEF Crosscheck
<1>7. CASE ReadUpcase BY <1>7, ReaderKeeps DEF ReadUpcase
<1>8. CASE NoUpcase BY <1>8, ReaderKeeps DEF NoUpcase, shown
<1>9. CASE ExpandTable BY <1>9, ReaderKeeps DEF ExpandTable
<1>10. CASE UNCHANGED vars BY <1>10, ReaderKeeps DEF vars, shown
<1> QED BY <1>1, <1>2, <1>3, <1>4, <1>5, <1>6, <1>7, <1>8, <1>9, <1>10,
           ReadBootKeeps, ReadRegionKeeps, CompareKeeps, CloseKeeps, OthersKeep DEF Next

---------------------------------------------------------------------------
(* What silence says.                                                      *)

\* What a read gives that was not refused.
LEMMA GotUnits ==
    ASSUME NEW at \in Nat, NEW n \in Nat, Got(at, n) # Unread, at < DeviceLen
    PROVE  /\ Got(at, n) = [i \in 1 .. Min2(n, DeviceLen - at) |-> units[at + i - 1]]
           /\ Len(Got(at, n)) = Min2(n, DeviceLen - at)
<1>1. DeviceLen \in Nat BY ExfatVolumeAssumption
<1>2. Got(at, n) = [i \in 1 .. Min2(n, DeviceLen - at) |-> units[at + i - 1]]
  BY <1>1 DEF Got
<1>3. Min2(n, DeviceLen - at) \in Nat BY <1>1 DEF Min2
<1> QED BY <1>2, <1>3

\* A boot sector that looks sound is there, and it says how long a sector is.
LEMMA SectorRead ==
    ASSUME GeometryFindings(BootOf(UnitAt(0))) = {}, geo = FromBoot(BootOf(UnitAt(0)))
    PROVE  geo.sector \in SectorSizes /\ geo.sector \in Nat \ {0} /\ SectorAt(geo, 0) = 0
<1> DEFINE b == BootOf(UnitAt(0))
<1>1. b.bytes_per_sector \in SectorSizes
  <2>1. "bytes_per_sector" \notin If(b.bytes_per_sector \notin SectorSizes, "bytes_per_sector")
    BY DEF GeometryFindings
  <2> QED BY <2>1 DEF If
<1>2. geo.sector = b.bytes_per_sector BY <1>1 DEF FromBoot
<1>3. geo.sector \in Nat \ {0} BY <1>1, <1>2, ExfatVolumeAssumption
<1> QED BY <1>1, <1>2, <1>3 DEF SectorAt

\* The two regions are on the device in whole, and agree unit for unit.
LEMMA RegionsAgree ==
    ASSUME NEW s \in Nat \ {0}, geo.sector = s, SectorAt(geo, 0) = 0, DiffFindings(geo) = {}
    PROVE  LET len == BootRegionSectors * s
           IN  /\ 2 * len <= DeviceLen /\ SectorAt(geo, BackupBootSector) = len
               /\ \A x \in 0 .. len - 1 : units[x] = units[len + x]
<1> DEFINE len == BootRegionSectors * s
           main == Got(0, len)
           backup == Got(len, len)
<1>1. len \in Nat \ {0} /\ DeviceLen \in Nat \ {0}
  BY ExfatVolumeAssumption DEF BootRegionSectors
<1>2. SectorAt(geo, BackupBootSector) = len BY DEF SectorAt, BackupBootSector
<1>3. main # Unread /\ backup # Unread /\ Len(main) = Len(backup) /\ main = backup
  BY <1>2 DEF DiffFindings, Same
<1> HIDE DEF len, main, backup
<1>4. /\ main = [i \in 1 .. Min2(len, DeviceLen) |-> units[i - 1]]
      /\ Len(main) = Min2(len, DeviceLen)
  <2>1. /\ main = [i \in 1 .. Min2(len, DeviceLen - 0) |-> units[0 + i - 1]]
        /\ Len(main) = Min2(len, DeviceLen - 0)
    BY <1>1, <1>3, GotUnits DEF main
  <2> QED BY <1>1, <2>1 DEF Min2
<1>5. len < DeviceLen
  <2>1. ASSUME len >= DeviceLen PROVE FALSE
    <3>1. backup = <<>> BY <2>1 DEF Got, backup
    <3>2. Len(backup) = 0 BY <3>1
    <3> QED BY <1>1, <1>3, <1>4, <3>2 DEF Min2
  <2> QED BY <1>1, <2>1
<1>6. /\ backup = [i \in 1 .. Min2(len, DeviceLen - len) |-> units[len + i - 1]]
      /\ Len(backup) = Min2(len, DeviceLen - len)
  BY <1>1, <1>3, <1>5, GotUnits DEF backup
<1>7. 2 * len <= DeviceLen BY <1>1, <1>3, <1>4, <1>5, <1>6 DEF Min2
<1>8. ASSUME NEW x \in 0 .. len - 1 PROVE units[x] = units[len + x]
  <2>1. Min2(len, DeviceLen) = len /\ Min2(len, DeviceLen - len) = len
    BY <1>1, <1>5, <1>7 DEF Min2
  <2>2. x + 1 \in 1 .. len BY <1>1
  <2>3. main[x + 1] = units[x] BY <1>1, <1>4, <2>1, <2>2
  <2>4. backup[x + 1] = units[len + x] BY <1>1, <1>6, <2>1, <2>2
  <2> QED BY <1>3, <2>3, <2>4
<1> QED BY <1>2, <1>7, <1>8 DEF len

\* The checksum of the main region is one that a formatter wrote, and what it was computed
\* from is there.
LEMMA RegionTraced ==
    ASSUME UnitsInv, NEW s \in Nat \ {0}, geo.sector = s, SectorAt(geo, 0) = 0,
           SumFindings(geo, 0) = {}, 2 * (BootRegionSectors * s) <= DeviceLen
    PROVE  LET len == BootChecksumSector * s
           IN  \E f \in Formats :
                   /\ f.boot.bytes_per_sector = s
                   /\ \A x \in 0 .. len - 1 : Summed(units[x]) = Summed(BootArea(f.boot)[x + 1])
                   /\ \A x \in len .. len + s - 1 : units[x] = SumOf(f)
<1> DEFINE len == BootChecksumSector * s
           covered == Got(0, len)
           sums == Got(len, s)
<1>1. /\ len \in Nat \ {0} /\ DeviceLen \in Nat \ {0} /\ len + s <= DeviceLen
      /\ BootChecksumSector \in Nat \ {0}
  <2>1. ExtCount \in Nat /\ DeviceLen \in Nat \ {0} BY ExfatVolumeAssumption
  <2>2. /\ BootChecksumSector \in Nat \ {0}
        /\ BootRegionSectors = BootChecksumSector + 1
    BY <2>1 DEF BootRegionSectors, BootChecksumSector
  <2>3. len \in Nat \ {0} BY <2>2
  <2>4. BootRegionSectors * s = len + s BY <2>2
  <2> QED BY <2>1, <2>2, <2>3, <2>4
<1>2. SectorAt(geo, 0 + BootChecksumSector) = len BY <1>1 DEF SectorAt
<1>3. /\ covered # Unread /\ sums # Unread
      /\ sums[1] = [sum |-> Sum(covered)]
      /\ \A i \in DOMAIN sums : sums[i] = sums[1]
  <2> DEFINE missing == sums = <<>> \/ sums[1] # [sum |-> Sum(covered)]
             other == \E i \in DOMAIN sums : sums[i] # sums[1]
  <2>1. /\ Unread \notin {covered, sums}
        /\ If(missing, "boot_checksum") = {} /\ If(other, "repetitions") = {}
    BY <1>2, Zenon DEF SumFindings
  <2>2. ~ missing /\ ~ other BY <2>1 DEF If
  <2> QED BY <2>1, <2>2
<1> HIDE DEF len, covered, sums
<1>4. covered = [i \in 1 .. len |-> units[i - 1]]
  <2>1. covered = [i \in 1 .. Min2(len, DeviceLen - 0) |-> units[0 + i - 1]]
    BY <1>1, <1>3, GotUnits DEF covered
  <2>2. Min2(len, DeviceLen - 0) = len BY <1>1 DEF Min2
  <2> QED BY <1>1, <2>1, <2>2
<1>5. sums = [i \in 1 .. s |-> units[len + i - 1]]
  <2>1. sums = [i \in 1 .. Min2(s, DeviceLen - len) |-> units[len + i - 1]]
    BY <1>1, <1>3, GotUnits DEF sums
  <2>2. Min2(s, DeviceLen - len) = s BY <1>1 DEF Min2
  <2> QED BY <2>1, <2>2
<1>6. sums[1] = units[len] BY <1>1, <1>5
<1>7. PICK f \in Formats : sums[1] = SumOf(f)
  <2>1. len \in Device BY <1>1 DEF Device
  <2>2. "sum" \in DOMAIN sums[1] BY <1>3
  <2> QED BY <1>6, <2>1, <2>2 DEF UnitsInv, Sound
<1> DEFINE area == BootArea(f.boot)
           t == f.boot.bytes_per_sector
<1>8. Sum(covered) = Sum(area) BY <1>3, <1>7 DEF SumOf
<1>9. t \in Nat BY ExfatVolumeAssumption
<1>10. DOMAIN covered = 1 .. len BY <1>4
<1>11. DOMAIN area = 1 .. BootChecksumSector * t BY DEF BootArea
<1> HIDE DEF area
<1>12. DOMAIN covered = DOMAIN area BY <1>8 DEF Sum
<1>13. len = BootChecksumSector * t
  <2> DEFINE m == BootChecksumSector * t
  <2>1. m \in Nat BY <1>1, <1>9
  <2>2. 1 .. len = 1 .. m BY <1>10, <1>11, <1>12
  <2> HIDE DEF m
  <2>3. len \in 1 .. m
    <3>1. len \in 1 .. len BY <1>1
    <3> QED BY <2>2, <3>1, Zenon
  <2>4. m \in 1 .. len BY <1>1, <2>1, <2>2, <2>3
  <2>5. len = m BY <1>1, <2>1, <2>3, <2>4
  <2> QED BY <2>5 DEF m
<1>14. t = s BY <1>1, <1>9, <1>13 DEF len
<1>15. ASSUME NEW x \in 0 .. len - 1 PROVE Summed(units[x]) = Summed(area[x + 1])
  <2>1. x + 1 \in DOMAIN covered BY <1>1, <1>10
  <2>2. Sum(covered)[x + 1] = Summed(covered[x + 1]) BY <2>1 DEF Sum
  <2>3. Sum(area)[x + 1] = Summed(area[x + 1]) BY <1>12, <2>1 DEF Sum
  <2>4. covered[x + 1] = units[x] BY <1>1, <1>4, <1>10, <2>1
  <2> QED BY <1>8, <2>2, <2>3, <2>4
<1>16. ASSUME NEW x \in len .. len + s - 1 PROVE units[x] = SumOf(f)
  <2>1. x - len + 1 \in 1 .. s BY <1>1
  <2>2. sums[x - len + 1] = units[x] BY <1>1, <1>5, <2>1
  <2> QED BY <1>3, <1>5, <1>7, <2>1, <2>2
<1> QED BY <1>14, <1>15, <1>16 DEF len, area

LEMMA InvQuiet == Inv => QuietIsOneRegion
<1> SUFFICES ASSUME Inv, calm, stage[1] \notin {"closed", "probed", "region", "diff"}, Quiet
             PROVE  \E f \in Formats :
                        /\ \A piece \in Boots(f) : Intact(f, piece)
                        /\ LET len == SectorAt(FromBoot(f.boot), BootRegionSectors)
                           IN  \A x \in 0 .. len - 1 : units[x] = units[len + x]
  BY DEF QuietIsOneRegion, Quiet
<1> DEFINE s == geo.sector
           len == BootChecksumSector * s
           all == BootRegionSectors * s
<1>1. /\ geo = FromBoot(BootOf(UnitAt(0))) /\ GeometryFindings(BootOf(UnitAt(0))) = {}
      /\ SumFindings(geo, 0) = {} /\ DiffFindings(geo) = {} /\ UnitsInv
  BY DEF Inv, ReadInv, PastBoot, PastMain, PastBoth
<1>2. s \in SectorSizes /\ s \in Nat \ {0} /\ SectorAt(geo, 0) = 0 BY <1>1, SectorRead
<1>3. 2 * all <= DeviceLen /\ \A x \in 0 .. all - 1 : units[x] = units[all + x]
  BY <1>1, <1>2, RegionsAgree
<1>4. PICK f \in Formats :
          /\ f.boot.bytes_per_sector = s
          /\ \A x \in 0 .. len - 1 : Summed(units[x]) = Summed(BootArea(f.boot)[x + 1])
          /\ \A x \in len .. len + s - 1 : units[x] = SumOf(f)
  BY <1>1, <1>2, <1>3, RegionTraced
<1> DEFINE g == FromBoot(f.boot)
           b == f.boot
<1>5. g.sector = s BY <1>2, <1>4 DEF FromBoot
<1>6. /\ len \in Nat /\ all = len + s /\ BootChecksumSector \in Nat
      /\ BackupBootSector \in Nat /\ BootRegionSectors \in Nat
  <2>1. ExtCount \in Nat BY ExfatVolumeAssumption
  <2>2. /\ BootChecksumSector \in Nat /\ BootRegionSectors = BootChecksumSector + 1
        /\ BackupBootSector = BootRegionSectors
    BY <2>1 DEF BootRegionSectors, BootChecksumSector, BackupBootSector
  <2> HIDE DEF s
  <2>3. (BootChecksumSector + 1) * s = BootChecksumSector * s + s BY <1>2, <2>2
  <2>4. len \in Nat BY <1>2, <2>2
  <2> QED BY <2>2, <2>3, <2>4
<1>7. /\ SectorAt(g, BootRegionSectors) = all /\ SectorAt(g, BackupBootSector) = all
      /\ SectorAt(g, 0) = 0 /\ SectorAt(g, 0 + BootChecksumSector) = len
      /\ SectorAt(g, BackupBootSector + BootChecksumSector) = all + len
  <2>1. BackupBootSector = BootRegionSectors BY DEF BackupBootSector
  <2>2. (BootRegionSectors + BootChecksumSector) * s
          = BootRegionSectors * s + BootChecksumSector * s
    BY <1>2, <1>6
  <2> QED BY <1>2, <1>5, <1>6, <2>1, <2>2 DEF SectorAt
<1>8. ASSUME NEW from \in {0, all}, NEW y \in 0 .. all - 1 PROVE units[from + y] = units[y]
  <2>1. y \in Int /\ 0 + y = y BY <1>2, <1>6
  <2> QED BY <1>3, <1>8, <2>1
<1>9. /\ BootArea(b) \in Seq({[boot |-> b], Signature, Zero}) /\ Len(BootArea(b)) = len
      /\ SumSector(b) \in Seq({SumOf(f)}) /\ Len(SumSector(b)) = s
  BY <1>2, <1>4, AreaType DEF SumOf
<1> HIDE DEF s, len, all, g
<1>10. ASSUME NEW piece \in Boots(f) PROVE Intact(f, piece)
  <2> DEFINE from == SectorAt(g, piece[2])
             written == Written[f][piece]
  <2>1. /\ piece[1] \in {"region", "sum"} /\ from \in {0, all}
        /\ piece[2] \in {0, BackupBootSector} /\ piece \in Pieces(f)
    BY <1>7 DEF Boots, Pieces
  <2>2. written = Piece(f, piece) BY <2>1 DEF Written
  <2>3. from \in Nat BY <1>2, <1>6, <2>1
  <2> SUFFICES ASSUME NEW x \in DOMAIN written PROVE Summed(units[x]) = Summed(written[x])
    BY DEF Intact
  <2>4. CASE piece[1] = "region"
    <3>1. written = At(from, BootArea(b)) BY <2>2, <2>4 DEF Piece, g
    <3> HIDE DEF from, written
    <3>2. x \in from .. from + len - 1 /\ written[x] = BootArea(b)[x - from + 1]
      BY <1>9, <3>1 DEF At
    <3>3. x - from \in 0 .. len - 1 /\ x - from \in 0 .. all - 1 /\ from + (x - from) = x
      BY <1>2, <1>6, <2>3, <3>2
    <3>4. units[x] = units[x - from] BY <1>8, <2>1, <3>3 DEF from
    <3> QED BY <1>4, <3>2, <3>3, <3>4
  <2>5. CASE piece[1] = "sum"
    <3> DEFINE at == SectorAt(g, piece[2] + BootChecksumSector)
    <3>1. written = At(at, SumSector(b)) BY <2>2, <2>5 DEF Piece, g
    <3>2. at = from + len BY <1>6, <1>7, <2>1
    <3> HIDE DEF from, at, written
    <3>3. at \in Int BY <1>6, <2>3, <3>2
    <3>4. x \in at .. at + s - 1 BY <1>9, <3>1 DEF At
    <3>5. written[x] = SumOf(f) BY <1>9, <3>1, <3>3, AtHolds
    <3>6. x - from \in len .. len + s - 1 /\ x - from \in 0 .. all - 1 /\ from + (x - from) = x
      BY <1>2, <1>6, <2>3, <3>2, <3>4
    <3>7. units[x] = units[x - from] BY <1>8, <2>1, <3>6 DEF from
    <3> QED BY <1>4, <3>5, <3>6, <3>7
  <2> QED BY <2>1, <2>4, <2>5
<1> QED BY <1>3, <1>7, <1>10 DEF g

\* In every run, a unit that holds a checksum holds that of a region a formatter wrote, and
\* what the reader has said of the boot regions is true of the device while nobody writes
\* (boot_checksum_node, ExfatReader::root).
THEOREM RegionsCorrect == Spec => []Inv
BY InvInit, InvNext, PTL DEF Spec

\* Silence about the boot regions means that one formatter wrote both, but for the fields
\* that a mount changes, and that they agree: for every set of volumes, every device and
\* any damage (boot_checksum_node, backup_diff).
THEOREM AlwaysOneRegion == Spec => []QuietIsOneRegion
BY RegionsCorrect, InvQuiet, PTL

---------------------------------------------------------------------------
(* Where the tables and the clusters of a volume lie.                      *)

Geo(f) == FromBoot(f.boot)

LEMMA FormatBoot ==
    ASSUME NEW f \in Formats
    PROVE  /\ f.boot \in Boot /\ Geo(f).trusted /\ SelfConsistent(Geo(f))
           /\ f.boot.volume_flags \subseteq {"ActiveFat"}
           /\ "ActiveFat" \in f.boot.volume_flags => f.boot.number_of_fats = 2
           /\ Geo(f).fat_length * Geo(f).sector * TableEntries >= Geo(f).count + 2
           /\ f.bitmap \in Seq(Clusters(f))
           /\ \A i, j \in DOMAIN f.bitmap : f.bitmap[i] = f.bitmap[j] => i = j
           /\ Len(f.bitmap) = CeilDiv(CeilDiv(Geo(f).count, BitsPerUnit), Geo(f).cluster)
           /\ f.upcase \in Clusters(f) \ ({Geo(f).root} \union ToSet(f.bitmap))
           /\ Geo(f).root \notin ToSet(f.bitmap)
BY FormattersAssumption DEF Geo

\* The geometry that follows from the boot sector of a formatter.
LEMMA FormatGeo ==
    ASSUME NEW f \in Formats
    PROVE  LET g == Geo(f)
           IN  /\ g.sector \in Nat \ {0} /\ g.per \in Nat \ {0}
               /\ g.cluster = g.sector * g.per /\ g.cluster \in Nat \ {0}
               /\ g.fats \in 1 .. 2 /\ g.active \in 0 .. 1 /\ g.active < g.fats
               /\ g.fat_length \in Nat \ {0} /\ g.fat_offset \in Nat /\ g.heap \in Nat
               /\ g.volume \in Nat /\ g.count \in Nat \ {0} /\ g.count + 1 < Garbage
               /\ g.root = f.boot.first_cluster_of_root /\ g.root \in Clusters(f)
               /\ g.count = f.boot.cluster_count
<1> DEFINE b == f.boot
           g == Geo(f)
<1>1. /\ b.bytes_per_sector \in Nat /\ b.sectors_per_cluster \in Nat
      /\ b.volume_length \in Nat /\ b.fat_offset \in Nat /\ b.fat_length \in Nat
      /\ b.number_of_fats \in Nat /\ b.cluster_heap_offset \in Nat
      /\ b.cluster_count \in Nat /\ b.first_cluster_of_root \in Nat
  BY FormatBoot DEF Boot
<1>2. /\ g.volume = b.volume_length /\ g.fat_offset = b.fat_offset
      /\ g.fat_length = b.fat_length /\ g.fats = b.number_of_fats
      /\ g.heap = b.cluster_heap_offset /\ g.count = b.cluster_count
      /\ g.root = b.first_cluster_of_root
      /\ g.active = IF "ActiveFat" \in b.volume_flags THEN 1 ELSE 0
  BY DEF Geo, FromBoot
<1>3. /\ b.bytes_per_sector \in SectorSizes /\ g.sector = b.bytes_per_sector
      /\ b.sectors_per_cluster \in 1 .. MaxClusterSize /\ g.per = b.sectors_per_cluster
      /\ g.cluster = g.sector * g.per
  <2>1. g.trusted BY FormatBoot
  <2>2. /\ b.bytes_per_sector \in SectorSizes
        /\ b.sectors_per_cluster \in 1 .. MaxClusterSize
        /\ b.bytes_per_sector * b.sectors_per_cluster <= MaxClusterSize
    BY <2>1 DEF Geo, FromBoot
  <2> QED BY <2>2 DEF Geo, FromBoot
<1>4. g.sector \in Nat \ {0} /\ g.per \in Nat \ {0}
  BY <1>1, <1>3, ExfatVolumeAssumption
<1>5. g.cluster \in Nat \ {0} BY <1>3, <1>4
<1>6. /\ g.fats \in 1 .. 2 /\ g.fat_length > 0 /\ g.count \in 1 .. MaxClusterCount
      /\ g.root \in 2 .. g.count + 1
  BY FormatBoot DEF SelfConsistent, ClusterInHeap
<1>7. g.active \in 0 .. 1 /\ g.active < g.fats
  BY <1>2, <1>6, FormatBoot
<1>8. g.count \in Nat \ {0} /\ g.count + 1 < Garbage
  <2>1. MaxClusterCount \in Nat /\ MaxClusterCount + 1 < Garbage
    BY ExfatVolumeAssumption, FormattersAssumption
  <2> QED BY <1>6, <2>1 DEF Garbage
<1> HIDE DEF g
<1> QED BY <1>1, <1>2, <1>3, <1>4, <1>5, <1>6, <1>7, <1>8 DEF Clusters, g

\* The entries of a table lie on the device.
LEMMA EntryPlace ==
    ASSUME NEW f \in Formats, NEW n \in 0 .. 1, n < Geo(f).fats, NEW c \in 0 .. Geo(f).count + 1
    PROVE  /\ EntryAt(Geo(f), n, c) = FatAt(Geo(f), n) + c \div TableEntries
           /\ FatAt(Geo(f), n) \in Nat /\ EntryAt(Geo(f), n, c) \in Nat
           /\ EntryAt(Geo(f), n, c) < DeviceLen
<1> DEFINE g == Geo(f)
           q == c \div TableEntries
           start == n * g.fat_length + g.fat_offset
           end == g.fats * g.fat_length + g.fat_offset
<1>1. /\ g.sector \in Nat \ {0} /\ g.fats \in 1 .. 2 /\ g.fat_length \in Nat \ {0}
      /\ g.fat_offset \in Nat /\ g.heap \in Nat /\ g.volume \in Nat /\ g.count \in Nat
      /\ g.per \in Nat
  BY FormatGeo
<1>2. /\ g.heap >= g.fat_length * g.fats + g.fat_offset
      /\ g.count * g.per + g.heap <= g.volume /\ g.volume * g.sector <= DeviceLen
      /\ g.fat_length * g.sector * TableEntries >= g.count + 2
  BY FormatBoot DEF SelfConsistent, SectorAt
<1>3. TableEntries \in Nat \ {0} /\ DeviceLen \in Nat BY ExfatVolumeAssumption
<1>4. FatAt(g, n) = start * g.sector BY DEF FatAt, SectorAt
<1>5. EntryAt(g, n, c) = start * g.sector + q BY <1>4 DEF EntryAt
<1> HIDE DEF g
<1>6. n \in Nat /\ n + 1 <= g.fats /\ c \in Nat /\ c < g.count + 2 BY <1>1 DEF g
<1>7. start \in Nat /\ end \in Nat /\ start + g.fat_length <= end /\ end <= g.volume
  <2>1. n * g.fat_length \in Nat /\ g.fats * g.fat_length \in Nat /\ g.count * g.per \in Nat
    BY <1>1, <1>6, MulNat
  <2>2. n * g.fat_length + g.fat_length <= g.fats * g.fat_length
    <3>1. n + 1 \in Nat /\ g.fats \in Nat /\ g.fat_length \in Nat BY <1>1, <1>6
    <3>2. (n + 1) * g.fat_length <= g.fats * g.fat_length BY <1>6, <3>1, Products
    <3>3. (n + 1) * g.fat_length = n * g.fat_length + g.fat_length BY <1>6, <3>1
    <3> QED BY <3>2, <3>3
  <2>3. g.fat_length * g.fats = g.fats * g.fat_length BY <1>1
  <2>4. g.fats * g.fat_length + g.fat_offset <= g.volume
    BY <1>1, <1>2, <2>1, <2>3
  <2> DEFINE before == n * g.fat_length
             all == g.fats * g.fat_length
  <2>5. /\ before \in Nat /\ all \in Nat /\ before + g.fat_length <= all
        /\ all + g.fat_offset <= g.volume
    BY <2>1, <2>2, <2>4
  <2> HIDE DEF before, all
  <2>6. /\ before + g.fat_offset \in Nat /\ all + g.fat_offset \in Nat
        /\ before + g.fat_offset + g.fat_length <= all + g.fat_offset
    BY <1>1, <2>5
  <2> QED BY <2>5, <2>6 DEF before, all
<1>8. q \in Nat /\ q < g.fat_length * g.sector
  <2> DEFINE room == g.fat_length * g.sector
  <2>1. room \in Nat BY <1>1, MulNat
  <2>2. c < room * TableEntries BY <1>1, <1>2, <1>3, <1>6, <2>1
  <2> HIDE DEF room
  <2>3. q \in Nat BY <1>3, <1>6
  <2>4. q < room BY <1>3, <1>6, <2>1, <2>2
  <2> QED BY <2>3, <2>4 DEF room
<1> HIDE DEF q, start, end
<1>9. start * g.sector + g.fat_length * g.sector <= g.volume * g.sector
  <2>1. start + g.fat_length <= g.volume /\ start + g.fat_length \in Nat BY <1>1, <1>7
  <2>2. (start + g.fat_length) * g.sector <= g.volume * g.sector
    BY <1>1, <2>1, Products
  <2>3. (start + g.fat_length) * g.sector = start * g.sector + g.fat_length * g.sector
    BY <1>1, <1>7
  <2> QED BY <2>2, <2>3
<1>10. start * g.sector \in Nat /\ g.fat_length * g.sector \in Nat /\ g.volume * g.sector \in Nat
  BY <1>1, <1>7, MulNat
<1>11. start * g.sector + q \in Nat /\ start * g.sector + q < DeviceLen
  BY <1>2, <1>3, <1>8, <1>9, <1>10
<1> QED BY <1>4, <1>5, <1>10, <1>11 DEF g, q

\* So do the clusters.
LEMMA ClusterPlace ==
    ASSUME NEW f \in Formats, NEW c \in Clusters(f)
    PROVE  /\ ClusterAt(Geo(f), c) \in Nat
           /\ ClusterAt(Geo(f), c) + Geo(f).cluster <= DeviceLen
           /\ ClusterInHeap(Geo(f), c) /\ c \in Nat /\ c # 0 /\ c \in 0 .. Geo(f).count + 1
<1> DEFINE g == Geo(f)
<1>1. /\ g.sector \in Nat \ {0} /\ g.heap \in Nat /\ g.volume \in Nat /\ g.count \in Nat \ {0}
      /\ g.per \in Nat /\ g.cluster = g.sector * g.per /\ g.count = f.boot.cluster_count
  BY FormatGeo
<1>2. g.count * g.per + g.heap <= g.volume /\ g.volume * g.sector <= DeviceLen
  BY FormatBoot DEF SelfConsistent, SectorAt
<1>3. c \in 2 .. g.count + 1 BY <1>1 DEF Clusters
<1>4. ClusterAt(g, c) = (c - 2) * g.cluster + g.heap * g.sector BY DEF ClusterAt, SectorAt
<1> HIDE DEF g
<1>5. PICK k \in Nat : c = k + 2 /\ k + 1 <= g.count
  <2>1. c - 2 \in Nat /\ c = (c - 2) + 2 /\ (c - 2) + 1 <= g.count BY <1>1, <1>3
  <2> QED BY <2>1
<1>6. c - 2 = k BY <1>5
<1>7. k * g.cluster \in Nat /\ g.heap * g.sector \in Nat /\ g.cluster \in Nat
      /\ g.volume * g.sector \in Nat
  BY <1>1, MulNat
<1>8. k * g.cluster + g.cluster + g.heap * g.sector <= g.volume * g.sector
  <2>1. (k + 1) * g.per <= g.count * g.per /\ (k + 1) * g.per \in Nat /\ g.count * g.per \in Nat
    <3>1. k + 1 \in Nat /\ k + 1 <= g.count /\ g.count \in Nat /\ g.per \in Nat BY <1>1, <1>5
    <3> QED BY ONLY <3>1, Products
  <2>2. (k + 1) * g.per + g.heap <= g.volume /\ (k + 1) * g.per + g.heap \in Nat
    BY <1>1, <1>2, <2>1
  <2>3. ((k + 1) * g.per + g.heap) * g.sector <= g.volume * g.sector
    BY <1>1, <2>2, Products
  <2>4. ((k + 1) * g.per + g.heap) * g.sector
          = ((k + 1) * g.per) * g.sector + g.heap * g.sector
    BY <1>1, <2>1
  <2>5. ((k + 1) * g.per) * g.sector = (k + 1) * g.cluster
    <3>1. ASSUME NEW n \in Nat PROVE (n * g.per) * g.sector = n * g.cluster
      <4>1. (n * g.per) * g.sector = n * (g.sector * g.per) BY <1>1
      <4> QED BY <1>1, <4>1, Zenon
    <3>2. k + 1 \in Nat BY <1>5
    <3> QED BY <3>1, <3>2, Zenon
  <2>6. (k + 1) * g.cluster = k * g.cluster + g.cluster
    <3>1. \A m, n \in Nat : (m + 1) * n = m * n + n OBVIOUS
    <3>2. g.cluster \in Nat BY <1>7, Zenon
    <3> QED BY <3>1, <3>2, Zenon
  <2> QED BY <2>3, <2>4, <2>5, <2>6
<1>9. DeviceLen \in Nat BY ExfatVolumeAssumption
<1>10. /\ ClusterAt(g, c) \in Nat /\ ClusterAt(g, c) + g.cluster <= DeviceLen
  BY <1>2, <1>4, <1>6, <1>7, <1>8, <1>9
<1> QED BY <1>1, <1>3, <1>10 DEF ClusterInHeap, g

---------------------------------------------------------------------------
(* A chain that stands in the table is walked to where it ends, or cannot  *)
(* be read, or is longer than the limit.                                   *)

Span(at, n) == [i \in 1 .. n |-> units[at + i - 1]]

\* A read within the device gives its units, unless it is refused.
LEMMA ReadUnits ==
    ASSUME UnitsInv, NEW at \in Nat, NEW n \in Nat \ {0}, at + n <= DeviceLen
    PROVE  /\ Got(at, n) # <<>>
           /\ refused = {} => Got(at, n) # Unread
           /\ Got(at, n) # Unread => /\ Got(at, n) = Span(at, n)
                                     /\ Len(Got(at, n)) = n /\ DOMAIN Got(at, n) = 1 .. n
                                     /\ \A i \in 1 .. n : Got(at, n)[i] = units[at + i - 1]
<1>1. DeviceLen \in Nat /\ at < DeviceLen /\ Min2(n, DeviceLen - at) = n
  BY ExfatVolumeAssumption DEF Min2
<1> DEFINE there == [i \in 1 .. n |-> units[at + i - 1]]
<1>2. Got(at, n) = IF \E x \in refused : at <= x /\ x < at + n THEN Unread ELSE there
  BY <1>1 DEF Got
<1>3. Unread # <<>> BY DEF Unread
<1>4. there # Unread
  <2>1. units[at] # [unread |-> TRUE]
    <3>1. at \in Device BY <1>1 DEF Device
    <3>2. "unread" \notin DOMAIN units[at] BY <3>1 DEF UnitsInv, Sound
    <3> QED BY <3>2
  <2>2. there[1] = units[at]
    <3>1. 1 \in 1 .. n /\ at + 1 - 1 = at OBVIOUS
    <3> QED BY <3>1
  <2> QED BY <2>1, <2>2 DEF Unread
<1>5. Len(there) = n /\ DOMAIN there = 1 .. n OBVIOUS
<1>6. there # <<>> BY <1>5
<1>7. \A i \in 1 .. n : there[i] = units[at + i - 1] OBVIOUS
<1>10. there = Span(at, n) BY DEF Span
<1> HIDE DEF there
<1>8. CASE \E x \in refused : at <= x /\ x < at + n
  <2>1. Got(at, n) = Unread BY <1>2, <1>8
  <2> QED BY <1>3, <1>8, <2>1
<1>9. CASE ~ \E x \in refused : at <= x /\ x < at + n
  <2>1. Got(at, n) = there BY <1>2, <1>9
  <2> QED BY <1>4, <1>5, <1>6, <1>7, <1>10, <2>1
<1> QED BY <1>8, <1>9

\* The table in force, and the entry of a cluster in it.
LEMMA EntryRead ==
    ASSUME UnitsInv, NEW f \in Formats, NEW c \in Clusters(f)
    PROVE  LET g == Geo(f)
               unit == Got(EntryAt(g, Min2(g.active, 1), c), 1)
           IN  /\ unit # <<>> /\ (refused = {} => unit # Unread)
               /\ unit # Unread => EntryIn(unit[1], c) = EntryOf(f, c)
<1> DEFINE g == Geo(f)
           n == Min2(g.active, 1)
           at == EntryAt(g, n, c)
<1>1. g.active \in 0 .. 1 /\ g.active < g.fats BY FormatGeo
<1>2. n = g.active BY <1>1 DEF Min2
<1>3. c \in 0 .. g.count + 1 BY ClusterPlace
<1>4. at \in Nat /\ at < DeviceLen BY <1>1, <1>2, <1>3, EntryPlace
<1>5. EntryOf(f, c) = EntryIn(units[at], c) BY DEF EntryOf, Geo
<1> HIDE DEF at
<1>6. at + 1 <= DeviceLen /\ at + 1 - 1 = at /\ 1 \in 1 .. 1
  BY <1>4, ExfatVolumeAssumption
<1>7. /\ Got(at, 1) # <<>> /\ (refused = {} => Got(at, 1) # Unread)
      /\ Got(at, 1) # Unread => Got(at, 1)[1] = units[at]
  BY <1>4, <1>6, ReadUnits
<1> QED BY <1>5, <1>7 DEF at

\* The table chains the clusters s, and no others.
ChainStands(f, s) ==
    /\ s \in Seq(Clusters(f)) /\ s # <<>>
    /\ \A i, j \in 1 .. Len(s) : s[i] = s[j] => i = j
    /\ \A i \in 1 .. Len(s) - 1 : EntryOf(f, s[i]) = s[i + 1]
    /\ EntryOf(f, s[Len(s)]) = Eoc

\* A walk after k turns.
Walked(f, s, k, w) ==
    /\ Len(w.seen) \in 1 .. Len(s) /\ Len(w.seen) <= MaxChain
    /\ \A i \in 1 .. Len(w.seen) : w.seen[i] = s[i]
    /\ w.end = "none" => Len(w.seen) = k + 1
    /\ w.end = "eoc" => Len(w.seen) = Len(s)
    /\ w.end = "limit" => Len(w.seen) = MaxChain /\ Len(w.seen) < Len(s)
    /\ w.end = "unreadable" => refused # {}
Walks(f) == [seen : Seq(Clusters(f)), end : {"none", "eoc", "unreadable", "limit"}]

LEMMA TurnWalks ==
    ASSUME UnitsInv, NEW f \in Formats, NEW s, ChainStands(f, s), NEW k \in Nat,
           NEW w \in Walks(f), Walked(f, s, k, w)
    PROVE  /\ ChainTurn(Geo(f), w) \in Walks(f)
           /\ Walked(f, s, k + 1, ChainTurn(Geo(f), w))
<1> DEFINE g == Geo(f)
           m == Len(w.seen)
           c == Last(w.seen)
           unit == Got(EntryAt(g, Min2(g.active, 1), c), 1)
           v == EntryIn(unit[1], c)
           turn == ChainTurn(g, w)
           Ended(end) == [w EXCEPT !.end = end]
<1>1. /\ m \in 1 .. Len(s) /\ m \in Nat /\ m <= MaxChain /\ Len(s) \in Nat
      /\ \A i \in 1 .. m : w.seen[i] = s[i]
      /\ w.seen \in Seq(Clusters(f)) /\ w = [seen |-> w.seen, end |-> w.end]
  BY DEF Walked, Walks, ChainStands
<1>2. c = s[m] /\ c \in Clusters(f)
  BY <1>1 DEF Last, ChainStands
<1>3. \A end \in {"eoc", "unreadable", "limit"} :
          Ended(end) \in Walks(f) /\ Ended(end).seen = w.seen /\ Ended(end).end = end
  <2> SUFFICES ASSUME NEW end \in {"eoc", "unreadable", "limit"}
               PROVE  Ended(end) \in Walks(f) /\ Ended(end).seen = w.seen /\ Ended(end).end = end
    OBVIOUS
  <2>1. end \in {"none", "eoc", "unreadable", "limit"} OBVIOUS
  <2>2. Ended(end) = [seen |-> w.seen, end |-> end] BY <1>1
  <2> QED BY <1>1, <2>1, <2>2 DEF Walks
<1> HIDE DEF Ended
<1>4. CASE w.end # "none"
  <2>1. turn = w BY <1>4 DEF ChainTurn
  <2> QED BY <1>4, <2>1 DEF Walked
<1>5. CASE w.end = "none"
  <2>1. m = k + 1 BY <1>5 DEF Walked
  <2>2. unit # <<>> /\ (refused = {} => unit # Unread) /\ (unit # Unread => v = EntryOf(f, c))
    BY <1>2, EntryRead
  <2>3. CASE unit = Unread
    <3>1. turn = Ended("unreadable") BY <1>5, <2>3 DEF ChainTurn, Ended
    <3>2. Walked(f, s, k + 1, Ended("unreadable")) BY <1>1, <1>3, <2>2, <2>3 DEF Walked
    <3> QED BY <1>3, <3>1, <3>2, Zenon
  <2>4. CASE unit # Unread /\ m = Len(s)
    <3>1. v = Eoc BY <1>2, <2>2, <2>4 DEF ChainStands
    <3>2. turn = Ended("eoc") BY <1>5, <2>2, <2>4, <3>1 DEF ChainTurn, Ended
    <3>3. Walked(f, s, k + 1, Ended("eoc")) BY <1>1, <1>3, <2>4 DEF Walked
    <3> QED BY <1>3, <3>2, <3>3
  <2>5. CASE unit # Unread /\ m # Len(s)
    <3>1. m \in 1 .. Len(s) - 1 /\ m + 1 \in 1 .. Len(s) BY <1>1, <2>5
    <3>2. v = s[m + 1] /\ v \in Clusters(f)
      BY <1>2, <2>2, <2>5, <3>1 DEF ChainStands
    <3>3. v # Eoc /\ v # Bad /\ v # 0 /\ ClusterInHeap(g, v)
      <4>1. /\ v \in Nat /\ v # 0 /\ ClusterInHeap(g, v) /\ v \in 0 .. g.count + 1
        BY <3>2, ClusterPlace
      <4>2. g.count \in Nat /\ g.count + 1 < Garbage BY FormatGeo
      <4> QED BY <4>1, <4>2 DEF Garbage, Eoc, Bad
    <3>4. CASE m >= MaxChain
      <4>1. turn = Ended("limit") BY <1>5, <2>2, <2>5, <3>3, <3>4 DEF ChainTurn, Ended
      <4>2. m = MaxChain BY <1>1, <3>4, ExfatVolumeAssumption
      <4>3. m < Len(s) BY <1>1, <2>5
      <4>4. Walked(f, s, k + 1, Ended("limit")) BY <1>1, <1>3, <4>2, <4>3 DEF Walked
      <4> QED BY <1>3, <4>1, <4>4
    <3>5. CASE ~ (m >= MaxChain)
      <4>1. ~ Contains(w.seen, v)
        <5>1. ASSUME NEW i \in 1 .. m, w.seen[i] = v PROVE FALSE
          <6>1. s[i] = s[m + 1] /\ i \in 1 .. Len(s) BY <1>1, <3>1, <3>2, <5>1
          <6>2. i = m + 1 BY <3>1, <6>1 DEF ChainStands
          <6> QED BY <1>1, <6>2
        <5> QED BY <5>1 DEF Contains
      <4>2. turn = [w EXCEPT !.seen = Append(w.seen, v)]
        BY <1>5, <2>2, <2>5, <3>3, <3>5, <4>1 DEF ChainTurn
      <4> DEFINE next == Append(w.seen, v)
      <4>3. /\ next \in Seq(Clusters(f)) /\ Len(next) = m + 1
            /\ \A i \in 1 .. m : next[i] = w.seen[i]
            /\ next[m + 1] = v
        BY <1>1, <3>2
      <4> HIDE DEF next
      <4>4. turn.seen = next /\ turn.end = "none" /\ turn \in Walks(f)
        BY <1>1, <1>5, <4>2, <4>3 DEF Walks, next
      <4>5. \A i \in 1 .. m + 1 : next[i] = s[i]
        BY <1>1, <3>2, <4>3
      <4>6. m + 1 <= MaxChain BY <1>1, <3>5, ExfatVolumeAssumption
      <4> HIDE DEF turn
      <4>7. Walked(f, s, k + 1, turn)
        BY <2>1, <3>1, <4>3, <4>4, <4>5, <4>6 DEF Walked
      <4> QED BY <4>4, <4>7 DEF turn
    <3> QED BY <3>4, <3>5
  <2> QED BY <2>3, <2>4, <2>5
<1> QED BY <1>4, <1>5

LEMMA ChainRead ==
    ASSUME UnitsInv, NEW f \in Formats, NEW s, ChainStands(f, s)
    PROVE  LET seen == ChainFrom(Geo(f), s[1]).seen
           IN  /\ seen \in Seq(Clusters(f)) /\ Len(seen) \in 1 .. Len(s)
               /\ \A i \in 1 .. Len(seen) : seen[i] = s[i]
               /\ refused = {} => Len(seen) = Len(s) \/ Len(seen) = MaxChain
               /\ refused = {} /\ Len(s) <= MaxChain =>
                     ChainFrom(Geo(f), s[1]).end = "eoc" /\ Len(seen) = Len(s)
<1> DEFINE g == Geo(f)
           base == [seen |-> <<s[1]>>, end |-> "none"]
           step == [k \in 1 .. MaxChain |-> [w \in Walks(f) |-> ChainTurn(g, w)]]
           Loop(h) == h = [i \in 0 .. MaxChain |->
                              IF i = 0 THEN base ELSE ChainTurn(g, h[i - 1])]
           walk == CHOOSE h : Loop(h)
           Good == [k \in 0 .. MaxChain |-> {w \in Walks(f) : Walked(f, s, k, w)}]
<1>1. /\ MaxChain \in Nat /\ 1 <= MaxChain /\ s[1] \in Clusters(f) /\ Len(s) \in Nat \ {0}
  BY ExfatVolumeAssumption DEF ChainStands
<1>2. ClusterInHeap(g, s[1]) /\ s[1] # 0 BY <1>1, ClusterPlace
<1>3. base \in Good[0]
  <2> DEFINE one == <<s[1]>>
  <2>1. one \in Seq(Clusters(f)) /\ Len(one) = 1 /\ one[1] = s[1] BY <1>1
  <2> HIDE DEF one
  <2>2. base \in Walks(f) /\ base.seen = one /\ base.end = "none" BY <2>1 DEF Walks, one
  <2> HIDE DEF base
  <2>3. \A i \in 1 .. 1 : one[i] = s[i] BY <2>1
  <2>4. Len(base.seen) = 1 /\ base.end = "none" /\ \A i \in 1 .. 1 : base.seen[i] = s[i]
    BY <2>1, <2>2, <2>3
  <2>5. 1 \in 1 .. Len(s) /\ 1 <= MaxChain BY <1>1
  <2>6. Walked(f, s, 0, base) BY ONLY <2>4, <2>5 DEF Walked
  <2> QED BY <1>1, <2>2, <2>6
<1>4. ASSUME NEW k \in 1 .. MaxChain, NEW w \in Good[k - 1] PROVE ChainTurn(g, w) \in Good[k]
  <2>1. k - 1 \in Nat /\ k - 1 \in 0 .. MaxChain /\ (k - 1) + 1 = k BY <1>1
  <2>2. w \in Walks(f) /\ Walked(f, s, k - 1, w) BY <2>1
  <2>3. ChainTurn(g, w) \in Walks(f) /\ Walked(f, s, k, ChainTurn(g, w))
    BY <2>1, <2>2, TurnWalks
  <2> QED BY <1>1, <2>3
<1>5. \A k \in 0 .. MaxChain : Good[k] \subseteq Walks(f) OBVIOUS
<1>6. ASSUME NEW k \in 1 .. MaxChain, NEW w \in Good[k - 1]
      PROVE  step[k][w] = ChainTurn(g, w)
  <2>1. k - 1 \in 0 .. MaxChain BY <1>1
  <2> QED BY <1>5, <2>1
<1> HIDE DEF base, step, Good
<1>7. \A k \in 1 .. MaxChain : \A w \in Good[k - 1] : step[k][w] \in Good[k]
  BY <1>4, <1>6
<1>8. PICK h : Runs(h, MaxChain, base, step) /\ \A k \in 0 .. MaxChain : h[k] \in Good[k]
  BY <1>1, <1>3, <1>7, LoopGood
<1>9. \A k \in 1 .. MaxChain : step[k][h[k - 1]] = ChainTurn(g, h[k - 1])
  <2> SUFFICES ASSUME NEW k \in 1 .. MaxChain PROVE step[k][h[k - 1]] = ChainTurn(g, h[k - 1])
    OBVIOUS
  <2>1. k - 1 \in 0 .. MaxChain BY <1>1
  <2> QED BY <1>6, <1>8, <2>1
<1>10. Loop(h)
  <2>1. \A k \in 0 .. MaxChain : k # 0 => k \in 1 .. MaxChain BY <1>1
  <2> QED BY <1>8, <1>9, <2>1 DEF Runs
<1>11. Loop(walk) BY <1>10
<1>12. ChainFrom(g, s[1]) = walk[MaxChain] BY <1>2 DEF ChainFrom, base
<1> HIDE DEF walk
<1>13. walk[0] = base /\ \A k \in 1 .. MaxChain : walk[k] = ChainTurn(g, walk[k - 1])
  BY <1>1, <1>11
<1>14. walk[MaxChain] \in Good[MaxChain]
  <2>1. walk[0] \in Good[0] BY <1>3, <1>13
  <2>2. \A k \in 1 .. MaxChain : walk[k - 1] \in Good[k - 1] => walk[k] \in Good[k]
    BY <1>4, <1>13
  <2> QED BY ONLY <1>1, <2>1, <2>2, LoopKeeps
<1>15. walk[MaxChain] \in Walks(f) /\ Walked(f, s, MaxChain, walk[MaxChain])
  BY <1>1, <1>14 DEF Good
<1> DEFINE w == walk[MaxChain]
<1> HIDE DEF w
<1>16. ChainFrom(g, s[1]) = w /\ w \in Walks(f) /\ Walked(f, s, MaxChain, w)
  BY <1>12, <1>15 DEF w
<1>17. w.seen \in Seq(Clusters(f)) /\ w.end \in {"none", "eoc", "unreadable", "limit"}
       /\ Len(w.seen) \in Nat
  BY <1>16 DEF Walks
<1>18. w.end # "none" BY <1>1, <1>16, <1>17 DEF Walked
<1>19. ASSUME refused = {}, Len(s) <= MaxChain PROVE w.end = "eoc" /\ Len(w.seen) = Len(s)
  <2>1. w.end # "limit" BY <1>1, <1>16, <1>17, <1>19 DEF Walked
  <2> QED BY <1>16, <1>17, <1>18, <1>19, <2>1 DEF Walked
<1> QED BY <1>16, <1>17, <1>18, <1>19 DEF Walked

---------------------------------------------------------------------------
(* The runs of a chain are its clusters, unit for unit.                    *)

\* The i-th unit of the clusters s.
UnitOf(g, s, i) == ClusterAt(g, s[((i - 1) \div g.cluster) + 1]) + ((i - 1) % g.cluster)

LEMMA UnitIs ==
    ASSUME NEW g, NEW s, NEW i, NEW q, NEW r, (i - 1) \div g.cluster = q, (i - 1) % g.cluster = r
    PROVE  UnitOf(g, s, i) = ClusterAt(g, s[q + 1]) + r
BY DEF UnitOf

LEMMA UnitPlace ==
    ASSUME NEW f \in Formats, NEW s \in Seq(Clusters(f)), NEW i \in 1 .. Len(s) * Geo(f).cluster
    PROVE  /\ UnitOf(Geo(f), s, i) \in Nat /\ UnitOf(Geo(f), s, i) < DeviceLen
           /\ (i - 1) \div Geo(f).cluster + 1 \in 1 .. Len(s)
<1> DEFINE g == Geo(f)
           p == g.cluster
           q == (i - 1) \div p
           r == (i - 1) % p
<1>1. p \in Nat \ {0} /\ Len(s) \in Nat /\ DeviceLen \in Nat
  BY FormatGeo, ExfatVolumeAssumption
<1> HIDE DEF p
<1>2. Len(s) * p \in Nat /\ i - 1 \in Nat /\ i - 1 < Len(s) * p
  <2>1. Len(s) * p \in Nat BY <1>1, MulNat
  <2> QED BY <2>1 DEF p
<1>3. q \in 0 .. Len(s) - 1 /\ r \in 0 .. p - 1
  <2> DEFINE j == i - 1
             n == Len(s)
  <2> HIDE DEF j, n
  <2>1. j \in Nat /\ n \in Nat /\ j < n * p BY <1>1, <1>2 DEF j, n
  <2>2. j \div p \in Nat /\ j \div p < n /\ j % p \in 0 .. p - 1 BY <1>1, <2>1
  <2> QED BY <1>1, <2>1, <2>2 DEF j, n
<1> HIDE DEF q, r
<1>4. s[q + 1] \in Clusters(f) /\ q + 1 \in 1 .. Len(s) BY <1>1, <1>3
<1>5. ClusterAt(g, s[q + 1]) \in Nat /\ ClusterAt(g, s[q + 1]) + p <= DeviceLen
  BY <1>4, ClusterPlace DEF p
<1>6. UnitOf(g, s, i) = ClusterAt(g, s[q + 1]) + r
  <2>1. (i - 1) \div g.cluster = q /\ (i - 1) % g.cluster = r BY Zenon DEF p, q, r
  <2> QED BY ONLY <2>1, UnitIs
<1>7. UnitOf(g, s, i) \in Nat /\ UnitOf(g, s, i) < DeviceLen BY <1>1, <1>3, <1>5, <1>6
<1> QED BY <1>4, <1>7 DEF p, q

\* The runs hold the first n units of the clusters; e says with which one each ends.
RunsOf == Seq([at : Nat, len : Nat])
Laid(f, s, runs, e, n) ==
    /\ e \in [0 .. Len(runs) -> Nat] /\ e[0] = 0 /\ e[Len(runs)] = n
    /\ \A j \in 1 .. Len(runs) :
          /\ e[j - 1] < e[j] /\ e[j] <= n /\ runs[j].len = e[j] - e[j - 1]
          /\ \A i \in e[j - 1] + 1 .. e[j] :
                UnitOf(Geo(f), s, i) = runs[j].at + (i - e[j - 1] - 1)
LaidOut(f, s, runs, n) == \E e : Laid(f, s, runs, e, n)

\* The units of one more cluster.
LEMMA UnitsAdded ==
    ASSUME NEW f \in Formats, NEW s \in Seq(Clusters(f)), NEW k \in 0 .. Len(s) - 1,
           NEW i \in k * Geo(f).cluster + 1 .. k * Geo(f).cluster + Geo(f).cluster
    PROVE  UnitOf(Geo(f), s, i) = ClusterAt(Geo(f), s[k + 1]) + (i - k * Geo(f).cluster - 1)
<1> DEFINE p == Geo(f).cluster
           r == i - k * p - 1
<1>1. p \in Nat \ {0} /\ k \in Nat BY FormatGeo
<1>2. k * p \in Nat BY <1>1, MulNat
<1>3. r \in 0 .. p - 1 /\ i - 1 = k * p + r
  <2> DEFINE m == k * p
  <2>1. i \in m + 1 .. m + p /\ m \in Nat BY <1>2
  <2> HIDE DEF m, p
  <2>2. i - m - 1 \in 0 .. p - 1 /\ i - 1 = m + (i - m - 1) BY <1>1, <2>1
  <2> QED BY <2>2 DEF m, p
<1> HIDE DEF p, r
<1>4. (k * p + r) \div p = k /\ (k * p + r) % p = r BY <1>1, <1>3, DivMod
<1>5. (i - 1) \div p = k /\ (i - 1) % p = r BY <1>3, <1>4, Zenon
<1>6. UnitOf(Geo(f), s, i) = ClusterAt(Geo(f), s[k + 1]) + r
  <2>1. (i - 1) \div Geo(f).cluster = k /\ (i - 1) % Geo(f).cluster = r BY <1>5, Zenon DEF p
  <2> QED BY ONLY <2>1, UnitIs
<1> QED BY <1>6, Zenon DEF p, r

LEMMA ClusterAdded ==
    ASSUME NEW f \in Formats, NEW s \in Seq(Clusters(f)), NEW k \in 0 .. Len(s) - 1,
           NEW runs \in RunsOf, LaidOut(f, s, runs, k * Geo(f).cluster)
    PROVE  /\ AddCluster(Geo(f), runs, s[k + 1]) \in RunsOf
           /\ LaidOut(f, s, AddCluster(Geo(f), runs, s[k + 1]), (k + 1) * Geo(f).cluster)
<1> DEFINE g == Geo(f)
           p == g.cluster
           n == k * p
           at == ClusterAt(g, s[k + 1])
           m == Len(runs)
           last == runs[m]
           more == AddCluster(g, runs, s[k + 1])
<1>1. PICK e : Laid(f, s, runs, e, n) BY DEF LaidOut
<1>2. /\ p \in Nat \ {0} /\ n \in Nat /\ (k + 1) * p = n + p /\ m \in Nat /\ at \in Nat
  <2>1. p \in Nat \ {0} /\ k \in Nat /\ Len(s) \in Nat BY FormatGeo
  <2>2. s[k + 1] \in Clusters(f) BY <2>1
  <2>3. at \in Nat BY <2>2, ClusterPlace
  <2>4. \A a, b \in Nat : (a + 1) * b = a * b + b OBVIOUS
  <2>5. (k + 1) * p = n + p BY <2>1, <2>4, Zenon
  <2>6. n \in Nat BY <2>1, MulNat
  <2>7. m \in Nat BY DEF RunsOf
  <2> QED BY <2>1, <2>3, <2>5, <2>6, <2>7
<1>3. \A i \in n + 1 .. n + p : UnitOf(g, s, i) = at + (i - n - 1)
  BY UnitsAdded
<1>4. /\ e \in [0 .. m -> Nat] /\ e[0] = 0 /\ e[m] = n
      /\ \A j \in 1 .. m :
            /\ e[j - 1] < e[j] /\ e[j] <= n /\ runs[j].len = e[j] - e[j - 1]
            /\ \A i \in e[j - 1] + 1 .. e[j] : UnitOf(g, s, i) = runs[j].at + (i - e[j - 1] - 1)
      /\ runs \in Seq([at : Nat, len : Nat])
  BY <1>1 DEF Laid, RunsOf
<1> HIDE DEF g, p, n, at, more, m
<1>5. CASE runs # <<>> /\ Follows(last, at)
  <2> DEFINE run == [at |-> last.at, len |-> last.len + p]
             d == [e EXCEPT ![m] = n + p]
  <2>1. more = [runs EXCEPT ![m] = run]
    BY <1>5 DEF more, AddCluster, at, m, p
  <2>2. m \in 1 .. m /\ m - 1 \in 0 .. m /\ m \in 0 .. m /\ m # 0
    <3>1. m # 0 BY <1>4, <1>5 DEF m
    <3> QED BY <1>2, <3>1
  <2>3. last \in [at : Nat, len : Nat]
    <3>1. m \in Nat \ {0} /\ m <= Len(runs) BY <1>2, <2>2 DEF m
    <3> QED BY ONLY <1>4, <3>1, Element
  <2>4. run \in [at : Nat, len : Nat] BY <1>2, <2>3
  <2>5. more \in Seq([at : Nat, len : Nat]) /\ Len(more) = m
        /\ more[m] = run /\ \A j \in 1 .. m : j # m => more[j] = runs[j]
    <3> HIDE DEF run
    <3> QED BY <1>4, <2>1, <2>2, <2>4 DEF m
  <2>6. /\ d \in [0 .. m -> Nat] /\ d[m] = n + p
        /\ \A j \in 0 .. m : j # m => d[j] = e[j]
    BY <1>2, <1>4, <2>2
  <2>7. /\ last.at + last.len = at /\ last.len = n - e[m - 1] /\ e[m - 1] < n
        /\ e[m - 1] \in Nat /\ run.at = last.at /\ run.len = last.len + p
        /\ last.at \in Nat
        /\ \A i \in e[m - 1] + 1 .. n : UnitOf(g, s, i) = last.at + (i - e[m - 1] - 1)
    BY <1>4, <1>5, <2>2, <2>3 DEF Follows
  <2> HIDE DEF d, run, last
  <2>8. ASSUME NEW j \in 1 .. m, j # m
        PROVE  /\ d[j - 1] < d[j] /\ d[j] <= n + p /\ more[j].len = d[j] - d[j - 1]
               /\ \A i \in d[j - 1] + 1 .. d[j] : UnitOf(g, s, i) = more[j].at + (i - d[j - 1] - 1)
    <3>1. j - 1 \in 0 .. m /\ j \in 0 .. m /\ j - 1 # m BY <1>2
    <3>2. d[j - 1] = e[j - 1] /\ d[j] = e[j] /\ more[j] = runs[j] BY <2>5, <2>6, <2>8, <3>1
    <3>3. d[j] <= n + p BY <1>2, <1>4, <3>1, <3>2
    <3> QED BY <1>4, <3>2, <3>3
  <2>9. /\ d[m - 1] < d[m] /\ more[m].len = d[m] - d[m - 1]
        /\ \A i \in d[m - 1] + 1 .. d[m] : UnitOf(g, s, i) = more[m].at + (i - d[m - 1] - 1)
    <3>1. d[m - 1] = e[m - 1] /\ d[m] = n + p BY <1>2, <2>2, <2>6
    <3> DEFINE from == e[m - 1]
    <3> HIDE DEF from
    <3>2. from \in Nat /\ from < n /\ d[m - 1] = from /\ last.len = n - from
          /\ \A i \in from + 1 .. n : UnitOf(g, s, i) = last.at + (i - from - 1)
      BY <2>7, <3>1 DEF from
    <3>3. ASSUME NEW i \in from + 1 .. n + p PROVE UnitOf(g, s, i) = last.at + (i - from - 1)
      <4>1. CASE i <= n
        <5>1. i \in from + 1 .. n BY <1>2, <3>2, <4>1
        <5> QED BY <3>2, <5>1
      <4>2. CASE ~ (i <= n)
        <5>1. i \in n + 1 .. n + p BY <1>2, <3>2, <4>2
        <5>2. UnitOf(g, s, i) = at + (i - n - 1) BY <1>3, <5>1
        <5>3. at = last.at + (n - from)
          <6>1. last.at + last.len = at BY <2>7, Zenon
          <6>2. last.len = n - from BY <3>2, Zenon
          <6> QED BY <6>1, <6>2, Zenon
        <5>4. last.at + (n - from) + (i - n - 1) = last.at + (i - from - 1)
          <6>1. last.at \in Nat BY <2>7, Zenon
          <6> QED BY <1>2, <3>2, <5>1, <6>1
        <5> QED BY <5>2, <5>3, <5>4, Zenon
      <4> QED BY <4>1, <4>2
    <3>4. more[m].at = last.at /\ more[m].len = last.len + p BY <2>5, <2>7
    <3> QED BY <1>2, <3>1, <3>2, <3>3, <3>4
  <2>10. d[0] = 0
    <3>1. 0 \in 0 .. m BY <1>2
    <3> QED BY <1>4, <2>2, <2>6, <3>1
  <2>11. Laid(f, s, more, d, n + p)
    <3>1. \A j \in 1 .. m :
             /\ d[j - 1] < d[j] /\ d[j] <= n + p /\ more[j].len = d[j] - d[j - 1]
             /\ \A i \in d[j - 1] + 1 .. d[j] : UnitOf(g, s, i) = more[j].at + (i - d[j - 1] - 1)
      <4>1. d[m] <= n + p BY <1>2, <2>6
      <4> QED BY <2>8, <2>9, <4>1
    <3> QED BY <2>5, <2>6, <2>10, <3>1 DEF Laid, g
  <2> QED BY <1>2, <2>5, <2>11 DEF LaidOut, RunsOf, more, g, p
<1>6. CASE ~ (runs # <<>> /\ Follows(last, at))
  <2> DEFINE run == [at |-> at, len |-> p]
             d == [j \in 0 .. m + 1 |-> IF j = m + 1 THEN n + p ELSE e[j]]
  <2>1. more = Append(runs, run)
    BY <1>6 DEF more, AddCluster, at, m, p
  <2>2. run \in [at : Nat, len : Nat] /\ run.at = at /\ run.len = p BY <1>2
  <2> HIDE DEF run
  <2>3. more \in Seq([at : Nat, len : Nat]) /\ Len(more) = m + 1
        /\ more[m + 1] = run /\ \A j \in 1 .. m : more[j] = runs[j]
    BY <1>4, <2>1, <2>2 DEF m
  <2>4. \A j \in 0 .. m + 1 : j # m + 1 => j \in 0 .. m BY <1>2
  <2>5. /\ d \in [0 .. m + 1 -> Nat] /\ d[m + 1] = n + p
        /\ \A j \in 0 .. m : d[j] = e[j]
    BY <1>2, <1>4, <2>4
  <2> HIDE DEF d
  <2>6. ASSUME NEW j \in 1 .. m
        PROVE  /\ d[j - 1] < d[j] /\ d[j] <= n + p /\ more[j].len = d[j] - d[j - 1]
               /\ \A i \in d[j - 1] + 1 .. d[j] : UnitOf(g, s, i) = more[j].at + (i - d[j - 1] - 1)
    <3>1. j - 1 \in 0 .. m /\ j \in 0 .. m BY <1>2
    <3>2. d[j - 1] = e[j - 1] /\ d[j] = e[j] /\ more[j] = runs[j] BY <2>3, <2>5, <3>1
    <3>3. d[j] <= n + p BY <1>2, <1>4, <3>1, <3>2
    <3> QED BY <1>4, <3>2, <3>3
  <2>7. /\ d[m] < d[m + 1] /\ more[m + 1].len = d[m + 1] - d[m]
        /\ \A i \in d[m] + 1 .. d[m + 1] : UnitOf(g, s, i) = more[m + 1].at + (i - d[m] - 1)
    <3>1. m \in 0 .. m BY <1>2
    <3>2. d[m] = n /\ d[m + 1] = n + p /\ more[m + 1].at = at /\ more[m + 1].len = p
      BY <1>4, <2>2, <2>3, <2>5, <3>1
    <3> QED BY <1>2, <1>3, <3>2
  <2>8. d[0] = 0
    <3>1. 0 \in 0 .. m BY <1>2
    <3> QED BY <1>4, <2>5, <3>1
  <2>9. Laid(f, s, more, d, n + p)
    <3>1. ASSUME NEW j \in 1 .. m + 1
          PROVE  /\ d[j - 1] < d[j] /\ d[j] <= n + p /\ more[j].len = d[j] - d[j - 1]
                 /\ \A i \in d[j - 1] + 1 .. d[j] :
                        UnitOf(g, s, i) = more[j].at + (i - d[j - 1] - 1)
      <4>1. CASE j = m + 1
        <5>1. j - 1 = m BY <1>2, <4>1
        <5>2. d[j] <= n + p BY <1>2, <2>5, <4>1
        <5> QED BY <2>7, <4>1, <5>1, <5>2
      <4>2. CASE j # m + 1
        <5>1. j \in 1 .. m BY <1>2, <4>2
        <5> QED BY <2>6, <5>1
      <4> QED BY <4>1, <4>2
    <3> QED BY <2>3, <2>5, <2>8, <3>1 DEF Laid, g
  <2> QED BY <1>2, <2>3, <2>9 DEF LaidOut, RunsOf, more, g, p
<1> QED BY <1>5, <1>6

LEMMA RunsLaid ==
    ASSUME NEW f \in Formats, NEW s \in Seq(Clusters(f))
    PROVE  /\ ClusterRuns(Geo(f), s) \in RunsOf
           /\ LaidOut(f, s, ClusterRuns(Geo(f), s), Len(s) * Geo(f).cluster)
<1> DEFINE g == Geo(f)
           n == Len(s)
           base == <<>>
           step == [k \in 1 .. n |-> [runs \in RunsOf |-> AddCluster(g, runs, s[k])]]
           Loop(h) == h = [i \in 0 .. n |-> IF i = 0 THEN base ELSE AddCluster(g, h[i - 1], s[i])]
           upTo == CHOOSE h : Loop(h)
           Good == [k \in 0 .. n |-> {runs \in RunsOf : LaidOut(f, s, runs, k * g.cluster)}]
<1>1. n \in Nat OBVIOUS
<1>2. base \in Good[0]
  <2> DEFINE e == [j \in 0 .. 0 |-> 0]
  <2>1. base \in RunsOf /\ Len(base) = 0 BY DEF RunsOf
  <2>2. 0 * g.cluster = 0
    <3>1. \A m \in Nat : 0 * m = 0 OBVIOUS
    <3>2. g.cluster \in Nat BY FormatGeo
    <3> QED BY <3>1, <3>2, Zenon
  <2>3. e \in [0 .. 0 -> Nat] /\ e[0] = 0 OBVIOUS
  <2> HIDE DEF e, base
  <2>4. Laid(f, s, base, e, 0) BY <2>1, <2>3 DEF Laid
  <2> QED BY <1>1, <2>1, <2>2, <2>4 DEF LaidOut
<1>3. ASSUME NEW k \in 1 .. n, NEW runs \in Good[k - 1] PROVE AddCluster(g, runs, s[k]) \in Good[k]
  <2>1. k - 1 \in 0 .. n - 1 /\ k - 1 \in 0 .. n /\ (k - 1) + 1 = k BY <1>1
  <2>2. runs \in RunsOf /\ LaidOut(f, s, runs, (k - 1) * g.cluster) BY <2>1
  <2>3. /\ AddCluster(g, runs, s[(k - 1) + 1]) \in RunsOf
        /\ LaidOut(f, s, AddCluster(g, runs, s[(k - 1) + 1]), ((k - 1) + 1) * g.cluster)
    BY <2>1, <2>2, ClusterAdded
  <2>4. AddCluster(g, runs, s[k]) \in RunsOf
        /\ LaidOut(f, s, AddCluster(g, runs, s[k]), k * g.cluster)
    BY <2>1, <2>3
  <2> QED BY <1>1, <2>4
<1>4. ASSUME NEW k \in 1 .. n, NEW runs \in Good[k - 1]
      PROVE  step[k][runs] = AddCluster(g, runs, s[k])
  <2>1. k - 1 \in 0 .. n BY <1>1
  <2> QED BY <2>1
<1> HIDE DEF base, step, Good, n
<1>5. \A k \in 1 .. n : \A runs \in Good[k - 1] : step[k][runs] \in Good[k]
  BY <1>3, <1>4
<1>6. PICK h : Runs(h, n, base, step) /\ \A k \in 0 .. n : h[k] \in Good[k]
  BY <1>1, <1>2, <1>5, LoopGood
<1>7. ASSUME NEW k \in 1 .. n PROVE step[k][h[k - 1]] = AddCluster(g, h[k - 1], s[k])
  <2>1. k - 1 \in 0 .. n BY <1>1
  <2> QED BY <1>4, <1>6, <2>1
<1>8. Loop(h)
  <2>1. \A k \in 0 .. n : k # 0 => k \in 1 .. n BY <1>1
  <2> QED BY <1>6, <1>7, <2>1 DEF Runs
<1>9. Loop(upTo) BY <1>8
<1>10. ClusterRuns(g, s) = upTo[n] BY DEF ClusterRuns, base, n
<1> HIDE DEF upTo
<1>11. upTo[0] = base /\ \A k \in 1 .. n : upTo[k] = AddCluster(g, upTo[k - 1], s[k])
  BY <1>1, <1>9
<1>12. upTo[n] \in Good[n]
  <2>1. upTo[0] \in Good[0] BY <1>2, <1>11
  <2>2. \A k \in 1 .. n : upTo[k - 1] \in Good[k - 1] => upTo[k] \in Good[k]
    BY <1>3, <1>11
  <2> QED BY ONLY <1>1, <2>1, <2>2, LoopKeeps
<1> QED BY <1>1, <1>10, <1>12 DEF Good, n

---------------------------------------------------------------------------
(* What is read of the runs of a chain.                                    *)

Held == {units[x] : x \in Device}
Reads == [got : Seq(Held), end : {"none", "unreadable"}]

\* Nothing but the first units of the clusters is read, and all n of them as far as the limit
\* allows, unless the device refuses one.
ReadSoFar(f, s, n, limit, read) ==
    /\ Len(read.got) <= Min2(n, limit)
    /\ \A i \in 1 .. Len(read.got) : read.got[i] = units[UnitOf(Geo(f), s, i)]
    /\ read.end = "none" => Len(read.got) = Min2(n, limit)
    /\ read.end # "none" => refused # {}

\* Two sequences joined are the one and then the other.
LEMMA JoinedHolds ==
    ASSUME NEW S, NEW a \in Seq(S), NEW b \in Seq(S)
    PROVE  /\ a \o b \in Seq(S) /\ Len(a \o b) = Len(a) + Len(b)
           /\ \A i \in 1 .. Len(a) : (a \o b)[i] = a[i]
           /\ \A i \in Len(a) + 1 .. Len(a) + Len(b) : (a \o b)[i] = b[i - Len(a)]
OBVIOUS

LEMMA RunAdded ==
    ASSUME UnitsInv, NEW f \in Formats, NEW s \in Seq(Clusters(f)), NEW runs \in RunsOf, NEW e,
           Laid(f, s, runs, e, Len(s) * Geo(f).cluster), NEW limit \in Nat,
           NEW k \in 1 .. Len(runs), NEW read \in Reads, ReadSoFar(f, s, e[k - 1], limit, read)
    PROVE  /\ AddRun(read, runs[k], limit) \in Reads
           /\ ReadSoFar(f, s, e[k], limit, AddRun(read, runs[k], limit))
<1> DEFINE g == Geo(f)
           n == Len(s) * g.cluster
           from == e[k - 1]
           to == e[k]
           run == runs[k]
           at == run.at
           done == Len(read.got)
           want == Min2(run.len, limit - done)
           got == Got(at, want)
           more == AddRun(read, run, limit)
<1>1. /\ from \in Nat /\ to \in Nat /\ from < to /\ to <= n /\ run.len = to - from
      /\ DeviceLen \in Nat
      /\ \A i \in from + 1 .. to : UnitOf(g, s, i) = at + (i - from - 1)
  <2>1. k - 1 \in 0 .. Len(runs) /\ k \in 0 .. Len(runs) BY DEF RunsOf
  <2> QED BY <2>1, ExfatVolumeAssumption DEF Laid
<1>2. at \in Nat /\ run.len \in Nat
  <2>1. k \in Nat \ {0} /\ k <= Len(runs) BY DEF RunsOf
  <2>2. run \in [at : Nat, len : Nat] BY <2>1, Element DEF RunsOf
  <2> QED BY <2>2
<1>3. /\ done \in Nat /\ done <= Min2(from, limit) /\ read.got \in Seq(Held)
      /\ \A i \in 1 .. done : read.got[i] = units[UnitOf(g, s, i)]
      /\ read.end \in {"none", "unreadable"} /\ read = [got |-> read.got, end |-> read.end]
      /\ read.end = "none" => done = Min2(from, limit)
      /\ read.end # "none" => refused # {}
  BY DEF ReadSoFar, Reads
<1> HIDE DEF from, to, run, at, done
<1>4. CASE read.end # "none" \/ done >= limit
  <2>1. more = read BY <1>4 DEF AddRun, BreaksOff, done
  <2>2. done <= Min2(to, limit) BY <1>1, <1>3 DEF Min2
  <2>3. read.end = "none" => done = Min2(to, limit) BY <1>1, <1>3, <1>4 DEF Min2
  <2> QED BY <1>3, <2>1, <2>2, <2>3 DEF ReadSoFar, done, run, to
<1>5. CASE read.end = "none" /\ ~ (done >= limit)
  <2>1. done = from /\ from < limit /\ want \in Nat \ {0} /\ want = Min2(to, limit) - from
        /\ want <= to - from
    BY <1>1, <1>2, <1>3, <1>5 DEF Min2
  <2> HIDE DEF want
  <2>2. at + want <= DeviceLen
    <3>1. from + want \in from + 1 .. to /\ from + want \in 1 .. n
      <4>1. n \in Nat
        <5>1. Len(s) \in Nat /\ g.cluster \in Nat BY FormatGeo
        <5> QED BY <5>1, MulNat
      <4> HIDE DEF n
      <4> QED BY <1>1, <2>1, <4>1
    <3>2. UnitOf(g, s, from + want) = at + ((from + want) - from - 1)
      <4>1. \A i \in from + 1 .. to : UnitOf(g, s, i) = at + (i - from - 1) BY <1>1, Zenon
      <4> DEFINE end == from + want
      <4> HIDE DEF end, g
      <4>2. end \in from + 1 .. to BY <3>1, Zenon DEF end
      <4>3. UnitOf(g, s, end) = at + (end - from - 1) BY <4>1, <4>2, Zenon
      <4> QED BY <4>3, Zenon DEF end, g
    <3>3. UnitOf(g, s, from + want) \in Nat /\ UnitOf(g, s, from + want) < DeviceLen
      BY <3>1, UnitPlace
    <3>4. (from + want) - from - 1 = want - 1 BY <1>1, <2>1
    <3>5. at + (want - 1) < DeviceLen BY <3>2, <3>3, <3>4
    <3> QED BY <1>1, <1>2, <2>1, <3>5
  <2>3. /\ refused = {} => got # Unread
        /\ got # Unread => /\ got = Span(at, want) /\ Len(got) = want /\ DOMAIN got = 1 .. want
                           /\ \A i \in 1 .. want : got[i] = units[at + i - 1]
    BY <1>2, <2>1, <2>2, ReadUnits
  <2>4. CASE got = Unread
    <3>1. more = [read EXCEPT !.end = "unreadable"]
      BY <1>5, <2>4 DEF AddRun, BreaksOff, at, done, want
    <3>2. more.got = read.got /\ more.end = "unreadable" /\ more \in Reads
      BY <1>3, <3>1 DEF Reads
    <3>3. done <= Min2(to, limit) BY <1>1, <1>3 DEF Min2
    <3> HIDE DEF more
    <3>4. ReadSoFar(f, s, to, limit, more)
      BY <1>3, <2>3, <2>4, <3>2, <3>3 DEF ReadSoFar, done
    <3> QED BY <3>2, <3>4 DEF more, run, to
  <2>5. CASE got # Unread
    <3>1. got \in Seq(Held)
      <4>1. got = [i \in 1 .. want |-> units[at + i - 1]] BY <2>3, <2>5 DEF Span
      <4>2. \A i \in 1 .. want : at + i - 1 \in Device
        BY <1>1, <1>2, <2>1, <2>2 DEF Device
      <4>3. \A i \in 1 .. want : units[at + i - 1] \in Held BY <4>2 DEF Held
      <4>4. got \in [1 .. want -> Held] BY <4>1, <4>3
      <4> HIDE DEF got
      <4> QED BY <2>1, <4>4
    <3>2. more = [got |-> read.got \o got, end |-> "none"]
      <4>1. ~ (Len(got) < want) BY <2>1, <2>3, <2>5
      <4> QED BY <1>5, <2>5, <4>1 DEF AddRun, BreaksOff, at, done, want
    <3> DEFINE all == read.got \o got
    <3> HIDE DEF got
    <3>3. /\ all \in Seq(Held) /\ Len(all) = from + want
          /\ \A i \in 1 .. from : all[i] = read.got[i]
          /\ \A i \in from + 1 .. from + want : all[i] = got[i - from]
      <4>1. read.got \in Seq(Held) /\ Len(read.got) = from /\ Len(got) = want
            /\ from \in Nat /\ want \in Nat
        BY <1>1, <1>3, <2>1, <2>3, <2>5 DEF done
      <4>2. Len(read.got) + Len(got) = from + want BY <4>1
      <4> QED BY <3>1, <4>1, <4>2, JoinedHolds DEF all
    <3> HIDE DEF all
    <3>4. more.got = all /\ more.end = "none" /\ more \in Reads
      BY <3>2, <3>3 DEF Reads, all
    <3>5. from + want = Min2(to, limit) BY <1>1, <2>1 DEF Min2
    <3>6. ASSUME NEW i \in 1 .. from + want PROVE all[i] = units[UnitOf(g, s, i)]
      <4>1. CASE i <= from
        <5>1. i \in 1 .. from BY <1>1, <4>1
        <5> QED BY <1>3, <2>1, <3>3, <5>1
      <4>2. CASE ~ (i <= from)
        <5>1. /\ i \in from + 1 .. from + want /\ i \in from + 1 .. to /\ i - from \in 1 .. want
              /\ at + (i - from) - 1 = at + (i - from - 1)
          BY <1>1, <1>2, <2>1, <4>2
        <5>2. all[i] = got[i - from] BY <3>3, <5>1
        <5>3. got[i - from] = units[at + (i - from) - 1] BY <2>3, <2>5, <5>1
        <5>4. UnitOf(g, s, i) = at + (i - from - 1) BY <1>1, <5>1
        <5> QED BY <5>1, <5>2, <5>3, <5>4
      <4> QED BY <4>1, <4>2
    <3> HIDE DEF more
    <3>7. ReadSoFar(f, s, to, limit, more)
      <4>1. Len(more.got) = Min2(to, limit) /\ Min2(to, limit) \in Nat
        BY <1>1, <3>3, <3>4, <3>5 DEF Min2
      <4>2. \A i \in 1 .. Len(more.got) : more.got[i] = units[UnitOf(g, s, i)]
        BY <3>3, <3>4, <3>6
      <4> QED BY <3>4, <4>1, <4>2 DEF ReadSoFar
    <3> QED BY <3>4, <3>7 DEF more, run, to
  <2> QED BY <2>4, <2>5
<1> QED BY <1>3, <1>4, <1>5

LEMMA RunsRead ==
    ASSUME UnitsInv, NEW f \in Formats, NEW s \in Seq(Clusters(f)), NEW runs \in RunsOf,
           LaidOut(f, s, runs, Len(s) * Geo(f).cluster), NEW limit \in Nat
    PROVE  /\ ReadRuns(runs, limit) \in Reads
           /\ ReadSoFar(f, s, Len(s) * Geo(f).cluster, limit, ReadRuns(runs, limit))
<1>1. PICK e : Laid(f, s, runs, e, Len(s) * Geo(f).cluster) BY DEF LaidOut
<1> DEFINE m == Len(runs)
           base == [got |-> <<>>, end |-> "none"]
           step == [k \in 1 .. m |-> [read \in Reads |-> AddRun(read, runs[k], limit)]]
           Loop(h) == h = [i \in 0 .. m |-> IF i = 0 THEN base
                                            ELSE AddRun(h[i - 1], runs[i], limit)]
           upTo == CHOOSE h : Loop(h)
           Good == [k \in 0 .. m |-> {read \in Reads : ReadSoFar(f, s, e[k], limit, read)}]
<1>2. m \in Nat /\ e[0] = 0 /\ e[m] = Len(s) * Geo(f).cluster BY <1>1 DEF RunsOf, Laid
<1>3. base \in Good[0]
  <2>1. base \in Reads /\ Len(base.got) = 0 /\ base.end = "none" BY DEF Reads
  <2> HIDE DEF base
  <2>2. ReadSoFar(f, s, 0, limit, base) BY <2>1 DEF ReadSoFar, Min2
  <2> QED BY <1>2, <2>1, <2>2
<1>4. ASSUME NEW k \in 1 .. m, NEW read \in Good[k - 1]
      PROVE  AddRun(read, runs[k], limit) \in Good[k]
  <2>1. k - 1 \in 0 .. m /\ k \in 0 .. m BY <1>2
  <2>2. read \in Reads /\ ReadSoFar(f, s, e[k - 1], limit, read) BY <2>1
  <2>3. /\ AddRun(read, runs[k], limit) \in Reads
        /\ ReadSoFar(f, s, e[k], limit, AddRun(read, runs[k], limit))
    BY <1>1, <2>2, RunAdded
  <2> QED BY <2>1, <2>3
<1>5. ASSUME NEW k \in 1 .. m, NEW read \in Good[k - 1]
      PROVE  step[k][read] = AddRun(read, runs[k], limit)
  <2>1. k - 1 \in 0 .. m BY <1>2
  <2> QED BY <2>1
<1> HIDE DEF base, step, Good, m
<1>6. \A k \in 1 .. m : \A read \in Good[k - 1] : step[k][read] \in Good[k]
  BY <1>4, <1>5
<1>7. PICK h : Runs(h, m, base, step) /\ \A k \in 0 .. m : h[k] \in Good[k]
  BY <1>2, <1>3, <1>6, LoopGood
<1>8. ASSUME NEW k \in 1 .. m PROVE step[k][h[k - 1]] = AddRun(h[k - 1], runs[k], limit)
  <2>1. k - 1 \in 0 .. m BY <1>2
  <2> QED BY <1>5, <1>7, <2>1
<1>9. Loop(h)
  <2>1. \A k \in 0 .. m : k # 0 => k \in 1 .. m BY <1>2
  <2> QED BY <1>7, <1>8, <2>1 DEF Runs
<1>10. Loop(upTo) BY <1>9
<1>11. ReadRuns(runs, limit) = upTo[m] BY DEF ReadRuns, base, m
<1> HIDE DEF upTo
<1>12. upTo[0] = base /\ \A k \in 1 .. m : upTo[k] = AddRun(upTo[k - 1], runs[k], limit)
  BY <1>2, <1>10
<1>13. upTo[m] \in Good[m]
  <2>1. upTo[0] \in Good[0] BY <1>3, <1>12
  <2>2. \A k \in 1 .. m : upTo[k - 1] \in Good[k - 1] => upTo[k] \in Good[k]
    BY <1>4, <1>12
  <2> QED BY ONLY <1>2, <2>1, <2>2, LoopKeeps
<1>14. m \in 0 .. m BY <1>2
<1> QED BY <1>2, <1>11, <1>13, <1>14 DEF Good

\* What is read of a chain that stands: its units, in order, as far as the limits allow,
\* unless the device refuses one.
ChainUnits(f, s, limit, read) ==
    /\ read.got \in Seq(Held) /\ Len(read.got) <= limit
    /\ \A i \in 1 .. Len(read.got) :
          /\ i \in 1 .. Len(s) * Geo(f).cluster
          /\ read.got[i] = units[UnitOf(Geo(f), s, i)]
    /\ refused = {} => \/ Len(read.got) = Min2(Len(s) * Geo(f).cluster, limit)
                       \/ Len(read.got) = Min2(MaxChain * Geo(f).cluster, limit)
    /\ refused = {} => read.end = "none"

LEMMA ChainUnitsRead ==
    ASSUME UnitsInv, NEW f \in Formats, NEW s, ChainStands(f, s), NEW limit \in Nat
    PROVE  ChainUnits(f, s, limit,
                      ReadRuns(ClusterRuns(Geo(f), ChainFrom(Geo(f), s[1]).seen), limit))
<1> DEFINE g == Geo(f)
           p == g.cluster
           seen == ChainFrom(g, s[1]).seen
           runs == ClusterRuns(g, seen)
           read == ReadRuns(runs, limit)
<1>1. /\ seen \in Seq(Clusters(f)) /\ Len(seen) \in 1 .. Len(s)
      /\ \A i \in 1 .. Len(seen) : seen[i] = s[i]
      /\ refused = {} => Len(seen) = Len(s) \/ Len(seen) = MaxChain
  BY ChainRead
<1> HIDE DEF seen
<1>2. runs \in RunsOf /\ LaidOut(f, seen, runs, Len(seen) * p) BY <1>1, RunsLaid
<1> HIDE DEF runs
<1>3. read \in Reads /\ ReadSoFar(f, seen, Len(seen) * p, limit, read)
  BY <1>1, <1>2, RunsRead
<1> HIDE DEF read
<1>4. p \in Nat \ {0} /\ Len(s) \in Nat /\ s \in Seq(Clusters(f)) /\ Len(seen) \in Nat
  BY <1>1, FormatGeo DEF ChainStands
<1>5. /\ read.got \in Seq(Held) /\ read.end \in {"none", "unreadable"}
      /\ Len(read.got) \in Nat
  BY <1>3 DEF Reads
<1> DEFINE all == Len(s) * p
           part == Len(seen) * p
<1>6. all \in Nat /\ part \in Nat /\ part <= all
  <2>1. Len(seen) <= Len(s) BY <1>1
  <2> QED BY <1>4, <2>1, Products
<1> HIDE DEF all, part
<1>7. /\ Len(read.got) <= Min2(part, limit)
      /\ \A i \in 1 .. Len(read.got) : read.got[i] = units[UnitOf(g, seen, i)]
      /\ read.end = "none" => Len(read.got) = Min2(part, limit)
      /\ read.end # "none" => refused # {}
  BY <1>3 DEF ReadSoFar, part
<1>8. Len(read.got) <= limit /\ Len(read.got) <= part
  BY <1>5, <1>6, <1>7 DEF Min2
<1>9. ASSUME NEW i \in 1 .. Len(read.got)
      PROVE  i \in 1 .. all /\ read.got[i] = units[UnitOf(g, s, i)]
  <2>1. i \in 1 .. part /\ i \in 1 .. all BY <1>5, <1>6, <1>8
  <2>2. ((i - 1) \div p) + 1 \in 1 .. Len(seen) BY <1>1, <2>1, UnitPlace DEF part
  <2>3. seen[((i - 1) \div p) + 1] = s[((i - 1) \div p) + 1] BY <1>1, <2>2
  <2>4. UnitOf(g, seen, i) = UnitOf(g, s, i) BY <2>3, Zenon DEF UnitOf
  <2> QED BY <1>7, <2>1, <2>4
<1>10. ASSUME refused = {}
       PROVE  Len(read.got) = Min2(all, limit) \/ Len(read.got) = Min2(MaxChain * p, limit)
  <2>1. Len(read.got) = Min2(part, limit) BY <1>5, <1>7, <1>10
  <2>2. part = all \/ part = MaxChain * p BY <1>1, <1>10 DEF part, all
  <2> QED BY <2>1, <2>2
<1>11. ChainUnits(f, s, limit, read) BY <1>5, <1>7, <1>8, <1>9, <1>10 DEF ChainUnits, all
<1> QED BY <1>11 DEF read, runs, seen

---------------------------------------------------------------------------
(* A volume that stands.                                                   *)

LEMMA StandingBoot ==
    ASSUME NEW f \in Formats, Standing(f)
    PROVE  units[0] = [boot |-> f.boot]
<1> DEFINE b == f.boot
           area == BootArea(b)
           piece == <<"region", 0>>
<1>1. b.bytes_per_sector \in Nat \ {0}
  <2>1. b.bytes_per_sector = Geo(f).sector
    <3>1. Geo(f).trusted BY FormatBoot
    <3> QED BY <3>1 DEF Geo, FromBoot
  <2> QED BY <2>1, FormatGeo
<1>2. SectorAt(FromBoot(b), 0) = 0
  <2>1. FromBoot(b).sector \in Nat BY FormatGeo DEF Geo
  <2> QED BY <2>1 DEF SectorAt
<1>3. area \in Seq({[boot |-> b], Signature, Zero})
      /\ Len(area) = BootChecksumSector * b.bytes_per_sector
  BY <1>1, AreaType
<1>4. Len(area) \in Nat \ {0}
  <2>1. BootChecksumSector \in Nat \ {0} BY ExfatVolumeAssumption DEF BootChecksumSector
  <2> QED BY <1>1, <1>3, <2>1
<1>5. area[1] = [boot |-> b]
  <2>1. 1 \in 1 .. BootChecksumSector * b.bytes_per_sector BY <1>3, <1>4
  <2> QED BY <2>1 DEF BootArea
<1>6. piece \in Boots(f) /\ piece \in Pieces(f) /\ piece[1] = "region" /\ piece[2] = 0
  BY DEF Boots, Pieces
<1>7. Written[f][piece] = At(0, area)
  <2>1. Written[f][piece] = Piece(f, piece) BY <1>6 DEF Written
  <2>2. Piece(f, piece) = At(SectorAt(FromBoot(b), piece[2]), area) BY <1>6 DEF Piece
  <2> QED BY <1>2, <1>6, <2>1, <2>2
<1> HIDE DEF area, piece
<1>8. 0 \in DOMAIN At(0, area) /\ At(0, area)[0] = area[1] BY <1>3, <1>4 DEF At
<1>9. Kept(f, piece) BY <1>6 DEF Standing
<1> QED BY <1>5, <1>7, <1>8, <1>9 DEF Kept

LEMMA FreshEntries ==
    ASSUME NEW f \in Formats
    PROVE  /\ f.bitmap # <<>>
           /\ FreshEntry(f, f.boot.first_cluster_of_root) = Eoc /\ FreshEntry(f, f.upcase) = Eoc
           /\ FreshEntry(f, f.bitmap[Len(f.bitmap)]) = Eoc
           /\ \A i \in 1 .. Len(f.bitmap) - 1 : FreshEntry(f, f.bitmap[i]) = f.bitmap[i + 1]
<1> DEFINE s == f.bitmap
           n == Len(s)
           r == f.boot.first_cluster_of_root
<1>1. /\ s \in Seq(Clusters(f)) /\ (\A i, j \in DOMAIN s : s[i] = s[j] => i = j)
      /\ f.upcase \in Clusters(f) \ ({Geo(f).root} \union ToSet(s))
      /\ Geo(f).root \notin ToSet(s) /\ Geo(f).root = r /\ r \in Clusters(f)
  BY FormatBoot, FormatGeo
<1>2. n \in Nat \ {0}
  <2> DEFINE m == CeilDiv(Geo(f).count, BitsPerUnit)
             p == Geo(f).cluster
  <2>1. \A a, b \in Nat \ {0} : CeilDiv(a, b) \in Nat \ {0}
    <3> SUFFICES ASSUME NEW a \in Nat \ {0}, NEW b \in Nat \ {0} PROVE CeilDiv(a, b) \in Nat \ {0}
      OBVIOUS
    <3>1. a + b - 1 >= b /\ a + b - 1 \in Nat OBVIOUS
    <3>2. (a + b - 1) \div b >= 1 BY <3>1
    <3>3. (a + b - 1) \div b \in Nat BY <3>1
    <3> QED BY <3>2, <3>3 DEF CeilDiv
  <2>2. m \in Nat \ {0} /\ p \in Nat \ {0} BY <2>1, FormatGeo, ExfatVolumeAssumption
  <2>3. n = CeilDiv(m, p) BY FormatBoot
  <2> HIDE DEF m, p, n
  <2> QED BY <2>1, <2>2, <2>3
<1>3. DOMAIN s = 1 .. n /\ Last(s) = s[n] BY <1>1 DEF Last
<1>4. \A i \in 1 .. n : s[i] \in Clusters(f) /\ s[i] \in ToSet(s)
  BY <1>1, <1>3 DEF ToSet
<1>5. \A c \in Clusters(f) : c # 0 /\ c # 1 BY DEF Clusters
<1> HIDE DEF s, n
<1>6. FreshEntry(f, r) = Eoc
  <2>1. ~ \E i \in 1 .. n - 1 : s[i] = r
    <3>1. \A i \in 1 .. n - 1 : i \in 1 .. n BY <1>2
    <3> QED BY <1>1, <1>4, <3>1
  <2> QED BY <1>1, <1>5, <2>1 DEF FreshEntry, s, n
<1>7. FreshEntry(f, s[n]) = Eoc
  <2>1. n \in 1 .. n BY <1>2
  <2>2. s[n] # 0 BY <1>4, <1>5, <2>1
  <2>3. ~ \E i \in 1 .. n - 1 : s[i] = s[n]
    <3>1. \A i \in 1 .. n - 1 : i \in 1 .. n /\ i # n BY <1>2
    <3> QED BY <1>1, <1>3, <2>1, <3>1
  <2> QED BY <1>3, <2>2, <2>3 DEF FreshEntry, s, n
<1>8. ASSUME NEW i \in 1 .. n - 1 PROVE FreshEntry(f, s[i]) = s[i + 1]
  <2>1. i \in 1 .. n /\ n \in 1 .. n /\ i # n BY <1>2
  <2>2. s[i] # 0 /\ s[i] # 1 /\ s[i] # r /\ s[i] # f.upcase
    BY <1>1, <1>4, <1>5, <2>1
  <2>3. s[i] # s[n] BY <1>1, <1>3, <2>1
  <2> DEFINE which == CHOOSE j \in 1 .. n - 1 : s[j] = s[i]
  <2>4. which = i
    <3>1. \A j \in 1 .. n - 1 : s[j] = s[i] => j = i
      <4>1. \A j \in 1 .. n - 1 : j \in 1 .. n BY <1>2
      <4> QED BY <1>1, <1>3, <2>1, <4>1
    <3> QED BY <3>1
  <2>5. FreshEntry(f, s[i]) = s[1 + which]
    <3>1. \E j \in 1 .. n - 1 : s[j] = s[i] OBVIOUS
    <3> QED BY <1>3, <2>2, <2>3, <3>1 DEF FreshEntry, s, n
  <2>6. 1 + i = i + 1 BY <1>2
  <2> HIDE DEF which
  <2> QED BY <2>4, <2>5, <2>6
<1>9. s # <<>> BY <1>2 DEF n
<1>10. FreshEntry(f, f.upcase) = Eoc
  <2>1. \A i \in 1 .. n - 1 : i \in 1 .. n BY <1>2
  <2>2. ~ \E i \in 1 .. n - 1 : s[i] = f.upcase BY <1>1, <1>4, <2>1
  <2> QED BY <1>1, <1>5, <2>2 DEF FreshEntry, s, n
<1> QED BY <1>6, <1>7, <1>8, <1>9, <1>10 DEF s, n

\* A single cluster that ends where it begins is a chain.
LEMMA SingleChain ==
    ASSUME NEW f \in Formats, NEW c \in Clusters(f), EntryOf(f, c) = Eoc
    PROVE  ChainStands(f, <<c>>)
<1> DEFINE one == <<c>>
<1>1. one \in Seq(Clusters(f)) /\ one # <<>> /\ Len(one) = 1 /\ one[1] = c OBVIOUS
<1> HIDE DEF one
<1>2. EntryOf(f, one[1]) = Eoc BY <1>1
<1>3. \A i, j \in 1 .. 1 : i = j OBVIOUS
<1>4. 1 .. 1 - 1 = {} OBVIOUS
<1>5. ChainStands(f, one) BY <1>1, <1>2, <1>3, <1>4 DEF ChainStands
<1> QED BY <1>5 DEF one

\* What a reader needs of a volume to find its way: the chains and the root directory.
Frame(f) ==
    /\ \A c \in Used(f) : EntryOf(f, c) = FreshEntry(f, c)
    /\ units[ClusterAt(Geo(f), f.boot.first_cluster_of_root)] = [entries |-> Entries(f)]

LEMMA StandingFrame == ASSUME NEW f \in Formats, Standing(f) PROVE Frame(f)
BY DEF Standing, Frame, Geo

LEMMA FrameChains ==
    ASSUME NEW f \in Formats, Frame(f)
    PROVE  /\ ChainStands(f, f.bitmap) /\ ChainStands(f, <<f.boot.first_cluster_of_root>>)
           /\ ChainStands(f, <<f.upcase>>)
<1> DEFINE s == f.bitmap
           r == f.boot.first_cluster_of_root
<1>1. /\ s \in Seq(Clusters(f)) /\ (\A i, j \in DOMAIN s : s[i] = s[j] => i = j)
      /\ r \in Clusters(f) /\ Len(s) \in Nat /\ DOMAIN s = 1 .. Len(s)
      /\ f.upcase \in Clusters(f)
  BY FormatBoot, FormatGeo
<1>2. \A c \in Used(f) : EntryOf(f, c) = FreshEntry(f, c) BY DEF Frame
<1>3. r \in Used(f) /\ f.upcase \in Used(f) /\ \A i \in 1 .. Len(s) : s[i] \in Used(f)
  BY <1>1 DEF Used, ToSet
<1>4. Len(s) \in 1 .. Len(s) /\ \A i \in 1 .. Len(s) - 1 : i \in 1 .. Len(s)
  <2>1. Len(s) # 0 BY <1>1, FreshEntries
  <2> QED BY <1>1, <2>1
<1>5. ChainStands(f, s)
  <2>1. \A i \in 1 .. Len(s) - 1 : EntryOf(f, s[i]) = s[i + 1]
    BY <1>2, <1>3, <1>4, FreshEntries
  <2>2. EntryOf(f, s[Len(s)]) = Eoc BY <1>2, <1>3, <1>4, FreshEntries
  <2>3. s # <<>> BY FreshEntries
  <2> QED BY <1>1, <2>1, <2>2, <2>3 DEF ChainStands
<1>6. EntryOf(f, r) = Eoc /\ EntryOf(f, f.upcase) = Eoc BY <1>2, <1>3, FreshEntries
<1> QED BY <1>1, <1>5, <1>6, SingleChain

\* The first list that has an entry is the first of all.
LEMMA FirstOfFirst ==
    ASSUME NEW n \in Nat \ {0}, NEW lists, DOMAIN lists = 1 .. n, lists[1] # <<>>
    PROVE  FirstEntry(lists) = <<lists[1][1]>>
<1> DEFINE with == {i \in DOMAIN lists : lists[i] # <<>>}
           least == CHOOSE i \in with : \A j \in with : i <= j
<1>1. 1 \in with /\ with \subseteq 1 .. n OBVIOUS
<1>2. \A j \in with : j \in Nat /\ 1 <= j BY <1>1
<1>3. \A i \in with : (\A j \in with : i <= j) => i = 1
  <2> SUFFICES ASSUME NEW i \in with, \A j \in with : i <= j PROVE i = 1
    OBVIOUS
  <2>1. i <= 1 /\ i \in Nat /\ 1 <= i BY <1>1, <1>2
  <2> QED BY <2>1
<1> HIDE DEF with
<1>4. least = 1 BY <1>1, <1>2, <1>3
<1>5. with # {} BY <1>1
<1> HIDE DEF least
<1>6. FirstEntry(lists) = <<lists[least][1]>> BY <1>5 DEF FirstEntry, with, least
<1> QED BY <1>4, <1>6

\* What the root directory of a volume that stands says, as far as it is read.
RootKnown(f, bitmap) ==
    /\ bitmap \in {<<>>, Entries(f).bitmap}
    /\ refused = {} => bitmap = Entries(f).bitmap

\* Nothing is said of a chain that ends where it should and is as long as declared.
LEMMA NoChainFindings ==
    ASSUME NEW g, NEW chain, chain.end = "eoc", NEW declared,
           \A len \in declared : Len(chain.seen) = CeilDiv(len, g.cluster)
    PROVE  ChainFindings(g, chain, declared) = {}
BY DEF ChainFindings, If

LEMMA RootRead ==
    ASSUME UnitsInv, NEW f \in Formats, Frame(f), geo = Geo(f), ReadRoot
    PROVE  /\ RootKnown(f, root'.bitmap)
           /\ refused = {} => root' = Entries(f) /\ found' = found \union LargeRoot(f)
<1> DEFINE g == Geo(f)
           p == g.cluster
           r == f.boot.first_cluster_of_root
           one == <<r>>
           limit == MaxDirectory
           seen == ChainFrom(g, one[1]).seen
           read == ReadRuns(ClusterRuns(g, ChainFrom(g, one[1]).seen), limit)
           n == Len(read.got)
           entries == [i \in DOMAIN read.got |->
                          IF Is(read.got[i], "entries") THEN read.got[i].entries ELSE NoRoot]
           lists == [i \in DOMAIN entries |-> entries[i].bitmap]
           upcases == [i \in DOMAIN entries |-> entries[i].upcase]
<1>1. /\ p \in Nat \ {0} /\ g.root = r /\ r \in Clusters(f) /\ MaxChain \in Nat \ {0}
      /\ Len(one) = 1 /\ one[1] = r
  BY FormatGeo, ExfatVolumeAssumption
<1>2. limit \in Nat \ {0} BY ExfatVolumeAssumption
<1>3. ChainStands(f, one) BY FrameChains
<1>4. ChainUnits(f, one, limit, read)
  <2>1. limit \in Nat BY <1>2
  <2> HIDE DEF one, limit
  <2> QED BY <1>3, <2>1, ChainUnitsRead
<1>5. /\ root' = [bitmap |-> FirstEntry(lists), upcase |-> FirstEntry(upcases)]
      /\ found' = found
            \union In("root", ChainFindings(g, ChainFrom(g, one[1]), {})
                               \union If(seen = <<>>, "no clusters")
                               \union If(read.end # "none", read.end)
                               \union TooLong(g, Len(seen)))
            \union In("volume", If(root'.bitmap = <<>>, "no bitmap")
                                \union If(root'.upcase = <<>>, "no up-case table"))
  <2>1. one[1] = geo.root BY <1>1
  <2> QED BY <2>1 DEF ReadRoot
<1>11. refused = {} => ChainFrom(g, one[1]).end = "eoc"
  <2> HIDE DEF one
  <2> QED BY <1>1, <1>3, ChainRead
<1>13. Len(seen) = 1
  <2>1. Len(seen) \in 1 .. Len(one)
    <3> HIDE DEF one
    <3> QED BY <1>3, ChainRead
  <2> HIDE DEF one, seen
  <2> QED BY <1>1, <2>1
<1> HIDE DEF read, seen
<1>6. /\ n \in Nat /\ DOMAIN read.got = 1 .. n
      /\ \A i \in 1 .. n : read.got[i] = units[UnitOf(g, one, i)]
      /\ refused = {} => n # 0 /\ read.end = "none"
  <2>1. Min2(1 * p, limit) # 0 /\ Min2(MaxChain * p, limit) # 0
    BY <1>1, <1>2 DEF Min2
  <2>2. Len(one) * p = 1 * p BY <1>1
  <2> HIDE DEF one, limit
  <2> QED BY <1>4, <2>1, <2>2 DEF ChainUnits
<1>7. DOMAIN lists = 1 .. n /\ DOMAIN upcases = 1 .. n BY <1>6
<1>12. root'.bitmap = FirstEntry(lists) /\ root'.upcase = FirstEntry(upcases)
  <2> HIDE DEF lists, upcases
  <2> QED BY <1>5
<1>8. CASE n = 0
  <2> HIDE DEF lists
  <2>1. FirstEntry(lists) = <<>>
    <3> DEFINE with == {i \in DOMAIN lists : lists[i] # <<>>}
    <3>1. with = {} BY <1>7, <1>8
    <3> QED BY <3>1, Zenon DEF FirstEntry
  <2> QED BY <1>6, <1>8, <1>12, <2>1 DEF RootKnown
<1>9. CASE n # 0
  <2>1. 1 \in 1 .. n BY <1>6, <1>9
  <2>2. UnitOf(g, one, 1) = ClusterAt(g, r)
    <3>1. (1 - 1) \div p = 0 /\ (1 - 1) % p = 0 BY <1>1
    <3>2. UnitOf(g, one, 1) = ClusterAt(g, one[0 + 1]) + 0 BY ONLY <3>1, UnitIs
    <3>3. ClusterAt(g, r) \in Nat BY <1>1, ClusterPlace
    <3> HIDE DEF g, one
    <3> QED BY <1>1, <3>2, <3>3
  <2>3. units[ClusterAt(g, r)] = [entries |-> Entries(f)] BY DEF Frame
  <2>4. read.got[1] = [entries |-> Entries(f)] BY <1>6, <2>1, <2>2, <2>3
  <2>5. entries[1] = Entries(f) BY <1>6, <2>1, <2>4 DEF Is
  <2>6. lists[1] = Entries(f).bitmap BY <1>6, <2>1, <2>5
  <2>7. /\ Entries(f).bitmap # <<>> /\ <<Entries(f).bitmap[1]>> = Entries(f).bitmap
        /\ Entries(f).upcase # <<>> /\ <<Entries(f).upcase[1]>> = Entries(f).upcase
        /\ Entries(f) = [bitmap |-> Entries(f).bitmap, upcase |-> Entries(f).upcase]
    BY DEF Entries
  <2>8. upcases[1] = Entries(f).upcase BY <1>6, <2>1, <2>5
  <2> HIDE DEF lists, upcases
  <2>9. FirstEntry(lists) = Entries(f).bitmap
    BY <1>6, <1>7, <1>9, <2>6, <2>7, FirstOfFirst
  <2>10. FirstEntry(upcases) = Entries(f).upcase
    BY <1>6, <1>7, <1>9, <2>7, <2>8, FirstOfFirst
  <2>11. root' = Entries(f) BY <1>5, <2>7, <2>9, <2>10
  <2>12. ASSUME refused = {} PROVE found' = found \union LargeRoot(f)
    <3>1. ChainFindings(g, ChainFrom(g, one[1]), {}) = {} BY <1>11, <2>12, NoChainFindings
    <3>2. read.end = "none" BY <1>6, <2>12
    <3>3. root'.bitmap # <<>> /\ root'.upcase # <<>> BY <1>12, <2>7, <2>9, <2>10
    <3>4. seen # <<>> /\ Len(seen) = 1 BY <1>13, <2>12
    <3>5. LargeRoot(f) = In("root", TooLong(g, Len(seen))) BY <3>4 DEF LargeRoot, Geo
    <3> QED BY <1>5, <3>1, <3>2, <3>3, <3>4, <3>5 DEF In, If
  <2> QED BY <1>12, <2>9, <2>11, <2>12 DEF RootKnown
<1> QED BY <1>8, <1>9

---------------------------------------------------------------------------
(* The bitmap and the table side by side.                                  *)

LEMMA DivBelow ==
    ASSUME NEW j \in Nat, NEW n \in Nat, NEW p \in Nat \ {0}, j < n * p
    PROVE  j \div p \in Nat /\ j \div p < n
OBVIOUS

LEMMA CeilCovers ==
    ASSUME NEW m \in Nat, NEW n \in Nat \ {0}
    PROVE  CeilDiv(m, n) \in Nat /\ m <= CeilDiv(m, n) * n
<1> DEFINE a == m + n - 1
           q == a \div n
           r == a % n
<1>1. a \in Nat BY DEF a
<1> HIDE DEF a
<1>2. a = q * n + r /\ q \in Nat /\ r \in 0 .. n - 1 BY <1>1
<1>3. q * n \in Nat BY <1>2, MulNat
<1> HIDE DEF q, r
<1>4. m <= q * n
  <2> DEFINE t == q * n
  <2>1. t \in Nat /\ a = t + r BY <1>2, <1>3
  <2> HIDE DEF t
  <2>2. m <= t BY <1>2, <2>1 DEF a
  <2> QED BY <2>2 DEF t
<1> QED BY <1>2, <1>4 DEF CeilDiv, a, q

Checked(f) == Min2(f.boot.cluster_count, MaxChecked)
BitIndex(c) == (c - 2) \div BitsPerUnit
Bitmapped(f) == CeilDiv(f.boot.cluster_count, BitsPerUnit)

LEMMA CheckedType ==
    ASSUME NEW f \in Formats
    PROVE  /\ Checked(f) \in Nat \ {0} /\ Checked(f) <= f.boot.cluster_count
           /\ Checked(f) <= MaxChecked /\ Checked(f) <= Geo(f).count
           /\ f.boot.cluster_count \in Nat
<1>1. /\ Geo(f).count = f.boot.cluster_count /\ Geo(f).count \in Nat \ {0}
      /\ MaxChecked \in Nat \ {0}
  BY FormatGeo, ExfatVolumeAssumption
<1> QED BY <1>1 DEF Checked, Min2

\* The bits of the clusters that are compared are within the limits.
LEMMA BitsCover ==
    ASSUME NEW f \in Formats, NEW c \in 2 .. Checked(f) + 1
    PROVE  /\ BitIndex(c) \in Nat /\ BitIndex(c) < Bitmapped(f) /\ BitIndex(c) < MaxBitmap
           /\ BitIndex(c) < MaxChain * Geo(f).cluster
           /\ BitIndex(c) < Len(f.bitmap) * Geo(f).cluster
<1> DEFINE p == Geo(f).cluster
           count == f.boot.cluster_count
           k == BitIndex(c)
           need == Bitmapped(f)
           have == Len(f.bitmap)
<1>1. /\ p \in Nat \ {0} /\ count \in Nat /\ BitsPerUnit \in Nat \ {0}
      /\ MaxChecked \in Nat /\ MaxBitmap \in Nat /\ MaxChain \in Nat
      /\ Checked(f) \in Nat /\ Checked(f) <= count /\ Checked(f) <= MaxChecked
  BY FormatGeo, CheckedType, ExfatVolumeAssumption
<1>2. PICK j \in Nat : j = c - 2 /\ j < count /\ j < MaxChecked BY <1>1
<1>3. k = j \div BitsPerUnit BY <1>2 DEF BitIndex
<1>4. need \in Nat /\ count <= need * BitsPerUnit BY <1>1, CeilCovers DEF Bitmapped
<1>5. have \in Nat /\ need <= have * p
  <2>1. have = CeilDiv(need, p)
    <3>1. Geo(f).count = count BY FormatGeo
    <3> QED BY <3>1, FormatBoot DEF Bitmapped
  <2> HIDE DEF have, need, p
  <2> QED BY <1>1, <1>4, <2>1, CeilCovers
<1> HIDE DEF p, count, k, need, have
<1>6. MaxChecked <= MaxBitmap * BitsPerUnit /\ MaxChecked <= MaxChain * BitsPerUnit
  BY FormattersAssumption
<1>7. need * BitsPerUnit \in Nat /\ MaxBitmap * BitsPerUnit \in Nat
      /\ MaxChain * BitsPerUnit \in Nat /\ have * p \in Nat /\ MaxChain * p \in Nat
  BY <1>1, <1>4, <1>5, MulNat
<1>8. k \in Nat /\ k < need
  <2>1. j < need * BitsPerUnit BY <1>1, <1>2, <1>4, <1>7
  <2> QED BY <1>1, <1>3, <1>4, <2>1, DivBelow
<1>9. k < MaxBitmap
  <2>1. j < MaxBitmap * BitsPerUnit BY <1>1, <1>2, <1>6, <1>7
  <2> QED BY <1>1, <1>3, <2>1, DivBelow
<1>10. k < MaxChain
  <2>1. j < MaxChain * BitsPerUnit BY <1>1, <1>2, <1>6, <1>7
  <2> QED BY <1>1, <1>3, <2>1, DivBelow
<1>11. MaxChain <= MaxChain * p
  <2>1. \A a \in Nat, b \in Nat \ {0} : a <= a * b OBVIOUS
  <2> QED BY <1>1, <2>1, Zenon
<1>12. k < MaxChain * p BY <1>1, <1>7, <1>8, <1>10, <1>11
<1>13. k < have * p BY <1>4, <1>5, <1>7, <1>8
<1> QED BY <1>8, <1>9, <1>12, <1>13 DEF k, need, p, have

\* What is known of the bitmap.
BitsKnown(f, bs) ==
    /\ Len(bs) \in Nat /\ DOMAIN bs = 1 .. Len(bs)
    /\ \A i \in 1 .. Len(bs) :
          /\ i \in 1 .. Len(f.bitmap) * Geo(f).cluster
          /\ bs[i] = BitsIn(units[UnitOf(Geo(f), f.bitmap, i)])
    /\ refused = {} => \A c \in 2 .. Checked(f) + 1 : BitIndex(c) < Len(bs)

LEMMA BitmapRead ==
    ASSUME UnitsInv, NEW f \in Formats, Frame(f), geo = Geo(f),
           root.bitmap = Entries(f).bitmap, ReadBitmap
    PROVE  /\ BitsKnown(f, bits')
           /\ stage' = IF Len(bits') = 0 THEN <<"upcase", 0>> ELSE <<"crosscheck", 0>>
           /\ refused = {} /\ Len(f.bitmap) <= MaxChain =>
                 found' = found /\ stage' = <<"crosscheck", 0>>
<1> DEFINE g == Geo(f)
           p == g.cluster
           s == f.bitmap
           limit == Min2(Bitmapped(f), MaxBitmap)
           chain == ChainFrom(g, s[1])
           read == ReadRuns(ClusterRuns(g, ChainFrom(g, s[1]).seen), limit)
           n == Len(read.got)
<1>1. root.bitmap[1].first = s[1] /\ root.bitmap[1].len = Bitmapped(f)
  BY DEF Entries, Bitmapped
<1>2. /\ bits' = [i \in DOMAIN read.got |-> BitsIn(read.got[i])]
      /\ stage' = IF read.got = <<>> THEN <<"upcase", 0>> ELSE <<"crosscheck", 0>>
      /\ found' = found \union In("bitmap", ChainFindings(g, chain, {Bitmapped(f)})
             \union If(Bitmapped(f) # CeilDiv(g.count, BitsPerUnit), "data_length")
             \union If(read.end # "none", read.end) \union If(read.got = <<>>, "not read"))
  BY <1>1 DEF ReadBitmap
<1>3. Bitmapped(f) \in Nat /\ MaxBitmap \in Nat /\ limit \in Nat
  <2>1. f.boot.cluster_count \in Nat BY CheckedType
  <2>2. Bitmapped(f) \in Nat BY <2>1, CeilCovers, ExfatVolumeAssumption DEF Bitmapped
  <2> QED BY <2>2, ExfatVolumeAssumption DEF Min2
<1>4. ChainUnits(f, s, limit, read)
  <2> HIDE DEF limit
  <2> QED BY <1>3, FrameChains, ChainUnitsRead
<1> HIDE DEF read
<1>5. /\ n \in Nat /\ DOMAIN read.got = 1 .. n
      /\ \A i \in 1 .. n : i \in 1 .. Len(s) * p /\ read.got[i] = units[UnitOf(g, s, i)]
      /\ refused = {} => n = Min2(Len(s) * p, limit) \/ n = Min2(MaxChain * p, limit)
      /\ read.got = <<>> <=> n = 0
  BY <1>4 DEF ChainUnits
<1>10. refused = {} => read.end = "none" BY <1>4, Zenon DEF ChainUnits
<1>11. bits' = [i \in 1 .. n |-> BitsIn(read.got[i])]
  <2>1. bits' = [i \in DOMAIN read.got |-> BitsIn(read.got[i])] BY <1>2, Zenon
  <2> QED BY <1>5, <2>1
<1>6. DOMAIN bits' = 1 .. n /\ Len(bits') = n
  <2>1. n \in Nat BY <1>5
  <2> HIDE DEF n
  <2> QED BY ONLY <1>11, <2>1
<1>7. \A i \in 1 .. n : i \in 1 .. Len(s) * p /\ bits'[i] = BitsIn(units[UnitOf(g, s, i)])
  <2>1. \A i \in 1 .. n : bits'[i] = BitsIn(read.got[i]) BY <1>11
  <2>2. \A i \in 1 .. n : i \in 1 .. Len(s) * p /\ read.got[i] = units[UnitOf(g, s, i)]
    BY <1>5, Zenon
  <2> HIDE DEF n
  <2> QED BY <2>1, <2>2
<1>8. ASSUME refused = {}, NEW c \in 2 .. Checked(f) + 1 PROVE BitIndex(c) < n
  <2> DEFINE k == BitIndex(c)
             a == Len(s) * p
             b == MaxChain * p
             need == Bitmapped(f)
  <2>1. k \in Nat /\ k < need /\ k < MaxBitmap /\ k < a /\ k < b
    BY BitsCover
  <2>2. n = Min2(a, limit) \/ n = Min2(b, limit) BY <1>5, <1>8
  <2>3. limit = Min2(need, MaxBitmap) OBVIOUS
  <2> HIDE DEF k, a, b, need, n, limit
  <2>4. k < limit BY <2>1, <2>3 DEF Min2
  <2>5. k < Min2(a, limit) /\ k < Min2(b, limit) BY <2>1, <2>4 DEF Min2
  <2> QED BY <2>2, <2>5 DEF k
<1>9. ASSUME refused = {}, Len(s) <= MaxChain
      PROVE  found' = found /\ stage' = <<"crosscheck", 0>>
  <2>1. chain.end = "eoc" /\ Len(chain.seen) = Len(s) BY <1>9, FrameChains, ChainRead
  <2>2. Bitmapped(f) = CeilDiv(g.count, BitsPerUnit) BY FormatGeo DEF Bitmapped
  <2>3. Len(s) = CeilDiv(Bitmapped(f), p) BY <2>2, FormatBoot
  <2> HIDE DEF chain
  <2>4. ChainFindings(g, chain, {Bitmapped(f)}) = {} BY <2>1, <2>3, NoChainFindings
  <2>5. n # 0
    <3>1. 2 \in 2 .. Checked(f) + 1 BY CheckedType
    <3>2. BitIndex(2) < n /\ BitIndex(2) \in Nat BY <1>8, <1>9, <3>1, BitsCover
    <3> QED BY <1>5, <3>2
  <2>6. read.end = "none" /\ read.got # <<>> BY <1>5, <1>9, <1>10, <2>5
  <2> HIDE DEF n
  <2> QED BY <1>2, <2>2, <2>4, <2>6 DEF In, If
<1> QED BY <1>2, <1>5, <1>6, <1>7, <1>8, <1>9 DEF BitsKnown

\* The clusters that are chained but free, of those that are compared.
Stray(f, c) == c \in 2 .. Checked(f) + 1 /\ EntryOf(f, c) # 0 /\ ~ Taken(f, c)
StrayPlaces(f) == {i \in 1 .. Checked(f) : Stray(f, i + 1)}
Numbers(n) == [i \in 1 .. n |-> i + 1]
Strays(f) == Only(Numbers(Checked(f)), StrayPlaces(f))
ListedTrue(f, list) ==
    /\ \A i \in DOMAIN list : Stray(f, list[i])
    /\ refused = {} => list = SubSeq(Strays(f), 1, Min2(Len(Strays(f)), MaxListed))

\* The bit that is looked at is the one that the driver looks at.
LEMMA BitSeen ==
    ASSUME NEW f \in Formats, NEW bs, BitsKnown(f, bs), NEW c \in 2 .. Checked(f) + 1,
           BitIndex(c) < Len(bs)
    PROVE  BitPlace(c) \in bs[BitIndex(c) + 1] <=> Taken(f, c)
<1> DEFINE g == Geo(f)
           k == BitIndex(c)
           p == g.cluster
<1>1. k \in Nat /\ p \in Nat \ {0} BY BitsCover, FormatGeo
<1>2. BitUnit(f, c) = ClusterAt(g, f.bitmap[(k \div p) + 1]) + (k % p)
  BY DEF BitUnit, BitIndex, Geo
<1> HIDE DEF k
<1>3. UnitOf(g, f.bitmap, k + 1) = BitUnit(f, c)
  <2>1. (k + 1) - 1 = k BY <1>1
  <2>2. ((k + 1) - 1) \div p = k \div p /\ ((k + 1) - 1) % p = k % p BY <2>1
  <2> HIDE DEF g
  <2>3. UnitOf(g, f.bitmap, k + 1) = ClusterAt(g, f.bitmap[(k \div p) + 1]) + (k % p)
    BY ONLY <2>2, UnitIs
  <2> QED BY <1>2, <2>3
<1>4. k + 1 \in 1 .. Len(bs) BY <1>1 DEF BitsKnown, k
<1>5. bs[k + 1] = BitsIn(units[BitUnit(f, c)]) BY <1>3, <1>4 DEF BitsKnown
<1> QED BY <1>5 DEF Taken, k

LEMMA Crosschecked ==
    ASSUME UnitsInv, NEW f \in Formats, geo = Geo(f), BitsKnown(f, bits), Crosscheck
    PROVE  /\ ListedTrue(f, listed')
           /\ refused = {} /\ StrayPlaces(f) = {} => listed' = <<>> /\ found' = found
<1> DEFINE g == Geo(f)
           n == Min2(g.active, 1)
           from == EntryAt(g, n, 0)
           last == Min2(g.count, MaxChecked) + 1
           size == EntryAt(g, n, last) - from + 1
           table == Got(from, size)
           compared == {c \in 2 .. last : /\ c \div TableEntries < Len(table)
                                          /\ (c - 2) \div BitsPerUnit < Len(bits)}
           stray(c) ==
               /\ c \in compared /\ EntryIn(table[(c \div TableEntries) + 1], c) # 0
               /\ BitPlace(c) \notin bits[((c - 2) \div BitsPerUnit) + 1]
           places == {i \in 1 .. last - 1 : stray(i + 1)}
           strays == Only([i \in 1 .. last - 1 |-> i + 1], places)
<1>1. /\ listed' = IF table = Unread THEN <<>> ELSE FewOf(strays)
      /\ found' = found \union In("bitmap", IF table = Unread THEN {"FAT unreadable"}
                                            ELSE If(strays # <<>>, "free in the bitmap"))
  BY DEF Crosscheck
<1>2. /\ TableEntries \in Nat \ {0} /\ BitsPerUnit \in Nat \ {0} /\ DeviceLen \in Nat
      /\ MaxListed \in Nat
  BY ExfatVolumeAssumption
<1>3. /\ last = Checked(f) + 1 /\ last - 1 = Checked(f) /\ last \in Nat
      /\ last \in 0 .. g.count + 1 /\ Checked(f) \in Nat
  <2>1. /\ g.count = f.boot.cluster_count /\ g.count \in Nat
        /\ Checked(f) \in Nat /\ Checked(f) <= g.count
    BY FormatGeo, CheckedType
  <2>2. last = Checked(f) + 1 BY <2>1 DEF Checked
  <2> HIDE DEF last
  <2> QED BY <2>1, <2>2
<1>4. /\ n = g.active /\ n \in 0 .. 1 /\ n < g.fats /\ 0 \in 0 .. g.count + 1
  <2>1. g.active \in 0 .. 1 /\ g.active < g.fats /\ g.count \in Nat BY FormatGeo
  <2> QED BY <2>1 DEF Min2
<1> HIDE DEF n, last
<1>5. /\ from \in Nat /\ from = FatAt(g, n) /\ \A c \in 0 .. last : EntryAt(g, n, c) = from + c \div TableEntries
      /\ size = (last \div TableEntries) + 1 /\ from + size <= DeviceLen /\ size \in Nat \ {0}
  <2>1. /\ EntryAt(g, n, 0) = FatAt(g, n) + 0 \div TableEntries /\ FatAt(g, n) \in Nat
    BY <1>4, EntryPlace
  <2>2. 0 \div TableEntries = 0 BY <1>2
  <2>3. from = FatAt(g, n) BY <2>1, <2>2
  <2>4. /\ EntryAt(g, n, last) = FatAt(g, n) + last \div TableEntries
        /\ EntryAt(g, n, last) < DeviceLen
    BY <1>3, <1>4, EntryPlace
  <2>5. last \div TableEntries \in Nat BY <1>2, <1>3, DivNat
  <2>6. ASSUME NEW c \in 0 .. last PROVE EntryAt(g, n, c) = from + c \div TableEntries
    <3>1. c \in 0 .. g.count + 1
      <4>1. g.count \in Nat BY FormatGeo
      <4> QED BY <1>3, <4>1
    <3> QED BY <1>4, <2>3, <3>1, EntryPlace
  <2> DEFINE at == FatAt(g, n)
             q == last \div TableEntries
  <2> HIDE DEF at, q
  <2>7. size = (at + q) - at + 1 BY <2>3, <2>4 DEF at, q
  <2>8. at \in Nat /\ q \in Nat /\ at + q < DeviceLen BY <2>1, <2>4, <2>5 DEF at, q
  <2>9. size = q + 1 BY <2>7, <2>8
  <2> HIDE DEF size
  <2> QED BY <1>2, <2>3, <2>6, <2>8, <2>9 DEF at, q
<1> HIDE DEF from, size
<1>6. /\ refused = {} => table # Unread
      /\ table # Unread => /\ Len(table) = size
                           /\ \A i \in 1 .. size : table[i] = units[from + i - 1]
  BY <1>5, ReadUnits
<1> HIDE DEF table
<1>7. ASSUME table # Unread, NEW c \in 2 .. last
      PROVE  /\ c \div TableEntries < Len(table)
             /\ EntryIn(table[(c \div TableEntries) + 1], c) = EntryOf(f, c)
             /\ BitIndex(c) < Len(bits) => (BitPlace(c) \in bits[BitIndex(c) + 1] <=> Taken(f, c))
  <2> DEFINE q == c \div TableEntries
  <2>1. q \in Nat /\ q < size
    <3>1. \A a, b \in Nat, d \in Nat \ {0} : a <= b => a \div d <= b \div d
      <4> SUFFICES ASSUME NEW a \in Nat, NEW b \in Nat, NEW d \in Nat \ {0}, a <= b
                   PROVE  a \div d <= b \div d
        OBVIOUS
      <4>1. a \div d \in Nat /\ b \div d \in Nat BY DivNat
      <4>2. b < ((b \div d) + 1) * d
        <5> DEFINE e == b \div d
        <5>1. b = e * d + (b % d) /\ b % d \in 0 .. d - 1 /\ e \in Nat OBVIOUS
        <5>2. (e + 1) * d = e * d + d BY <5>1
        <5>3. e * d \in Nat BY <5>1, MulNat
        <5> HIDE DEF e
        <5> QED BY <5>1, <5>2, <5>3 DEF e
      <4>3. (b \div d) + 1 \in Nat BY <4>1
      <4>4. a < ((b \div d) + 1) * d
        <5>1. ((b \div d) + 1) * d \in Nat BY <4>3, MulNat
        <5> QED BY <4>2, <5>1
      <4>5. a \div d < (b \div d) + 1 BY <4>3, <4>4, DivBelow
      <4> QED BY <4>1, <4>5
    <3>2. c \in Nat /\ c <= last BY <1>3
    <3>3. q \in Nat /\ q <= last \div TableEntries /\ last \div TableEntries \in Nat
      BY <1>2, <1>3, <3>1, <3>2, DivNat
    <3> QED BY <1>5, <3>3
  <2>2. c \in 0 .. last /\ c \in 2 .. Checked(f) + 1 BY <1>3
  <2>3. EntryAt(g, n, c) = from + q BY <1>5, <2>2
  <2>4. EntryOf(f, c) = EntryIn(units[EntryAt(g, n, c)], c) BY DEF EntryOf, Geo, n
  <2> HIDE DEF q
  <2>5. table[q + 1] = units[from + q]
    <3>1. q + 1 \in 1 .. size /\ (from + (q + 1)) - 1 = from + q BY <1>5, <2>1
    <3>2. table[q + 1] = units[from + (q + 1) - 1] BY <1>6, <1>7, <3>1
    <3>3. from + ((q + 1) - 1) = from + q BY <1>5, <2>1
    <3> QED BY <3>2, <3>3
  <2>6. BitIndex(c) < Len(bits) => (BitPlace(c) \in bits[BitIndex(c) + 1] <=> Taken(f, c))
    BY <2>2, BitSeen
  <2>7. q < Len(table) BY <1>6, <1>7, <2>1
  <2> QED BY <2>3, <2>4, <2>5, <2>6, <2>7 DEF q
<1>8. ASSUME table # Unread, NEW i \in 1 .. Checked(f)
      PROVE  /\ stray(i + 1) => Stray(f, i + 1)
             /\ refused = {} => (Stray(f, i + 1) => stray(i + 1))
  <2> DEFINE c == i + 1
  <2>1. c \in 2 .. last /\ c \in 2 .. Checked(f) + 1 BY <1>3
  <2>2. BitIndex(c) = (c - 2) \div BitsPerUnit BY DEF BitIndex
  <2>3. /\ c \div TableEntries < Len(table)
        /\ EntryIn(table[(c \div TableEntries) + 1], c) = EntryOf(f, c)
        /\ BitIndex(c) < Len(bits) => (BitPlace(c) \in bits[BitIndex(c) + 1] <=> Taken(f, c))
    BY <1>7, <1>8, <2>1
  <2>4. refused = {} => BitIndex(c) < Len(bits) BY <2>1 DEF BitsKnown
  <2> HIDE DEF c
  <2>5. c \in compared <=> BitIndex(c) < Len(bits) BY <2>1, <2>2, <2>3
  <2> HIDE DEF compared
  <2>6. stray(c) <=> BitIndex(c) < Len(bits) /\ EntryOf(f, c) # 0 /\ ~ Taken(f, c)
    BY <2>2, <2>3, <2>5
  <2> HIDE DEF stray
  <2> QED BY <2>1, <2>4, <2>6 DEF Stray, c
<1> HIDE DEF stray
<1>9. CASE table = Unread
  <2>1. listed' = <<>> BY <1>1, <1>9
  <2> QED BY <1>6, <1>9, <2>1 DEF ListedTrue
<1>10. CASE table # Unread
  <2> DEFINE all == Strays(f)
             few(list) == SubSeq(list, 1, Min2(MaxListed, Len(list)))
  <2>1. strays = Only(Numbers(Checked(f)), places) BY <1>3 DEF Numbers
  <2>2. places \in SUBSET (1 .. Checked(f)) /\ places \subseteq StrayPlaces(f)
        /\ (refused = {} => places = StrayPlaces(f))
    BY <1>3, <1>8, <1>10 DEF StrayPlaces
  <2> HIDE DEF places, strays
  <2>3. /\ DOMAIN strays = 1 .. Cardinality(places) /\ Cardinality(places) \in Nat
        /\ \A k \in 1 .. Cardinality(places) :
              Nth(places, k) \in places /\ strays[k] = Numbers(Checked(f))[Nth(places, k)]
    BY <1>3, <2>1, <2>2, OnlyFacts, RankFacts
  <2>4. \A k \in 1 .. Cardinality(places) : strays[k] \in Nat /\ Stray(f, strays[k])
    <3> SUFFICES ASSUME NEW k \in 1 .. Cardinality(places)
                 PROVE  strays[k] \in Nat /\ Stray(f, strays[k])
      OBVIOUS
    <3> DEFINE i == Nth(places, k)
    <3>1. i \in StrayPlaces(f) /\ strays[k] = Numbers(Checked(f))[i] BY <2>2, <2>3
    <3> HIDE DEF i
    <3>2. i \in 1 .. Checked(f) /\ Stray(f, i + 1) BY <3>1 DEF StrayPlaces
    <3>3. strays[k] = i + 1 BY <3>1, <3>2 DEF Numbers
    <3> QED BY <3>2, <3>3
  <2>5. strays \in Seq(Nat) /\ Len(strays) = Cardinality(places)
    <3> DEFINE m == Cardinality(places)
    <3>1. strays = [k \in 1 .. m |-> strays[k]] BY <2>1 DEF Only
    <3>2. m \in Nat /\ \A k \in 1 .. m : strays[k] \in Nat BY <2>3, <2>4
    <3> HIDE DEF m
    <3>3. strays \in [1 .. m -> Nat] BY <3>1, <3>2
    <3>4. strays \in Seq(Nat) /\ Len(strays) = m BY <3>2, <3>3
    <3> QED BY <3>4 DEF m
  <2>6. listed' = few(strays) BY <1>1, <1>10 DEF FewOf
  <2>7. \A i \in DOMAIN few(strays) : i \in 1 .. Len(strays) /\ few(strays)[i] = strays[i]
    <3> DEFINE m == Min2(MaxListed, Len(strays))
    <3>1. m \in Nat /\ m <= Len(strays) /\ Len(strays) \in Nat BY <1>2, <2>5 DEF Min2
    <3> HIDE DEF m
    <3>2. SubSeq(strays, 1, m) = [i \in 1 .. m |-> strays[i]] BY <2>5, <3>1
    <3>3. \A i \in DOMAIN SubSeq(strays, 1, m) :
             i \in 1 .. Len(strays) /\ SubSeq(strays, 1, m)[i] = strays[i]
      BY <3>1, <3>2
    <3> QED BY <3>3 DEF m
  <2>8. \A i \in DOMAIN listed' : Stray(f, listed'[i]) BY <2>4, <2>5, <2>6, <2>7
  <2>9. ASSUME refused = {} PROVE listed' = SubSeq(all, 1, Min2(Len(all), MaxListed))
    <3>1. strays = all BY <2>1, <2>2, <2>9 DEF Strays
    <3>2. Len(all) \in Nat BY <2>5, <3>1
    <3>3. Min2(MaxListed, Len(all)) = Min2(Len(all), MaxListed) BY <1>2, <3>2 DEF Min2
    <3> QED BY <2>6, <3>1, <3>3
  <2>10. ASSUME refused = {}, StrayPlaces(f) = {} PROVE listed' = <<>> /\ found' = found
    <3>1. strays = <<>>
      <4>1. places = {} BY <2>2, <2>10
      <4>2. Cardinality(places) = 0 BY <4>1, FS_EmptySet
      <4>3. Len(strays) = 0 BY <2>3, <2>5, <4>2
      <4> QED BY <2>5, <4>3
    <3>2. few(<<>>) = <<>> BY <1>2 DEF Min2
    <3>3. If(strays # <<>>, "free in the bitmap") = {} BY <3>1 DEF If
    <3>4. listed' = <<>> BY <2>6, <3>1, <3>2
    <3> QED BY <1>1, <1>10, <3>3, <3>4 DEF In
  <2> QED BY <2>8, <2>9, <2>10 DEF ListedTrue
<1> QED BY <1>9, <1>10

---------------------------------------------------------------------------
(* What the reader knows of a volume that stands, as long as nobody wrote. *)

Known(f) ==
    /\ stage[1] = "bitmap" => RootKnown(f, root.bitmap)
    /\ stage[1] = "crosscheck" => BitsKnown(f, bits)
    /\ stage[1] \in {"upcase", "open"} => ListedTrue(f, listed)
Later == {"bitmap", "crosscheck", "upcase", "open"}

CrossInv ==
    /\ stage[1] \notin {"upcase", "open"} => listed = <<>>
    /\ calm /\ stage[1] # "closed" => UnitAt(0) # Junk
    /\ calm => \A f \in Formats : Standing(f) => Known(f)

LEMMA InitCross == Init => CrossInv
BY DEF Init, CrossInv, Known

\* The geometry in use is that of the volume.
LEMMA KnownGeo ==
    ASSUME Inv, CrossInv, calm, PastBoot, NEW f \in Formats, Standing(f)
    PROVE  geo = Geo(f)
<1>1. UnitAt(0) # Junk BY DEF CrossInv, PastBoot
<1>2. UnitAt(0) = units[0] BY <1>1 DEF UnitAt
<1>3. UnitAt(0) = [boot |-> f.boot] BY <1>2, StandingBoot
<1>4. BootOf([boot |-> f.boot]) = f.boot BY DEF BootOf, Is
<1>5. geo = FromBoot(BootOf(UnitAt(0))) BY DEF Inv, ReadInv
<1> QED BY <1>3, <1>4, <1>5 DEF Geo

\* Who reads changes nothing that is true of the device.
LEMMA SameDevice ==
    ASSUME UNCHANGED disk, NEW f \in Formats
    PROVE  /\ Standing(f)' = Standing(f)
           /\ RootKnown(f, root.bitmap)' = RootKnown(f, root'.bitmap)
           /\ BitsKnown(f, bits)' = BitsKnown(f, bits')
           /\ ListedTrue(f, listed)' = ListedTrue(f, listed')
<1>1. units' = units /\ refused' = refused BY DEF disk
<1>2. Standing(f)' = Standing(f) BY <1>1 DEF Standing, Kept, EntryOf
<1>3. RootKnown(f, root.bitmap)' = RootKnown(f, root'.bitmap) BY <1>1 DEF RootKnown
<1>4. BitsKnown(f, bits)' = BitsKnown(f, bits') BY <1>1 DEF BitsKnown
<1>5. ListedTrue(f, listed)' = ListedTrue(f, listed')
  BY <1>1 DEF ListedTrue, Strays, StrayPlaces, Stray, EntryOf, Taken
<1> QED BY <1>2, <1>3, <1>4, <1>5

\* A step of the reader that learns nothing of the root directory or the bitmap.
LEMMA EarlyCross ==
    ASSUME CrossInv, UNCHANGED <<disk, calm, listed>>, stage'[1] \notin Later,
           stage[1] \notin Later, stage[1] = "closed" => UnitAt(0) # Junk
    PROVE  CrossInv'
<1>1. \A f \in Formats : Known(f)' BY DEF Known, Later
<1>2. calm => UnitAt(0) # Junk BY DEF CrossInv
<1>3. UnitAt(0)' = UnitAt(0) BY DEF UnitAt, Got, disk
<1>4. listed' = <<>> BY DEF CrossInv, Later
<1> QED BY <1>1, <1>2, <1>3, <1>4 DEF CrossInv

\* A step that learns something.
LEMMA LateCross ==
    ASSUME CrossInv, UNCHANGED <<disk, calm>>, stage[1] # "closed",
           stage'[1] \notin {"upcase", "open"} => listed' = <<>>,
           calm => \A f \in Formats : Standing(f) =>
                       /\ stage'[1] = "bitmap" => RootKnown(f, root'.bitmap)
                       /\ stage'[1] = "crosscheck" => BitsKnown(f, bits')
                       /\ stage'[1] \in {"upcase", "open"} => ListedTrue(f, listed')
    PROVE  CrossInv'
<1>1. ASSUME calm, NEW f \in Formats, Standing(f)' PROVE Known(f)'
  <2>1. Standing(f) BY <1>1, SameDevice
  <2> QED BY <1>1, <2>1, SameDevice DEF Known
<1>2. calm => UnitAt(0) # Junk BY DEF CrossInv
<1>3. UnitAt(0)' = UnitAt(0) BY DEF UnitAt, Got, disk
<1> QED BY <1>1, <1>2, <1>3 DEF CrossInv

\* Nothing is listed when nothing was refused only if there is nothing to list.
LEMMA NothingListed ==
    ASSUME NEW f \in Formats, refused # {}
    PROVE  ListedTrue(f, <<>>)
BY DEF ListedTrue

LEMMA NextCross == Inv /\ CrossInv /\ [Next]_vars => CrossInv'
<1> SUFFICES ASSUME Inv, CrossInv, [Next]_vars PROVE CrossInv'
  OBVIOUS
<1>1. CASE Probe
  <2>1. UnitAt(0) # Junk
    <3>1. Score(BootOf(Junk)) = 0 BY DEF BootOf, Is, Junk, NoBoot, Score
    <3>2. Score(BootOf(UnitAt(0))) > 0 BY <1>1 DEF Probe
    <3> QED BY <3>1, <3>2
  <2> QED BY <1>1, <2>1, EarlyCross DEF Probe, Later
<1>2. CASE ReadBoot BY <1>2, EarlyCross DEF ReadBoot, Later
<1>3. CASE ReadRegion
  <2>1. stage'[1] \in {"region", "diff"} BY <1>3 DEF ReadRegion
  <2> QED BY <1>3, <2>1, EarlyCross DEF ReadRegion, Later
<1>4. CASE Compare
  <2>1. CASE geo.trusted
    <3>1. stage'[1] \in {"table", "root"} BY <1>4, <2>1 DEF Compare, TableStage
    <3> QED BY <1>4, <3>1, EarlyCross DEF Compare, Later
  <2>2. CASE ~ geo.trusted
    <3>1. ASSUME calm, NEW f \in Formats, Standing(f) PROVE FALSE
      <4>1. geo = Geo(f) BY <1>4, <3>1, KnownGeo DEF Compare, PastBoot
      <4> QED BY <2>2, <4>1, FormatBoot
    <3>2. stage'[1] = "open" /\ stage[1] = "diff" BY <1>4, <2>2 DEF Compare
    <3> QED BY <1>4, <3>1, <3>2, LateCross DEF Compare
  <2> QED BY <2>1, <2>2
<1>5. CASE ReadTable
  <2>1. stage'[1] \in {"table", "root"} BY <1>5 DEF ReadTable, TableStage
  <2> QED BY <1>5, <2>1, EarlyCross DEF ReadTable, Later
<1>6. CASE ReadRoot
  <2>1. ASSUME calm, NEW f \in Formats, Standing(f) PROVE RootKnown(f, root'.bitmap)
    <3>1. geo = Geo(f) BY <1>6, <2>1, KnownGeo DEF ReadRoot, PastBoot
    <3> QED BY <1>6, <2>1, <3>1, StandingFrame, RootRead DEF Inv
  <2>2. /\ stage'[1] = "bitmap" /\ stage[1] = "root" /\ listed' = listed
        /\ UNCHANGED <<disk, calm>>
    BY <1>6 DEF ReadRoot
  <2>3. listed' = <<>> BY <2>2 DEF CrossInv
  <2> QED BY <2>1, <2>2, <2>3, LateCross
<1>7. CASE ReadBitmap
  <2>1. /\ stage[1] = "bitmap" /\ listed' = listed /\ root.bitmap # <<>>
        /\ UNCHANGED <<disk, calm>>
    BY <1>7 DEF ReadBitmap
  <2>2. listed' = <<>> BY <2>1 DEF CrossInv
  <2>3. ASSUME calm, NEW f \in Formats, Standing(f)
        PROVE  /\ BitsKnown(f, bits')
               /\ stage' = <<"upcase", 0>> \/ stage' = <<"crosscheck", 0>>
               /\ stage' = <<"upcase", 0>> => refused # {}
    <3>1. geo = Geo(f) BY <2>1, <2>3, KnownGeo DEF PastBoot
    <3>2. root.bitmap = Entries(f).bitmap
      <4>1. RootKnown(f, root.bitmap) BY <2>1, <2>3 DEF CrossInv, Known
      <4> QED BY <2>1, <4>1 DEF RootKnown
    <3>3. /\ BitsKnown(f, bits')
          /\ stage' = IF Len(bits') = 0 THEN <<"upcase", 0>> ELSE <<"crosscheck", 0>>
      BY <1>7, <2>3, <3>1, <3>2, StandingFrame, BitmapRead DEF Inv
    <3>4. Len(bits') = 0 => refused # {}
      <4>1. 2 \in 2 .. Checked(f) + 1 BY CheckedType
      <4>2. BitIndex(2) \in Nat BY <4>1, BitsCover
      <4>3. refused = {} => BitIndex(2) < Len(bits') BY <3>3, <4>1 DEF BitsKnown
      <4> QED BY <4>2, <4>3
    <3> QED BY <3>3, <3>4
  <2>4. ASSUME calm, NEW f \in Formats, Standing(f)
        PROVE  /\ stage'[1] = "bitmap" => RootKnown(f, root'.bitmap)
               /\ stage'[1] = "crosscheck" => BitsKnown(f, bits')
               /\ stage'[1] \in {"upcase", "open"} => ListedTrue(f, listed')
    <3>1. CASE stage' = <<"upcase", 0>>
      <4>1. stage'[1] = "upcase" BY <3>1
      <4>2. ListedTrue(f, listed') BY <2>2, <2>3, <2>4, <3>1, NothingListed
      <4> QED BY <4>1, <4>2
    <3>2. CASE stage' = <<"crosscheck", 0>>
      <4>1. stage'[1] = "crosscheck" BY <3>2
      <4> QED BY <2>3, <2>4, <4>1
    <3> QED BY <2>3, <2>4, <3>1, <3>2
  <2>5. stage'[1] \notin {"upcase", "open"} => listed' = <<>> BY <2>2
  <2>6. stage[1] # "closed" BY <2>1
  <2> QED BY <2>1, <2>4, <2>5, <2>6, LateCross
<1>8. CASE NoBitmap
  <2>1. /\ stage[1] = "bitmap" /\ stage'[1] = "upcase" /\ listed' = listed /\ root.bitmap = <<>>
        /\ UNCHANGED <<disk, calm>>
    BY <1>8 DEF NoBitmap, shown
  <2>2. listed' = <<>> BY <2>1 DEF CrossInv
  <2>3. ASSUME calm, NEW f \in Formats, Standing(f) PROVE ListedTrue(f, listed')
    <3>1. RootKnown(f, root.bitmap) BY <2>1, <2>3 DEF CrossInv, Known
    <3>2. Entries(f).bitmap # <<>> BY DEF Entries
    <3>3. refused # {} BY <2>1, <3>1, <3>2 DEF RootKnown
    <3> QED BY <2>2, <3>3, NothingListed
  <2> QED BY <2>1, <2>2, <2>3, LateCross
<1>9. CASE Crosscheck
  <2>1. stage[1] = "crosscheck" /\ stage'[1] = "upcase" /\ UNCHANGED <<disk, calm>>
    BY <1>9 DEF Crosscheck
  <2>2. ASSUME calm, NEW f \in Formats, Standing(f) PROVE ListedTrue(f, listed')
    <3>1. geo = Geo(f) BY <2>1, <2>2, KnownGeo DEF PastBoot
    <3>2. BitsKnown(f, bits) BY <2>1, <2>2 DEF CrossInv, Known
    <3> QED BY <1>9, <3>1, <3>2, Crosschecked DEF Inv
  <2> QED BY <2>1, <2>2, LateCross
<1>10. ASSUME stage[1] \in {"upcase", "open"}, stage'[1] = "open",
              UNCHANGED <<disk, calm, listed>>
       PROVE  CrossInv'
  <2>1. \A f \in Formats : calm /\ Standing(f) => ListedTrue(f, listed')
    BY <1>10 DEF CrossInv, Known
  <2> QED BY <1>10, <2>1, LateCross
<1>11. CASE ReadUpcase BY <1>10, <1>11 DEF ReadUpcase
<1>12. CASE NoUpcase BY <1>10, <1>12 DEF NoUpcase, shown
<1>13. CASE ExpandTable BY <1>10, <1>13 DEF ExpandTable
<1>14. CASE Close
  <2>1. stage'[1] = "closed" /\ listed' = <<>> BY <1>14 DEF Close
  <2> QED BY <2>1 DEF CrossInv, Known
<1>15. CASE Others
  <2>1. Unseen
    BY <1>15 DEF Others, BeginFormat, WritePiece, Mount, Unmount, MarkCluster, LinkCluster,
                 Damage, Refuse
  <2>2. (calm' => stage'[1] = "closed") /\ stage' = stage /\ listed' = listed
    BY <2>1 DEF Unseen, shown
  <2> QED BY <2>2 DEF CrossInv, Known
<1>16. CASE UNCHANGED vars
  <2>1. UNCHANGED <<disk, calm, stage, root, bits, listed>> BY <1>16 DEF vars, shown
  <2>2. \A f \in Formats : Known(f)' <=> Known(f)
    <3> SUFFICES ASSUME NEW f \in Formats PROVE Known(f)' <=> Known(f)
      OBVIOUS
    <3> QED BY <2>1, SameDevice DEF Known
  <2>3. \A f \in Formats : Standing(f)' = Standing(f) BY <2>1, SameDevice
  <2>4. UnitAt(0)' = UnitAt(0) BY <2>1 DEF UnitAt, Got, disk
  <2> QED BY <2>1, <2>2, <2>3, <2>4 DEF CrossInv
<1> QED
  BY <1>1, <1>2, <1>3, <1>4, <1>5, <1>6, <1>7, <1>8, <1>9, <1>11, <1>12, <1>13, <1>14,
     <1>15, <1>16, Zenon DEF Next

LEMMA CrossFollows == CrossInv => CrosscheckTrue
<1> SUFFICES ASSUME CrossInv, NEW f \in Formats, calm, stage[1] \in {"upcase", "open"}, Standing(f)
             PROVE  LET checked == Min2(f.boot.cluster_count, MaxChecked)
                        stray(c) == c \in 2 .. checked + 1 /\ EntryOf(f, c) # 0 /\ ~ Taken(f, c)
                        strays == Only([i \in 1 .. checked |-> i + 1],
                                       {i \in 1 .. checked : stray(i + 1)})
                    IN  /\ \A i \in DOMAIN listed : stray(listed[i])
                        /\ refused = {} => listed = SubSeq(strays, 1, Min2(Len(strays), MaxListed))
  BY Zenon DEF CrosscheckTrue
<1>1. ListedTrue(f, listed) BY DEF CrossInv, Known
<1> QED BY <1>1, Zenon DEF ListedTrue, Strays, StrayPlaces, Numbers, Stray, Checked

\* In every run, while nobody writes, the reader of a volume whose structure stands knows of
\* its bitmap what it was read from, wherever its pieces lie; so the clusters it shows as
\* chained but free are, and they are the first ones, for every set of volumes, every
\* fragmentation of their bitmaps and every limit (cluster_runs, read_runs,
\* bitmap_fat_crosscheck).
THEOREM AlwaysCrosschecked == Spec => []CrosscheckTrue
<1>1. Init => Inv /\ CrossInv BY InvInit, InitCross
<1>2. Inv /\ CrossInv /\ [Next]_vars => (Inv /\ CrossInv)' BY InvNext, NextCross
<1> QED BY <1>1, <1>2, CrossFollows, PTL DEF Spec

---------------------------------------------------------------------------
(* Every unit of the device belongs to one piece of a volume.              *)

MainRegion == <<"region", 0>>
MainSum == <<"sum", 0>>
BackupRegion == <<"region", BackupBootSector>>
BackupSum == <<"sum", BackupBootSector>>
Tables == <<"tables", 0>>
TheHeap == <<"heap", 0>>

LEMMA PieceNames ==
    ASSUME NEW f
    PROVE  /\ Pieces(f) = {MainRegion, MainSum, BackupRegion, BackupSum, Tables, TheHeap}
           /\ MainRegion[1] = "region" /\ MainRegion[2] = 0
           /\ MainSum[1] = "sum" /\ MainSum[2] = 0
           /\ BackupRegion[1] = "region" /\ BackupRegion[2] = BackupBootSector
           /\ BackupSum[1] = "sum" /\ BackupSum[2] = BackupBootSector
           /\ Tables[1] = "tables" /\ TheHeap[1] = "heap"
           /\ BackupBootSector # 0
<1>1. BackupBootSector # 0
  BY ExfatVolumeAssumption DEF BackupBootSector, BootRegionSectors
<1>2. {"region", "sum"} \X {0, BackupBootSector}
        = {MainRegion, MainSum, BackupRegion, BackupSum}
  BY DEF MainRegion, MainSum, BackupRegion, BackupSum
<1> QED BY <1>1, <1>2
      DEF Pieces, MainRegion, MainSum, BackupRegion, BackupSum, Tables, TheHeap

\* What lies where: a region, its sum, the same again, the tables, the heap.
Area(f) == BootChecksumSector * Geo(f).sector
Region(f) == Area(f) + Geo(f).sector
HeapStart(f) == SectorAt(Geo(f), Geo(f).heap)
ZoneOf(f, x) ==
    IF x < Area(f) THEN MainRegion
    ELSE IF x < Region(f) THEN MainSum
    ELSE IF x < Region(f) + Area(f) THEN BackupRegion
    ELSE IF x < 2 * Region(f) THEN BackupSum
    ELSE IF x < HeapStart(f) THEN Tables ELSE TheHeap

LEMMA Layout ==
    ASSUME NEW f \in Formats
    PROVE  LET g == Geo(f)
           IN  /\ g.sector \in Nat \ {0} /\ g.sector = f.boot.bytes_per_sector
               /\ Area(f) \in Nat \ {0} /\ Region(f) \in Nat \ {0}
               /\ Region(f) = Area(f) + g.sector /\ BootRegionSectors * g.sector = Region(f)
               /\ SectorAt(g, 0) = 0 /\ SectorAt(g, 0 + BootChecksumSector) = Area(f)
               /\ SectorAt(g, BackupBootSector) = Region(f)
               /\ SectorAt(g, BackupBootSector + BootChecksumSector) = Region(f) + Area(f)
               /\ FatAt(g, 0) \in Nat /\ FatAt(g, g.fats) \in Nat /\ HeapStart(f) \in Nat
               /\ 2 * Region(f) <= FatAt(g, 0) /\ FatAt(g, 0) <= FatAt(g, g.fats)
               /\ FatAt(g, g.fats) <= HeapStart(f) /\ HeapStart(f) <= DeviceLen
               /\ DeviceLen \in Nat
<1> DEFINE g == Geo(f)
           s == g.sector
           n == BootChecksumSector
           all == g.fats * g.fat_length + g.fat_offset
<1>1. /\ s \in Nat \ {0} /\ g.fats \in 1 .. 2 /\ g.fat_length \in Nat \ {0}
      /\ g.fat_offset \in Nat /\ g.heap \in Nat /\ g.volume \in Nat /\ g.count \in Nat
      /\ g.per \in Nat
  BY FormatGeo
<1>2. /\ g.fat_offset >= 2 * BootRegionSectors
      /\ g.heap >= g.fat_length * g.fats + g.fat_offset
      /\ g.count * g.per + g.heap <= g.volume /\ g.volume * s <= DeviceLen
  BY FormatBoot DEF SelfConsistent, SectorAt
<1>3. /\ n \in Nat \ {0} /\ BootRegionSectors = n + 1 /\ BackupBootSector = n + 1
      /\ DeviceLen \in Nat
  BY ExfatVolumeAssumption DEF BootChecksumSector, BootRegionSectors, BackupBootSector
<1>4. s = f.boot.bytes_per_sector
  <2>1. g.trusted BY FormatBoot
  <2> QED BY <2>1 DEF Geo, FromBoot
<1>5. /\ FatAt(g, 0) = (0 * g.fat_length + g.fat_offset) * s
      /\ FatAt(g, g.fats) = all * s /\ HeapStart(f) = g.heap * s
      /\ SectorAt(g, 0) = 0 * s /\ SectorAt(g, 0 + n) = (0 + n) * s
      /\ SectorAt(g, BackupBootSector) = (n + 1) * s
      /\ SectorAt(g, BackupBootSector + n) = (n + 1 + n) * s
      /\ Area(f) = n * s /\ Region(f) = n * s + s
  BY <1>3 DEF FatAt, SectorAt, HeapStart, Area, Region
<1> HIDE DEF g, n
<1>6. g.fats * g.fat_length \in Nat /\ g.count * g.per \in Nat BY <1>1, MulNat
<1>7. /\ all \in Nat /\ g.fat_offset <= all /\ all <= g.heap /\ g.heap <= g.volume
  <2> DEFINE t == g.fats * g.fat_length
             h == g.count * g.per
  <2>1. t \in Nat /\ h \in Nat /\ all = t + g.fat_offset BY <1>6
  <2>2. g.heap >= t + g.fat_offset /\ h + g.heap <= g.volume
    BY <1>1, <1>2
  <2> HIDE DEF t, h, all
  <2> QED BY <1>1, <2>1, <2>2
<1> HIDE DEF all, s
<1>8. /\ g.fat_offset * s <= all * s /\ all * s <= g.heap * s
      /\ g.heap * s <= g.volume * s
      /\ (2 * (n + 1)) * s <= g.fat_offset * s
  <2>1. 2 * (n + 1) \in Nat /\ 2 * (n + 1) <= g.fat_offset /\ s \in Nat BY <1>1, <1>2, <1>3
  <2> QED BY <1>1, <1>7, <2>1, Products
<1>9. /\ g.fat_offset * s \in Nat /\ all * s \in Nat /\ g.heap * s \in Nat
      /\ g.volume * s \in Nat /\ n * s \in Nat \ {0}
  <2>1. n * s \in Nat \ {0} BY <1>1, <1>3
  <2> QED BY <1>1, <1>7, <2>1, MulNat
<1>10. /\ (n + 1) * s = n * s + s /\ (2 * (n + 1)) * s = 2 * (n * s + s)
       /\ (n + 1 + n) * s = (n * s + s) + n * s /\ 0 * s = 0 /\ (0 + n) * s = n * s
       /\ (0 * g.fat_length + g.fat_offset) * s = g.fat_offset * s
  <2>1. \A a, b \in Nat : /\ (a + 1) * b = a * b + b /\ (2 * (a + 1)) * b = 2 * (a * b + b)
                          /\ (a + 1 + a) * b = (a * b + b) + a * b
                          /\ 0 * b = 0 /\ 0 + a = a
    OBVIOUS
  <2>2. 0 * g.fat_length + g.fat_offset = g.fat_offset BY <1>1
  <2>3. n \in Nat /\ s \in Nat BY <1>1, <1>3
  <2>4. /\ (n + 1) * s = n * s + s /\ (2 * (n + 1)) * s = 2 * (n * s + s)
        /\ (n + 1 + n) * s = (n * s + s) + n * s /\ 0 * s = 0 /\ 0 + n = n
    BY <2>1, <2>3, Zenon
  <2> QED BY <2>2, <2>4
<1> DEFINE area == n * s
<1>11. /\ area \in Nat \ {0} /\ 2 * (area + s) <= g.fat_offset * s
       /\ (n + 1) * s = area + s /\ (n + 1 + n) * s = (area + s) + area
  BY <1>8, <1>10, <1>9
<1> HIDE DEF area
<1>12. /\ Area(f) = area /\ Region(f) = area + s /\ SectorAt(g, 0) = 0
       /\ SectorAt(g, 0 + n) = area /\ SectorAt(g, BackupBootSector) = area + s
       /\ SectorAt(g, BackupBootSector + n) = (area + s) + area
       /\ FatAt(g, 0) = g.fat_offset * s /\ BootRegionSectors * s = area + s
  BY <1>3, <1>5, <1>10, <1>11 DEF area
<1> QED BY <1>1, <1>2, <1>3, <1>4, <1>5, <1>8, <1>9, <1>11, <1>12 DEF s, g, n

\* What is written where.
LEMMA RegionPiece ==
    ASSUME NEW f \in Formats, NEW n \in {0, BackupBootSector}, NEW from, from = SectorAt(Geo(f), n)
    PROVE  LET written == Written[f][<<"region", n>>]
           IN  /\ DOMAIN written = from .. from + Area(f) - 1
               /\ \A x \in DOMAIN written : written[x] = BootArea(f.boot)[x - from + 1]
<1> DEFINE piece == <<"region", n>>
           area == BootArea(f.boot)
<1>1. Geo(f).sector = f.boot.bytes_per_sector /\ f.boot.bytes_per_sector \in Nat BY Layout
<1>2. Len(area) = Area(f) BY <1>1, AreaType DEF Area
<1>3. piece \in Pieces(f) /\ piece[1] = "region" /\ piece[2] = n BY DEF Pieces
<1>4. Written[f][piece] = At(from, area)
  <2>1. Written[f][piece] = Piece(f, piece) BY <1>3 DEF Written
  <2> QED BY <1>3, <2>1 DEF Piece, Geo
<1> HIDE DEF area, piece
<1> QED BY <1>2, <1>4 DEF At, area, piece

LEMMA SumPiece ==
    ASSUME NEW f \in Formats, NEW n \in {0, BackupBootSector}, NEW from \in Nat,
           from = SectorAt(Geo(f), n + BootChecksumSector)
    PROVE  LET written == Written[f][<<"sum", n>>]
           IN  /\ DOMAIN written = from .. from + Geo(f).sector - 1
               /\ \A x \in DOMAIN written : written[x] = SumOf(f)
<1> DEFINE piece == <<"sum", n>>
           sums == SumSector(f.boot)
<1>1. Geo(f).sector = f.boot.bytes_per_sector /\ f.boot.bytes_per_sector \in Nat BY Layout
<1>2. Len(sums) = Geo(f).sector /\ sums \in Seq({SumOf(f)}) BY <1>1, AreaType DEF SumOf
<1>3. piece \in Pieces(f) /\ piece[1] = "sum" /\ piece[2] = n BY DEF Pieces
<1>4. Written[f][piece] = At(from, sums)
  <2>1. Written[f][piece] = Piece(f, piece) BY <1>3 DEF Written
  <2> QED BY <1>3, <2>1 DEF Piece, Geo
<1> HIDE DEF sums, piece
<1>5. \A x \in DOMAIN At(from, sums) : At(from, sums)[x] \in {SumOf(f)} BY <1>2, AtHolds
<1>6. DOMAIN At(from, sums) = from .. from + Geo(f).sector - 1 BY <1>2 DEF At
<1> QED BY <1>4, <1>5, <1>6 DEF piece

\* A unit of the tables.
TableBefore(f, x) ==
    ((x - FatAt(Geo(f), 0)) % SectorAt(Geo(f), Geo(f).fat_length)) * TableEntries
TableUnit(f, x) ==
    [fat |-> [i \in 1 .. TableEntries |-> FreshEntry(f, TableBefore(f, x) + i - 1)]]

LEMMA TablesPiece ==
    ASSUME NEW f \in Formats
    PROVE  LET written == Written[f][Tables]
           IN  /\ DOMAIN written = FatAt(Geo(f), 0) .. FatAt(Geo(f), Geo(f).fats) - 1
               /\ \A x \in DOMAIN written : written[x] = TableUnit(f, x)
<1>1. Tables \in Pieces(f) /\ Tables[1] = "tables" BY PieceNames
<1>2. Written[f][Tables] = Piece(f, Tables) BY <1>1 DEF Written
<1>3. Piece(f, Tables) = [x \in FatAt(Geo(f), 0) .. FatAt(Geo(f), Geo(f).fats) - 1 |->
                             TableUnit(f, x)]
  BY <1>1 DEF Piece, TableUnit, TableBefore, Geo
<1> QED BY <1>2, <1>3

LEMMA HeapPiece == ASSUME NEW f \in Formats PROVE Written[f][TheHeap] = Heap(f)
<1>1. TheHeap \in Pieces(f) /\ TheHeap[1] = "heap" BY PieceNames
<1> QED BY <1>1 DEF Written, Piece

\* The units of the heap that are written are those of clusters in use.
LEMMA HeapPlace ==
    ASSUME NEW f \in Formats, NEW x \in DOMAIN Heap(f)
    PROVE  x \in Nat /\ HeapStart(f) <= x /\ x < DeviceLen
<1> DEFINE g == Geo(f)
<1>1. PICK c \in Used(f) : x \in ClusterAt(g, c) .. ClusterAt(g, c) + g.cluster - 1
  BY DEF Heap, Geo
<1>2. c \in Clusters(f)
  <2>1. /\ f.upcase \in Clusters(f) /\ f.bitmap \in Seq(Clusters(f))
        /\ f.boot.first_cluster_of_root \in Clusters(f)
    BY FormatBoot, FormatGeo
  <2>2. ToSet(f.bitmap) \subseteq Clusters(f) BY <2>1 DEF ToSet
  <2> QED BY <2>1, <2>2 DEF Used
<1>3. /\ ClusterAt(g, c) \in Nat /\ ClusterAt(g, c) + g.cluster <= DeviceLen
  BY <1>2, ClusterPlace
<1>4. g.cluster \in Nat \ {0} /\ HeapStart(f) \in Nat /\ DeviceLen \in Nat
      /\ g.count = f.boot.cluster_count /\ g.count \in Nat
  BY FormatGeo, Layout
<1>5. ClusterAt(g, c) >= HeapStart(f)
  <2>1. c - 2 \in Nat BY <1>2, <1>4 DEF Clusters
  <2>2. (c - 2) * g.cluster \in Nat BY <1>4, <2>1, MulNat
  <2>3. ClusterAt(g, c) = (c - 2) * g.cluster + HeapStart(f) BY DEF ClusterAt, HeapStart
  <2> QED BY <1>4, <2>2, <2>3
<1> QED BY <1>1, <1>3, <1>4, <1>5

LEMMA PieceZone ==
    ASSUME NEW f \in Formats, NEW piece \in Pieces(f), NEW x \in DOMAIN Written[f][piece]
    PROVE  x \in Device /\ ZoneOf(f, x) = piece
<1> DEFINE g == Geo(f)
           s == g.sector
           area == Area(f)
           region == Region(f)
           heap == HeapStart(f)
           first == FatAt(g, 0)
           end == FatAt(g, g.fats)
<1>1. /\ s \in Nat \ {0} /\ area \in Nat \ {0} /\ region = area + s /\ first \in Nat
      /\ end \in Nat /\ heap \in Nat /\ DeviceLen \in Nat
      /\ 2 * region <= first /\ first <= end /\ end <= heap /\ heap <= DeviceLen
      /\ SectorAt(g, 0) = 0 /\ SectorAt(g, 0 + BootChecksumSector) = area
      /\ SectorAt(g, BackupBootSector) = region
      /\ SectorAt(g, BackupBootSector + BootChecksumSector) = region + area
  BY Layout
<1>2. piece \in {MainRegion, MainSum, BackupRegion, BackupSum, Tables, TheHeap}
  BY PieceNames
<1>3. CASE piece = MainRegion
  <2>1. x \in 0 .. 0 + area - 1 BY <1>1, <1>3, RegionPiece DEF MainRegion
  <2> HIDE DEF s, area, region, heap, first, end
  <2>2. x \in Device /\ x < area BY <1>1, <2>1 DEF Device
  <2> QED BY <1>3, <2>2 DEF ZoneOf, area
<1>4. CASE piece = MainSum
  <2>1. x \in area .. area + s - 1 BY <1>1, <1>4, SumPiece DEF MainSum
  <2> HIDE DEF s, area, region, heap, first, end
  <2>2. x \in Device /\ ~ x < area /\ x < region BY <1>1, <2>1 DEF Device
  <2> QED BY <1>4, <2>2 DEF ZoneOf, area, region
<1>5. CASE piece = BackupRegion
  <2>1. x \in region .. region + area - 1 BY <1>1, <1>5, RegionPiece DEF BackupRegion
  <2> HIDE DEF s, area, region, heap, first, end
  <2>2. x \in Device /\ ~ x < area /\ ~ x < region /\ x < region + area
    BY <1>1, <2>1 DEF Device
  <2> QED BY <1>5, <2>2 DEF ZoneOf, area, region
<1>6. CASE piece = BackupSum
  <2>1. region + area \in Nat BY <1>1
  <2>2. x \in region + area .. region + area + s - 1
    BY <1>1, <1>6, <2>1, SumPiece DEF BackupSum
  <2> HIDE DEF s, area, region, heap, first, end
  <2>3. x \in Device /\ ~ x < area /\ ~ x < region /\ ~ x < region + area /\ x < 2 * region
    BY <1>1, <2>2 DEF Device
  <2> QED BY <1>6, <2>3 DEF ZoneOf, area, region
<1>7. CASE piece = Tables
  <2>1. x \in first .. end - 1 BY <1>7, TablesPiece
  <2> HIDE DEF s, area, region, heap, first, end
  <2>2. /\ x \in Device /\ ~ x < area /\ ~ x < region /\ ~ x < region + area /\ ~ x < 2 * region
        /\ x < heap
    BY <1>1, <2>1 DEF Device
  <2> QED BY <1>7, <2>2 DEF ZoneOf, area, region, heap
<1>8. CASE piece = TheHeap
  <2>1. x \in Nat /\ heap <= x /\ x < DeviceLen BY <1>8, HeapPiece, HeapPlace
  <2> HIDE DEF s, area, region, heap, first, end
  <2>2. /\ x \in Device /\ ~ x < area /\ ~ x < region /\ ~ x < region + area /\ ~ x < 2 * region
        /\ ~ x < heap
    BY <1>1, <2>1 DEF Device
  <2> QED BY <1>8, <2>2 DEF ZoneOf, area, region, heap
<1> QED BY <1>2, <1>3, <1>4, <1>5, <1>6, <1>7, <1>8

\* A device fresh from the formatter holds the whole volume.
LEMMA FreshWhole == ASSUME NEW f \in Formats, units = Fresh(f) PROVE Whole(f)
<1> SUFFICES ASSUME NEW piece \in Pieces(f), NEW x \in DOMAIN Written[f][piece]
             PROVE  units[x] = Written[f][piece][x]
  BY DEF Whole, Kept
<1> DEFINE holds(p) == x \in DOMAIN Written[f][p]
           which == CHOOSE p \in Pieces(f) : holds(p)
<1>1. which \in Pieces(f) /\ holds(which) OBVIOUS
<1>2. which = piece
  <2>1. ZoneOf(f, x) = which BY <1>1, PieceZone
  <2>2. ZoneOf(f, x) = piece BY PieceZone
  <2> QED BY <2>1, <2>2
<1>3. x \in 0 .. DeviceLen - 1 BY PieceZone DEF Device
<1>4. units[x] = Written[f][which][x] BY <1>3 DEF Fresh
<1> QED BY <1>2, <1>4

---------------------------------------------------------------------------
(* A volume that at most a mount has touched.                              *)

\* The boot sector that it may hold: that of its formatter, but for two fields.
Variant(f, flags, percent) ==
    [f.boot EXCEPT !.volume_flags = flags, !.percent_in_use = percent]
DrivenFlags(f) == {f.boot.volume_flags, f.boot.volume_flags \union {"VolumeDirty"}}
Percents == 0 .. 100 \union {255}
Variants(f) == UNION {{Variant(f, flags, p) : p \in Percents} : flags \in DrivenFlags(f)}
Driven(f) ==
    /\ \A piece \in Pieces(f) \ {MainRegion} : Kept(f, piece)
    /\ \A x \in DOMAIN Written[f][MainRegion] \ {0} : units[x] = Written[f][MainRegion][x]
    /\ \E b \in Variants(f) : units[0] = [boot |-> b]

LEMMA VariantIn ==
    ASSUME NEW f, NEW flags \in DrivenFlags(f), NEW p \in Percents
    PROVE  Variant(f, flags, p) \in Variants(f)
<1> DEFINE those == {Variant(f, flags, q) : q \in Percents}
<1>1. Variant(f, flags, p) \in those OBVIOUS
<1>2. those \in {{Variant(f, fl, q) : q \in Percents} : fl \in DrivenFlags(f)} OBVIOUS
<1> HIDE DEF those
<1> QED BY <1>1, <1>2, Zenon DEF Variants

LEMMA OwnVariant == ASSUME NEW f \in Formats PROVE f.boot \in Variants(f)
<1> DEFINE b == f.boot
<1>1. b \in Boot /\ b.percent_in_use \in 0 .. 100 \union {255}
  BY FormattersAssumption
<1>2. b = Variant(f, b.volume_flags, b.percent_in_use)
  BY <1>1 DEF Boot, Variant
<1>3. b.volume_flags \in DrivenFlags(f) /\ b.percent_in_use \in Percents
  BY <1>1 DEF DrivenFlags, Percents
<1>4. Variant(f, b.volume_flags, b.percent_in_use) \in Variants(f)
  BY <1>3, VariantIn
<1> QED BY <1>2, <1>4

\* Which fields of it are those of the formatter: all but two.
LEMMA VariantFields ==
    ASSUME NEW f \in Formats, NEW b \in Variants(f)
    PROVE  /\ b.name = f.boot.name /\ b.jump = f.boot.jump /\ b.signature = f.boot.signature
           /\ b.bytes_per_sector = f.boot.bytes_per_sector
           /\ b.sectors_per_cluster = f.boot.sectors_per_cluster
           /\ b.partition_offset = f.boot.partition_offset
           /\ b.volume_length = f.boot.volume_length
           /\ b.fat_offset = f.boot.fat_offset /\ b.fat_length = f.boot.fat_length
           /\ b.number_of_fats = f.boot.number_of_fats
           /\ b.cluster_heap_offset = f.boot.cluster_heap_offset
           /\ b.cluster_count = f.boot.cluster_count
           /\ b.first_cluster_of_root = f.boot.first_cluster_of_root
           /\ b.volume_flags \in DrivenFlags(f)
           /\ b.percent_in_use \in Percents
           /\ [b EXCEPT !.volume_flags = {}, !.percent_in_use = 0]
                = [f.boot EXCEPT !.volume_flags = {}, !.percent_in_use = 0]
<1> DEFINE a == f.boot
<1>1. a \in Boot BY FormattersAssumption
<1>2. PICK flags \in DrivenFlags(f), percent \in Percents :
              b = [a EXCEPT !.volume_flags = flags, !.percent_in_use = percent]
  BY DEF Variants, Variant
<1> HIDE DEF a
<1>3. b.volume_flags = flags /\ b.percent_in_use = percent BY <1>1, <1>2 DEF Boot
<1>4. [b EXCEPT !.volume_flags = {}, !.percent_in_use = 0]
        = [a EXCEPT !.volume_flags = {}, !.percent_in_use = 0]
  BY <1>1, <1>2 DEF Boot
<1>5. /\ b.name = a.name /\ b.jump = a.jump /\ b.signature = a.signature
      /\ b.bytes_per_sector = a.bytes_per_sector
      /\ b.sectors_per_cluster = a.sectors_per_cluster
      /\ b.partition_offset = a.partition_offset
      /\ b.volume_length = a.volume_length
      /\ b.fat_offset = a.fat_offset /\ b.fat_length = a.fat_length
      /\ b.number_of_fats = a.number_of_fats
      /\ b.cluster_heap_offset = a.cluster_heap_offset
      /\ b.cluster_count = a.cluster_count
      /\ b.first_cluster_of_root = a.first_cluster_of_root
  BY <1>1, <1>2 DEF Boot
<1> QED BY <1>2, <1>3, <1>4, <1>5 DEF a

\* A mount, the use of the volume and its end make one variant of another.
LEMMA VariantDriven ==
    ASSUME NEW f \in Formats, NEW b \in Variants(f)
    PROVE  /\ [b EXCEPT !.volume_flags = @ \union {"VolumeDirty"}] \in Variants(f)
           /\ \A percent \in Percents :
                 [b EXCEPT !.percent_in_use = percent] \in Variants(f)
           /\ b.percent_in_use \in Percents
<1> DEFINE a == f.boot
<1>1. a \in Boot BY FormattersAssumption
<1>2. PICK flags \in DrivenFlags(f), percent \in Percents :
              b = [a EXCEPT !.volume_flags = flags, !.percent_in_use = percent]
  BY DEF Variants, Variant
<1> HIDE DEF a
<1>3. b.volume_flags = flags /\ b.percent_in_use = percent BY <1>1, <1>2 DEF Boot
<1>4. [b EXCEPT !.volume_flags = b.volume_flags \union {"VolumeDirty"}]
        = [a EXCEPT !.volume_flags = flags \union {"VolumeDirty"}, !.percent_in_use = percent]
  BY <1>1, <1>2, <1>3 DEF Boot
<1>5. flags \union {"VolumeDirty"} = a.volume_flags \union {"VolumeDirty"}
  BY <1>2 DEF DrivenFlags, a
<1>6. \A p : [b EXCEPT !.percent_in_use = p]
               = [a EXCEPT !.volume_flags = flags, !.percent_in_use = p]
  BY <1>1, <1>2 DEF Boot
<1>7. \A fl \in DrivenFlags(f), p \in Percents :
          [a EXCEPT !.volume_flags = fl, !.percent_in_use = p] \in Variants(f)
  <2>1. \A fl \in DrivenFlags(f), p \in Percents : Variant(f, fl, p) \in Variants(f)
    BY VariantIn
  <2> QED BY <2>1, Zenon DEF Variant, a
<1>8. a.volume_flags \union {"VolumeDirty"} \in DrivenFlags(f)
  BY DEF DrivenFlags, a
<1>9. [b EXCEPT !.volume_flags = b.volume_flags \union {"VolumeDirty"}] \in Variants(f)
  BY <1>2, <1>4, <1>5, <1>7, <1>8
<1>10. \A p \in Percents : [b EXCEPT !.percent_in_use = p] \in Variants(f)
  BY <1>2, <1>6, <1>7
<1> QED BY <1>2, <1>3, <1>9, <1>10

LEMMA VariantGeo ==
    ASSUME NEW f \in Formats, NEW b \in Variants(f)
    PROVE  /\ FromBoot(b) = Geo(f)
           /\ BootOf([boot |-> b]) = b
           /\ Summed([boot |-> b]) = Summed([boot |-> f.boot])
<1>1. "ActiveFat" \in b.volume_flags <=> "ActiveFat" \in f.boot.volume_flags
  <2>1. b.volume_flags \in DrivenFlags(f)
    BY VariantFields
  <2> QED BY <2>1 DEF DrivenFlags
<1>5. (IF "ActiveFat" \in b.volume_flags THEN 1 ELSE 0)
        = (IF "ActiveFat" \in f.boot.volume_flags THEN 1 ELSE 0)
  BY <1>1
<1>2. FromBoot(b) = Geo(f)
  <2> DEFINE a == f.boot
             flag(c) == IF "ActiveFat" \in c.volume_flags THEN 1 ELSE 0
             made(bytes, sectors, volume, fat, len, fats, heap, count, first, active) ==
                LET sector_ok == bytes \in SectorSizes
                    sector == IF sector_ok THEN bytes ELSE SectorSize
                    per == IF sectors \in 1 .. MaxClusterSize THEN sectors ELSE 1
                    cluster_ok == sector * per <= MaxClusterSize
                IN  [sector |-> sector, per |-> per,
                     cluster |-> IF cluster_ok THEN sector * per ELSE sector,
                     volume |-> volume, fat_offset |-> fat, fat_length |-> len,
                     fats |-> fats, heap |-> heap, count |-> count, root |-> first,
                     active |-> active,
                     trusted |-> sector_ok /\ cluster_ok /\ sectors \in 1 .. MaxClusterSize]
  <2>1. \A c : FromBoot(c) =
           made(c.bytes_per_sector, c.sectors_per_cluster, c.volume_length, c.fat_offset,
                c.fat_length, c.number_of_fats, c.cluster_heap_offset, c.cluster_count,
                c.first_cluster_of_root, flag(c))
    BY Zenon DEF FromBoot
  <2>2. flag(b) = flag(a) BY <1>5, Zenon
  <2> HIDE DEF made, flag
  <2>3. FromBoot(b) = FromBoot(a) BY <2>1, <2>2, VariantFields, Zenon
  <2> QED BY <2>3 DEF Geo
<1>3. \A c : Is([boot |-> c], "boot") /\ [boot |-> c].boot = c BY DEF Is
<1>4. Summed([boot |-> b]) = Summed([boot |-> f.boot])
  <2>1. [b EXCEPT !.volume_flags = {}, !.percent_in_use = 0]
          = [f.boot EXCEPT !.volume_flags = {}, !.percent_in_use = 0]
    BY VariantFields
  <2> QED BY <1>3, <2>1, Zenon DEF Summed
<1> QED BY <1>2, <1>3, <1>4 DEF BootOf

\* Of it nothing is said but that it is dirty.
LEMMA VariantQuiet ==
    ASSUME NEW f \in Formats, NEW b \in Variants(f)
    PROVE  /\ GeometryFindings(b) = {} /\ FieldFindings(b) = {} /\ Score(b) = 100
           /\ Annotations(b, Geo(f)) \subseteq {"VolumeDirty"}
           /\ Annotations(f.boot, Geo(f)) = {}
<1> DEFINE g == Geo(f)
           a == f.boot
<1>1. /\ a \in Boot /\ g.trusted /\ SelfConsistent(g) /\ a.name /\ a.jump /\ a.signature
      /\ a.partition_offset = 0 /\ a.volume_flags \subseteq {"ActiveFat"}
      /\ g.fat_length * g.sector * TableEntries >= g.count + 2
      /\ a.percent_in_use \in 0 .. 100 \union {255}
  BY FormattersAssumption DEF Geo
<1>2. FromBoot(b) = g /\ FromBoot(a) = g BY VariantGeo, OwnVariant
<1>3. /\ b.bytes_per_sector \in SectorSizes /\ b.sectors_per_cluster \in 1 .. MaxClusterSize
      /\ g.sector * g.per <= MaxClusterSize
  <2>1. /\ a.bytes_per_sector \in SectorSizes /\ a.sectors_per_cluster \in 1 .. MaxClusterSize
        /\ a.bytes_per_sector * a.sectors_per_cluster <= MaxClusterSize
    BY <1>1 DEF Geo, FromBoot
  <2>2. g.sector = a.bytes_per_sector /\ g.per = a.sectors_per_cluster
    BY <2>1 DEF Geo, FromBoot
  <2> QED BY <2>1, <2>2, VariantFields
<1>4. /\ b.name /\ b.jump /\ b.signature /\ b.partition_offset = 0
      /\ b.volume_length = g.volume /\ b.fat_length = g.fat_length
      /\ b.fat_offset = g.fat_offset /\ b.cluster_heap_offset = g.heap
      /\ b.number_of_fats = g.fats
  <2>1. /\ a.volume_length = g.volume /\ a.fat_length = g.fat_length
        /\ a.fat_offset = g.fat_offset /\ a.cluster_heap_offset = g.heap
        /\ a.number_of_fats = g.fats
    BY DEF Geo, FromBoot
  <2> HIDE DEF a, g
  <2>2. /\ b.name = a.name /\ b.jump = a.jump /\ b.signature = a.signature
        /\ b.partition_offset = a.partition_offset /\ b.volume_length = a.volume_length
        /\ b.fat_length = a.fat_length /\ b.fat_offset = a.fat_offset
        /\ b.cluster_heap_offset = a.cluster_heap_offset
        /\ b.number_of_fats = a.number_of_fats
    BY VariantFields DEF a
  <2> QED BY <1>1, <2>1, <2>2
<1>5. /\ g.fats \in 1 .. 2 /\ g.fat_offset >= 2 * BootRegionSectors /\ g.fat_length > 0
      /\ g.heap >= g.fat_length * g.fats + g.fat_offset
      /\ g.count \in 1 .. MaxClusterCount /\ g.count * g.per + g.heap <= g.volume
      /\ ClusterInHeap(g, g.root) /\ g.volume > 0 /\ SectorAt(g, g.volume) <= DeviceLen
  BY <1>1 DEF SelfConsistent
<1>6. /\ g.fats \in Nat /\ g.fat_offset \in Nat /\ g.fat_length \in Nat /\ g.heap \in Nat
      /\ g.count \in Nat /\ g.volume \in Nat /\ g.active \in 0 .. 1 /\ g.active < g.fats
      /\ g.sector \in Nat /\ g.per \in Nat /\ DeviceLen \in Nat /\ TableEntries \in Nat
      /\ MaxClusterCount \in Nat
  BY FormatGeo, ExfatVolumeAssumption
<1>7. g.heap > 0
  <2> DEFINE t == g.fat_length * g.fats
  <2>1. t \in Nat BY <1>6, MulNat
  <2>2. BootRegionSectors \in Nat \ {0} BY ExfatVolumeAssumption DEF BootRegionSectors
  <2>3. g.heap >= t + g.fat_offset BY <1>5
  <2> HIDE DEF t
  <2> QED BY <1>5, <1>6, <2>1, <2>2, <2>3
<1> HIDE DEF g, a
<1>8. GeometryFindings(b) = {}
  <2>1. ~ (b.bytes_per_sector \notin SectorSizes)
        /\ ~ (b.sectors_per_cluster \notin 1 .. MaxClusterSize)
    BY <1>3
  <2>2. ~ (FromBoot(b).sector * FromBoot(b).per > MaxClusterSize)
    <3>1. g.sector * g.per \in Nat /\ MaxClusterSize \in Nat
      BY <1>6, MulNat, ExfatVolumeAssumption
    <3>2. ~ (g.sector * g.per > MaxClusterSize) BY <1>3, <3>1
    <3> QED BY <1>2, <3>2
  <2> QED BY <2>1, <2>2, Zenon DEF GeometryFindings, If
<1>9. FieldFindings(b) = {}
  <2>1. /\ b.volume_length # 0 /\ b.fat_length # 0 /\ ~ b.fat_offset < 2 * BootRegionSectors
        /\ b.cluster_heap_offset # 0 /\ b.number_of_fats \in 1 .. 2
    <3>1. BootRegionSectors \in Nat BY ExfatVolumeAssumption DEF BootRegionSectors
    <3> QED BY <1>4, <1>5, <1>6, <1>7, <3>1
  <2> QED BY <1>3, <1>4, <2>1 DEF FieldFindings, If
<1>10. Score(b) = 100 BY <1>1, <1>2, <1>4 DEF Score
<1>11. \A c : c.partition_offset = 0 /\ c.percent_in_use \notin 101 .. 254
              => Annotations(c, g) = {flag \in c.volume_flags : flag # "ActiveFat"}
  <2> DEFINE heap_end == g.count * g.per + g.heap
             entries == g.fat_length * g.sector * TableEntries
             tables == g.fat_length * g.fats + g.fat_offset
             end == SectorAt(g, g.volume)
  <2>1. /\ heap_end \in Nat /\ entries \in Nat /\ tables \in Nat /\ end \in Nat
    BY <1>6, MulNat DEF SectorAt
  <2>2. /\ ~ end > DeviceLen /\ ~ entries < g.count + 2 /\ ~ g.heap < tables
        /\ ~ heap_end > g.volume
    <3>1. heap_end <= g.volume /\ entries >= g.count + 2 /\ g.heap >= tables /\ end <= DeviceLen
      BY <1>1, <1>5
    <3> HIDE DEF heap_end, entries, tables, end
    <3> QED BY <1>6, <2>1, <3>1
  <2> HIDE DEF heap_end, entries, tables, end
  <2>3. ~ (g.active # 0 /\ g.fats < 2) BY <1>5, <1>6
  <2>4. g.count <= MaxClusterCount /\ g.count # 0 BY <1>5
  <2> DEFINE wrong == \/ g.count > MaxClusterCount \/ g.count = 0
                      \/ g.volume > 0 /\ heap_end > g.volume
  <2>5. wrong = FALSE BY <1>6, <2>2, <2>4
  <2> SUFFICES ASSUME NEW c, c.partition_offset = 0, c.percent_in_use \notin 101 .. 254
               PROVE  Annotations(c, g) = {flag \in c.volume_flags : flag # "ActiveFat"}
    OBVIOUS
  <2> DEFINE A1 == If(c.partition_offset # 0, "partition_offset")
             A2 == If(end > DeviceLen, "volume_length")
             A3 == If(entries < g.count + 2, "fat_length")
             A4 == If(g.heap < tables, "cluster_heap_offset")
             A5 == If(wrong, "cluster_count")
             A6 == If(~ ClusterInHeap(g, g.root), "first_cluster_of_root")
             A7 == If(c.percent_in_use \in 101 .. 254, "percent_in_use")
             A8 == If(g.active # 0 /\ g.fats < 2, "ActiveFat")
             rest == {flag \in c.volume_flags : flag # "ActiveFat"}
  <2>6. Annotations(c, g) =
           A1 \union A2 \union A3 \union A4 \union A5 \union A6 \union A7 \union rest \union A8
    BY Zenon DEF Annotations, heap_end, entries, tables, end
  <2>7. A1 = {} /\ A7 = {} BY DEF If
  <2>8. A2 = {} /\ A3 = {} /\ A4 = {} BY <2>2, Zenon DEF If
  <2>9. A5 = {}
    <3> HIDE DEF wrong
    <3> QED BY <2>5 DEF If
  <2>10. A6 = {} /\ A8 = {} BY <1>5, <2>3, Zenon DEF If
  <2> HIDE DEF A1, A2, A3, A4, A5, A6, A7, A8, rest
  <2>11. Annotations(c, g) = rest BY <2>6, <2>7, <2>8, <2>9, <2>10
  <2> QED BY <2>11 DEF rest
<1>12. /\ b.volume_flags \in {a.volume_flags, a.volume_flags \union {"VolumeDirty"}}
       /\ b.percent_in_use \in 0 .. 100 \union {255}
  <2>1. b.volume_flags \in DrivenFlags(f) BY ONLY f \in Formats, b \in Variants(f), VariantFields
  <2>2. b.percent_in_use \in Percents BY ONLY f \in Formats, b \in Variants(f), VariantFields
  <2>3. DrivenFlags(f) = {a.volume_flags, a.volume_flags \union {"VolumeDirty"}}
    BY ONLY DEF DrivenFlags, a
  <2>4. Percents = 0 .. 100 \union {255} BY ONLY DEF Percents
  <2> QED BY ONLY <2>1, <2>2, <2>3, <2>4
<1>13. b.percent_in_use \notin 101 .. 254 /\ a.percent_in_use \notin 101 .. 254
  <2>1. b.percent_in_use \in 0 .. 100 \union {255} BY <1>12, Zenon
  <2>2. a.percent_in_use \in 0 .. 100 \union {255} BY <1>1, Zenon
  <2>3. \A p \in 0 .. 100 \union {255} : p \notin 101 .. 254 OBVIOUS
  <2> QED BY ONLY <2>1, <2>2, <2>3, Zenon
<1>14. Annotations(b, g) \subseteq {"VolumeDirty"}
  <2>1. Annotations(b, g) = {flag \in b.volume_flags : flag # "ActiveFat"}
    BY <1>4, <1>11, <1>13
  <2> QED BY <1>1, <1>12, <2>1
<1>15. Annotations(a, g) = {}
  <2>1. Annotations(a, g) = {flag \in a.volume_flags : flag # "ActiveFat"}
    BY <1>1, <1>11, <1>13
  <2> QED BY <1>1, <2>1
<1> QED BY <1>8, <1>9, <1>10, <1>14, <1>15 DEF g, a

\* What units such a volume holds: those of the boot regions ...
LEMMA DrivenRegion ==
    ASSUME NEW f \in Formats, Driven(f), NEW n \in {0, BackupBootSector}, NEW i \in 1 .. Area(f)
    PROVE  /\ n # 0 \/ i # 1 => units[SectorAt(Geo(f), n) + i - 1] = BootArea(f.boot)[i]
           /\ Summed(units[SectorAt(Geo(f), n) + i - 1]) = Summed(BootArea(f.boot)[i])
<1> DEFINE from == SectorAt(Geo(f), n)
           x == from + i - 1
           piece == <<"region", n>>
           written == Written[f][piece]
<1>1. /\ DOMAIN written = from .. from + Area(f) - 1
      /\ \A y \in DOMAIN written : written[y] = BootArea(f.boot)[y - from + 1]
  BY RegionPiece
<1>2. /\ from \in Nat /\ Area(f) \in Nat \ {0} /\ (n = 0 => from = 0) /\ (n # 0 => from # 0)
      /\ f.boot.bytes_per_sector \in Nat \ {0}
      /\ Area(f) = BootChecksumSector * f.boot.bytes_per_sector
  BY Layout DEF Area
<1> HIDE DEF from
<1>3. x \in DOMAIN written /\ x - from + 1 = i BY <1>1, <1>2
<1>4. written[x] = BootArea(f.boot)[i] BY <1>1, <1>3
<1>5. ASSUME n # 0 \/ i # 1 PROVE units[x] = BootArea(f.boot)[i]
  <2>1. x # 0 BY <1>2, <1>5
  <2>2. CASE n = 0
    <3>1. piece = MainRegion BY <2>2 DEF MainRegion
    <3> QED BY <1>3, <1>4, <2>1, <3>1 DEF Driven
  <2>3. CASE n # 0
    <3>1. piece \in Pieces(f) \ {MainRegion} BY <2>3 DEF Pieces, MainRegion
    <3>2. Kept(f, piece) BY <3>1 DEF Driven
    <3> QED BY <1>3, <1>4, <3>2 DEF Kept
  <2> QED BY <2>2, <2>3
<1>6. ASSUME n = 0, i = 1 PROVE Summed(units[x]) = Summed(BootArea(f.boot)[i])
  <2>1. x = 0 BY <1>2, <1>6
  <2>2. PICK b \in Variants(f) : units[0] = [boot |-> b] BY DEF Driven
  <2>3. BootArea(f.boot)[1] = [boot |-> f.boot]
    <3>1. 1 \in 1 .. BootChecksumSector * f.boot.bytes_per_sector BY <1>2
    <3> QED BY <3>1 DEF BootArea
  <2>4. Summed([boot |-> b]) = Summed([boot |-> f.boot]) BY VariantGeo
  <2> QED BY <1>6, <2>1, <2>2, <2>3, <2>4
<1> QED BY <1>5, <1>6 DEF from

LEMMA DrivenSum ==
    ASSUME NEW f \in Formats, Driven(f), NEW n \in {0, BackupBootSector},
           NEW i \in 1 .. Geo(f).sector
    PROVE  units[SectorAt(Geo(f), n + BootChecksumSector) + i - 1] = SumOf(f)
<1> DEFINE from == SectorAt(Geo(f), n + BootChecksumSector)
           x == from + i - 1
           piece == <<"sum", n>>
           written == Written[f][piece]
<1>1. from \in Nat /\ Geo(f).sector \in Nat \ {0} BY Layout
<1>2. /\ DOMAIN written = from .. from + Geo(f).sector - 1
      /\ \A y \in DOMAIN written : written[y] = SumOf(f)
  BY <1>1, SumPiece
<1> HIDE DEF from
<1>3. x \in DOMAIN written BY <1>1, <1>2
<1>4. piece \in Pieces(f) \ {MainRegion} BY DEF Pieces, MainRegion
<1>5. Kept(f, piece) BY <1>4 DEF Driven
<1> QED BY <1>2, <1>3, <1>5 DEF Kept, from

\* ... those of the tables ...
LEMMA DrivenTable ==
    ASSUME NEW f \in Formats, Driven(f), NEW n \in 0 .. 1, n < Geo(f).fats,
           NEW c \in 0 .. Geo(f).count + 1
    PROVE  /\ EntryIn(units[EntryAt(Geo(f), n, c)], c) = FreshEntry(f, c)
           /\ EntryAt(Geo(f), n, c) # 0
<1> DEFINE g == Geo(f)
           len == SectorAt(g, g.fat_length)
           first == FatAt(g, 0)
           end == FatAt(g, g.fats)
           q == c \div TableEntries
           r == c % TableEntries
           x == EntryAt(g, n, c)
           written == Written[f][Tables]
<1>1. /\ g.sector \in Nat \ {0} /\ g.fats \in 1 .. 2 /\ g.fat_length \in Nat \ {0}
      /\ g.fat_offset \in Nat /\ g.count \in Nat /\ TableEntries \in Nat \ {0}
      /\ g.fat_length * g.sector * TableEntries >= g.count + 2
  BY FormatGeo, FormatBoot, ExfatVolumeAssumption
<1>2. first \in Nat \ {0} /\ len \in Nat
  <2>1. 2 * Region(f) <= first /\ Region(f) \in Nat \ {0} /\ first \in Nat BY Layout
  <2> HIDE DEF first
  <2>2. first \in Nat \ {0} BY <2>1
  <2> QED BY <1>1, <2>2, MulNat DEF SectorAt
<1>3. q \in Nat /\ q < len /\ r \in 0 .. TableEntries - 1 /\ c = q * TableEntries + r
  <2>1. c \in Nat /\ c < len * TableEntries
    <3>1. len = g.fat_length * g.sector BY DEF SectorAt
    <3>2. len * TableEntries \in Nat BY <1>1, <1>2, MulNat
    <3>3. c \in 0 .. g.count + 1 OBVIOUS
    <3> HIDE DEF len, g
    <3> QED BY <1>1, <3>1, <3>2, <3>3
  <2> HIDE DEF len
  <2>2. q \in Nat /\ q < len BY <1>1, <1>2, <2>1, DivBelow
  <2> QED BY <1>1, <2>1, <2>2
<1>4. FatAt(g, n) = IF n = 0 THEN first ELSE first + len
  <2>1. CASE n = 0 BY <2>1
  <2>2. CASE n = 1
    <3>1. FatAt(g, 1) = (1 * g.fat_length + g.fat_offset) * g.sector
          /\ first = (0 * g.fat_length + g.fat_offset) * g.sector
          /\ len = g.fat_length * g.sector
      BY DEF FatAt, SectorAt
    <3>2. \A a, b, d \in Nat : (1 * a + b) * d = (0 * a + b) * d + a * d OBVIOUS
    <3>3. g.fat_length \in Nat /\ g.fat_offset \in Nat /\ g.sector \in Nat BY <1>1
    <3>4. (1 * g.fat_length + g.fat_offset) * g.sector
            = (0 * g.fat_length + g.fat_offset) * g.sector + g.fat_length * g.sector
      BY <3>2, <3>3, Zenon
    <3> QED BY <2>2, <3>1, <3>4
  <2> QED BY <2>1, <2>2
<1>5. end = IF g.fats = 1 THEN first + len ELSE first + len + len
  <2>1. end = (g.fats * g.fat_length + g.fat_offset) * g.sector
        /\ first = (0 * g.fat_length + g.fat_offset) * g.sector
        /\ len = g.fat_length * g.sector
    BY DEF FatAt, SectorAt
  <2>2. \A a, b, d \in Nat : /\ (1 * a + b) * d = (0 * a + b) * d + a * d
                             /\ (2 * a + b) * d = (0 * a + b) * d + a * d + a * d
    OBVIOUS
  <2>3. g.fat_length \in Nat /\ g.fat_offset \in Nat /\ g.sector \in Nat BY <1>1
  <2>4. /\ (1 * g.fat_length + g.fat_offset) * g.sector
             = (0 * g.fat_length + g.fat_offset) * g.sector + g.fat_length * g.sector
        /\ (2 * g.fat_length + g.fat_offset) * g.sector
             = (0 * g.fat_length + g.fat_offset) * g.sector + g.fat_length * g.sector
               + g.fat_length * g.sector
    BY <2>2, <2>3, Zenon
  <2>5. g.fats = 1 \/ g.fats = 2 BY <1>1
  <2> QED BY <2>1, <2>4, <2>5
<1>6. x = FatAt(g, n) + q BY DEF EntryAt
<1>7. /\ DOMAIN written = first .. end - 1
      /\ \A y \in DOMAIN written : written[y] = TableUnit(f, y)
  BY TablesPiece
<1> HIDE DEF first, len, end, q, r, x, g
<1>8. x \in first .. end - 1 /\ x # 0 BY <1>1, <1>2, <1>3, <1>4, <1>5, <1>6 DEF g
<1>9. units[x] = TableUnit(f, x)
  <2>1. Tables \in Pieces(f) \ {MainRegion} BY DEF Pieces, Tables, MainRegion
  <2>2. Kept(f, Tables) BY <2>1 DEF Driven
  <2> QED BY <1>7, <1>8, <2>2 DEF Kept
<1>10. TableBefore(f, x) = q * TableEntries
  <2>1. (x - first) % len = q BY <1>2, <1>3, <1>4, <1>6
  <2> QED BY <2>1 DEF TableBefore, first, len, g
<1>11. EntryIn(units[x], c) = FreshEntry(f, c)
  <2> DEFINE row == [i \in 1 .. TableEntries |-> FreshEntry(f, TableBefore(f, x) + i - 1)]
  <2>1. units[x] = [fat |-> row] BY <1>9 DEF TableUnit
  <2>2. row[r + 1] = FreshEntry(f, TableBefore(f, x) + (r + 1) - 1)
    <3>1. r + 1 \in 1 .. TableEntries BY <1>1, <1>3
    <3> QED BY <3>1
  <2>3. TableBefore(f, x) + (r + 1) - 1 = c
    <3>1. q * TableEntries \in Nat BY <1>1, <1>3, MulNat
    <3> QED BY <1>1, <1>3, <1>10, <3>1
  <2> HIDE DEF row
  <2>4. Is(units[x], "fat") /\ units[x].fat = row BY <2>1 DEF Is
  <2>5. EntryIn(units[x], c) = row[r + 1] BY <2>4 DEF EntryIn, r
  <2> QED BY <2>2, <2>3, <2>5
<1> QED BY <1>8, <1>11 DEF x, g

\* ... and those of the clusters in use.
LEMMA DrivenEntry ==
    ASSUME NEW f \in Formats, Driven(f), NEW c \in Clusters(f)
    PROVE  EntryOf(f, c) = FreshEntry(f, c)
<1>1. /\ Geo(f).active \in 0 .. 1 /\ Geo(f).active < Geo(f).fats
      /\ Min2(Geo(f).active, 1) = Geo(f).active
  BY FormatGeo DEF Min2
<1>2. c \in 0 .. Geo(f).count + 1 BY ClusterPlace
<1>3. EntryIn(units[EntryAt(Geo(f), Geo(f).active, c)], c) = FreshEntry(f, c)
  BY <1>1, <1>2, DrivenTable
<1> QED BY <1>1, <1>3 DEF EntryOf, Geo

LEMMA DrivenHeap ==
    ASSUME NEW f \in Formats, Driven(f), NEW x \in DOMAIN Heap(f)
    PROVE  units[x] = Heap(f)[x]
<1>1. TheHeap \in Pieces(f) \ {MainRegion} BY DEF Pieces, TheHeap, MainRegion
<1>2. Kept(f, TheHeap) BY <1>1 DEF Driven
<1> QED BY <1>2, HeapPiece DEF Kept

\* Two clusters share no unit.
LEMMA ClustersApart ==
    ASSUME NEW f \in Formats, NEW c \in Clusters(f), NEW d \in Clusters(f),
           NEW i \in 0 .. Geo(f).cluster - 1, NEW j \in 0 .. Geo(f).cluster - 1,
           ClusterAt(Geo(f), c) + i = ClusterAt(Geo(f), d) + j
    PROVE  c = d
<1> DEFINE p == Geo(f).cluster
           h == SectorAt(Geo(f), Geo(f).heap)
<1>1. p \in Nat \ {0} /\ h \in Nat /\ f.boot.cluster_count \in Nat
  BY FormatGeo, Layout DEF HeapStart
<1>2. /\ ClusterAt(Geo(f), c) = (c - 2) * p + h /\ ClusterAt(Geo(f), d) = (d - 2) * p + h
  BY DEF ClusterAt
<1>3. PICK a, b \in Nat : a = c - 2 /\ b = d - 2 BY <1>1 DEF Clusters
<1> HIDE DEF p, h
<1>4. a * p \in Nat /\ b * p \in Nat BY <1>1, <1>3, MulNat
<1>5. a * p + i = b * p + j BY <1>1, <1>2, <1>3, <1>4 DEF p
<1>6. (a * p + i) \div p = a /\ (b * p + j) \div p = b
  <2>1. i \in 0 .. p - 1 /\ j \in 0 .. p - 1 BY DEF p
  <2> QED BY ONLY <1>1, <1>3, <2>1
<1>7. a = b BY <1>5, <1>6
<1> QED BY <1>1, <1>3, <1>7 DEF Clusters

LEMMA UsedPlace ==
    ASSUME NEW f \in Formats, NEW c \in Used(f), NEW i \in 0 .. Geo(f).cluster - 1
    PROVE  c \in Clusters(f) /\ ClusterAt(Geo(f), c) + i \in DOMAIN Heap(f)
<1> DEFINE p == Geo(f).cluster
           at == ClusterAt(Geo(f), c)
<1>1. c \in Clusters(f)
  <2>1. /\ f.upcase \in Clusters(f) /\ f.bitmap \in Seq(Clusters(f))
        /\ f.boot.first_cluster_of_root \in Clusters(f)
    BY FormatBoot, FormatGeo
  <2>2. ToSet(f.bitmap) \subseteq Clusters(f) BY <2>1 DEF ToSet
  <2> QED BY <2>1, <2>2 DEF Used
<1>2. at \in Nat /\ p \in Nat \ {0} BY <1>1, ClusterPlace, FormatGeo
<1>3. at + i \in at .. at + p - 1
  <2>1. i \in 0 .. p - 1 OBVIOUS
  <2> HIDE DEF at, p
  <2> QED BY <1>2, <2>1
<1>4. DOMAIN Heap(f) = UNION {ClusterAt(Geo(f), d) .. ClusterAt(Geo(f), d) + p - 1 : d \in Used(f)}
  BY DEF Heap, Geo
<1> QED BY <1>1, <1>3, <1>4

LEMMA HeapHolds ==
    ASSUME NEW f \in Formats, NEW x \in DOMAIN Heap(f)
    PROVE  Heap(f)[x] =
              IF x = ClusterAt(Geo(f), f.boot.first_cluster_of_root)
              THEN [entries |-> Entries(f)]
              ELSE IF x = ClusterAt(Geo(f), f.upcase) THEN UpcaseTable[1]
              ELSE IF \E c \in Clusters(f) : BitUnit(f, c) = x
              THEN [bits |-> {BitPlace(c) : c \in {d \in Used(f) : BitUnit(f, d) = x}}]
              ELSE Zero
<1>1. Geo(f).root = f.boot.first_cluster_of_root BY FormatGeo
<1> QED BY <1>1 DEF Heap, Geo

LEMMA DrivenRoot ==
    ASSUME NEW f \in Formats, Driven(f)
    PROVE  /\ units[ClusterAt(Geo(f), f.boot.first_cluster_of_root)] = [entries |-> Entries(f)]
           /\ units[ClusterAt(Geo(f), f.upcase)] = UpcaseTable[1]
<1> DEFINE g == Geo(f)
           r == f.boot.first_cluster_of_root
           u == f.upcase
<1>1. /\ r \in Used(f) /\ u \in Used(f) /\ g.cluster \in Nat \ {0} /\ g.root = r
      /\ 0 \in 0 .. g.cluster - 1 /\ u # r
  <2>1. g.cluster \in Nat \ {0} /\ g.root = r BY FormatGeo
  <2>2. u # r BY <2>1, FormatBoot
  <2>3. 0 \in 0 .. g.cluster - 1 BY <2>1
  <2> QED BY <2>1, <2>2, <2>3 DEF Used
<1>2. r \in Clusters(f) /\ u \in Clusters(f) BY <1>1, UsedPlace
<1>3. ClusterAt(g, r) \in Nat /\ ClusterAt(g, u) \in Nat BY <1>2, ClusterPlace
<1>4. ClusterAt(g, r) \in DOMAIN Heap(f) /\ ClusterAt(g, u) \in DOMAIN Heap(f)
  <2>1. ClusterAt(g, r) + 0 \in DOMAIN Heap(f) /\ ClusterAt(g, u) + 0 \in DOMAIN Heap(f)
    BY <1>1, UsedPlace
  <2>2. ClusterAt(g, r) + 0 = ClusterAt(g, r) /\ ClusterAt(g, u) + 0 = ClusterAt(g, u)
    BY <1>3
  <2> QED BY <2>1, <2>2
<1>5. ClusterAt(g, r) # ClusterAt(g, u)
  <2>1. ClusterAt(g, r) = ClusterAt(g, u)
          => ClusterAt(g, r) + 0 = ClusterAt(g, u) + 0
    OBVIOUS
  <2> QED BY <1>1, <1>2, <2>1, ClustersApart
<1>6. units[ClusterAt(g, r)] = [entries |-> Entries(f)]
  BY <1>4, DrivenHeap, HeapHolds
<1>7. units[ClusterAt(g, u)] = UpcaseTable[1]
  BY <1>4, <1>5, DrivenHeap, HeapHolds
<1> QED BY <1>6, <1>7

LEMMA DrivenFrame == ASSUME NEW f \in Formats, Driven(f) PROVE Frame(f)
<1>1. ASSUME NEW c \in Used(f) PROVE EntryOf(f, c) = FreshEntry(f, c)
  <2>1. 0 \in 0 .. Geo(f).cluster - 1 BY FormatGeo
  <2>2. c \in Clusters(f) BY <2>1, UsedPlace
  <2> QED BY <2>2, DrivenEntry
<1> QED BY <1>1, DrivenRoot DEF Frame

\* What a fresh table says of a cluster: nothing, when it is not in use.
LEMMA FreshValues ==
    ASSUME NEW f \in Formats, NEW c \in Clusters(f)
    PROVE  /\ FreshEntry(f, c) \in {0, Eoc} \union Clusters(f)
           /\ FreshEntry(f, c) # 0 => c \in Used(f)
<1> DEFINE s == f.bitmap
           n == Len(s)
           r == f.boot.first_cluster_of_root
           which == CHOOSE i \in 1 .. n - 1 : s[i] = c
<1>1. s \in Seq(Clusters(f)) /\ n \in Nat \ {0} /\ DOMAIN s = 1 .. n /\ Last(s) = s[n]
  <2>1. s \in Seq(Clusters(f)) BY FormatBoot
  <2>2. s # <<>> BY FreshEntries
  <2> QED BY <2>1, <2>2 DEF Last
<1>2. c # 0 /\ c # 1 BY DEF Clusters
<1>3. \A i \in 1 .. n : s[i] \in Used(f) /\ s[i] \in Clusters(f)
  BY <1>1 DEF Used, ToSet
<1>4. r \in Used(f) /\ f.upcase \in Used(f) BY DEF Used
<1>5. n \in 1 .. n /\ \A i \in 1 .. n - 1 : i \in 1 .. n /\ 1 + i \in 1 .. n
  BY <1>1
<1>6. CASE c \in {1, r, f.upcase, Last(s)}
  <2>1. FreshEntry(f, c) = Eoc BY <1>1, <1>2, <1>6, FreshEntries
  <2>2. c \in Used(f) BY <1>1, <1>2, <1>3, <1>4, <1>5, <1>6
  <2> QED BY <2>1, <2>2
<1>7. CASE c \notin {1, r, f.upcase, Last(s)} /\ \E i \in 1 .. n - 1 : s[i] = c
  <2>1. which \in 1 .. n - 1 /\ s[which] = c BY <1>7
  <2>2. FreshEntry(f, c) = s[1 + which] BY <1>2, <1>7 DEF FreshEntry
  <2> HIDE DEF which
  <2> QED BY <1>3, <1>5, <2>1, <2>2
<1>8. CASE c \notin {1, r, f.upcase, Last(s)} /\ ~ \E i \in 1 .. n - 1 : s[i] = c
  <2>1. FreshEntry(f, c) = 0 BY <1>2, <1>8 DEF FreshEntry
  <2> QED BY <2>1
<1> QED BY <1>6, <1>7, <1>8

\* The bitmap has a bit for every cluster in use.
LEMMA DrivenTaken ==
    ASSUME NEW f \in Formats, Driven(f), NEW c \in 2 .. Checked(f) + 1, c \in Used(f)
    PROVE  Taken(f, c)
<1> DEFINE g == Geo(f)
           p == g.cluster
           s == f.bitmap
           k == BitIndex(c)
           d == s[(k \div p) + 1]
           x == BitUnit(f, c)
           r == f.boot.first_cluster_of_root
           u == f.upcase
           those == {BitPlace(e) : e \in {e \in Used(f) : BitUnit(f, e) = x}}
<1>1. /\ k \in Nat /\ k < Len(s) * p /\ p \in Nat \ {0} /\ s \in Seq(Clusters(f))
      /\ Len(s) \in Nat
  BY BitsCover, FormatGeo, FormatBoot
<1>2. x = ClusterAt(g, d) + (k % p) BY DEF BitUnit, BitIndex, Geo
<1>3. (k \div p) + 1 \in 1 .. Len(s) /\ k % p \in 0 .. p - 1
  <2> DEFINE n == Len(s)
  <2> HIDE DEF k, p, n
  <2>1. k \div p \in Nat /\ k \div p < n BY <1>1, DivBelow DEF n
  <2>2. k % p \in 0 .. p - 1 BY <1>1
  <2> QED BY <1>1, <2>1, <2>2 DEF n
<1>4. d \in Clusters(f) /\ d \in ToSet(s) /\ d \in Used(f)
  BY <1>1, <1>3 DEF ToSet, Used
<1>5. /\ r \in Clusters(f) /\ u \in Clusters(f) /\ d # r /\ d # u /\ g.root = r
      /\ 0 \in 0 .. p - 1
  BY <1>1, <1>4, FormatBoot, FormatGeo
<1> HIDE DEF d, k
<1>6. x \in DOMAIN Heap(f) BY <1>2, <1>3, <1>4, UsedPlace
<1>7. x # ClusterAt(g, r) /\ x # ClusterAt(g, u)
  <2>1. ClusterAt(g, r) \in Nat /\ ClusterAt(g, u) \in Nat BY <1>5, ClusterPlace
  <2>2. ClusterAt(g, r) + 0 = ClusterAt(g, r) /\ ClusterAt(g, u) + 0 = ClusterAt(g, u)
    BY <2>1
  <2>3. x # ClusterAt(g, r) + 0 BY <1>2, <1>3, <1>4, <1>5, ClustersApart
  <2>4. x # ClusterAt(g, u) + 0 BY <1>2, <1>3, <1>4, <1>5, ClustersApart
  <2> QED BY <2>2, <2>3, <2>4
<1>8. c \in Clusters(f)
  <2>1. Checked(f) <= f.boot.cluster_count /\ Checked(f) \in Nat BY CheckedType
  <2>2. f.boot.cluster_count \in Nat BY CheckedType
  <2> QED BY <2>1, <2>2 DEF Clusters
<1> HIDE DEF those
<1>9. Heap(f)[x] = [bits |-> those]
  <2>1. \E e \in Clusters(f) : BitUnit(f, e) = x BY <1>8
  <2> HIDE DEF x
  <2> QED BY <1>6, <1>7, <2>1, HeapHolds, Zenon DEF those
<1>10. units[x] = [bits |-> those] BY <1>6, <1>9, DrivenHeap
<1>11. BitPlace(c) \in those BY DEF those
<1>12. BitsIn([bits |-> those]) = those BY DEF BitsIn, Is
<1> QED BY <1>10, <1>11, <1>12 DEF Taken

\* So no cluster is chained but free.
LEMMA NoStrays == ASSUME NEW f \in Formats, Driven(f) PROVE StrayPlaces(f) = {}
<1> SUFFICES ASSUME NEW i \in 1 .. Checked(f), Stray(f, i + 1) PROVE FALSE
  BY DEF StrayPlaces
<1> DEFINE c == i + 1
<1>1. c \in 2 .. Checked(f) + 1 /\ EntryOf(f, c) # 0 /\ ~ Taken(f, c) BY DEF Stray
<1> HIDE DEF c
<1>2. c \in Clusters(f)
  <2>1. Checked(f) <= f.boot.cluster_count /\ Checked(f) \in Nat BY CheckedType
  <2>2. f.boot.cluster_count \in Nat BY CheckedType
  <2> QED BY <1>1, <2>1, <2>2 DEF Clusters
<1>3. c \in Used(f) BY <1>1, <1>2, DrivenEntry, FreshValues
<1> QED BY <1>1, <1>3, DrivenTaken

---------------------------------------------------------------------------
(* Nothing is found wrong with such a volume.                              *)

Readable(f) == UnitsInv /\ refused = {} /\ Driven(f)

\* What a formatter writes into the sectors of a region after the first.
LEMMA AreaHolds ==
    ASSUME NEW f \in Formats, NEW s \in 1 .. BootChecksumSector - 1, NEW j \in 1 .. Geo(f).sector
    PROVE  LET size == Geo(f).sector
           IN  /\ s * size \in Nat \ {0} /\ s * size + size <= Area(f)
               /\ s * size + j \in 1 .. Area(f) /\ s * size + j # 1
               /\ BootArea(f.boot)[s * size + j]
                    = IF j = size /\ s \in 1 .. ExtCount THEN Signature ELSE Zero
<1> DEFINE size == Geo(f).sector
           i == s * size + j
<1>1. /\ size \in Nat \ {0} /\ size = f.boot.bytes_per_sector /\ Area(f) \in Nat
      /\ BootChecksumSector \in Nat /\ ExtCount \in Nat /\ BootChecksumSector = ExtCount + 3
  BY Layout, ExfatVolumeAssumption DEF BootChecksumSector
<1>2. Area(f) = BootChecksumSector * size BY DEF Area
<1>3. s \in Nat \ {0} /\ s + 1 <= BootChecksumSector /\ j \in Nat \ {0} /\ j <= size
  BY <1>1
<1> HIDE DEF size
<1>4. s * size \in Nat \ {0} /\ (s + 1) * size = s * size + size
  <2>1. \A a, b \in Nat \ {0} : a * b \in Nat \ {0} /\ (a + 1) * b = a * b + b OBVIOUS
  <2> QED BY <1>1, <1>3, <2>1, Zenon
<1>5. s * size + size <= Area(f)
  <2>1. (s + 1) * size <= BootChecksumSector * size
    <3>1. s + 1 \in Nat BY <1>3
    <3> QED BY <1>1, <1>3, <3>1, Products
  <2> QED BY <1>2, <1>4, <2>1
<1>6. i \in 1 .. Area(f) /\ i # 1
  <2> DEFINE t == s * size
  <2>1. t \in Nat \ {0} /\ t + size <= Area(f) /\ i = t + j BY <1>4, <1>5
  <2> HIDE DEF t, i
  <2> QED BY <1>1, <1>3, <2>1
<1>7. BootArea(f.boot)[i]
        = IF i % size = 0 /\ i \div size \in 2 .. ExtCount + 1 THEN Signature ELSE Zero
  <2>1. i \in 1 .. BootChecksumSector * f.boot.bytes_per_sector BY <1>1, <1>2, <1>6
  <2> HIDE DEF i
  <2> QED BY <1>1, <1>6, <2>1 DEF BootArea
<1>8. CASE j = size
  <2>1. i = (s + 1) * size + 0 BY <1>1, <1>3, <1>4, <1>8
  <2>2. s + 1 \in Nat /\ 0 \in 0 .. size - 1 BY <1>1, <1>3
  <2> DEFINE q == s + 1
  <2> HIDE DEF q, i
  <2>6. q \in Nat /\ size \in Nat \ {0} /\ i = q * size + 0 /\ 0 \in 0 .. size - 1
    BY <1>1, <2>1, <2>2 DEF q
  <2>7. i \div size = q /\ i % size = 0 BY ONLY <2>6, DivMod
  <2>3. i \div size = s + 1 /\ i % size = 0 BY <2>7 DEF q
  <2> HIDE DEF i
  <2>4. i \div size \in 2 .. ExtCount + 1 <=> s \in 1 .. ExtCount BY <1>1, <1>3, <2>3
  <2> QED BY <1>4, <1>5, <1>6, <1>7, <1>8, <2>3, <2>4 DEF i, size
<1>9. CASE j # size
  <2>1. j \in 0 .. size - 1 /\ j # 0 /\ s \in Nat BY <1>1, <1>3, <1>9
  <2>2. i % size = j BY <1>1, <2>1, DivMod
  <2> HIDE DEF i
  <2> QED BY <1>4, <1>5, <1>6, <1>7, <1>9, <2>1, <2>2 DEF i, size
<1> QED BY <1>8, <1>9

\* They are read back.
LEMMA SectorHolds ==
    ASSUME NEW f \in Formats, Readable(f), NEW n \in {0, BackupBootSector},
           NEW s \in 1 .. BootChecksumSector - 1
    PROVE  LET size == Geo(f).sector
               sector == Got(SectorAt(Geo(f), n + s), size)
           IN  /\ sector # Unread /\ Len(sector) = size /\ DOMAIN sector = 1 .. size
               /\ \A j \in 1 .. size :
                     sector[j] = IF j = size /\ s \in 1 .. ExtCount THEN Signature ELSE Zero
               /\ Got(SectorAt(Geo(f), n + s), 1) \notin {<<>>, Unread}
<1> DEFINE g == Geo(f)
           size == g.sector
           from == SectorAt(g, n)
           at == SectorAt(g, n + s)
<1>1. /\ size \in Nat \ {0} /\ Area(f) \in Nat /\ Region(f) \in Nat /\ DeviceLen \in Nat
      /\ from \in {0, Region(f)} /\ Region(f) = Area(f) + size /\ 2 * Region(f) <= DeviceLen
  <2>1. /\ 2 * Region(f) <= FatAt(g, 0) /\ FatAt(g, 0) <= FatAt(g, g.fats)
        /\ FatAt(g, g.fats) <= HeapStart(f) /\ HeapStart(f) <= DeviceLen
        /\ FatAt(g, 0) \in Nat /\ FatAt(g, g.fats) \in Nat /\ HeapStart(f) \in Nat
        /\ Region(f) \in Nat /\ DeviceLen \in Nat
    BY Layout
  <2>2. 2 * Region(f) <= DeviceLen BY <2>1
  <2> QED BY <2>2, Layout
<1>2. n \in Nat /\ s \in Nat
  BY ExfatVolumeAssumption DEF BackupBootSector, BootRegionSectors, BootChecksumSector
<1>3. /\ s * size \in Nat \ {0} /\ s * size + size <= Area(f)
  <2>1. 1 \in 1 .. size BY <1>1
  <2> QED BY <2>1, AreaHolds
<1>4. at = from + s * size
  <2>1. (n + s) * size = n * size + s * size BY <1>1, <1>2
  <2> QED BY <2>1 DEF SectorAt
<1> HIDE DEF at, from, size
<1>5. at \in Nat /\ at + size <= DeviceLen /\ at + 1 <= DeviceLen
  <2> DEFINE t == s * size
  <2>1. t \in Nat /\ t + size <= Area(f) /\ at = from + t BY <1>3, <1>4
  <2> HIDE DEF t
  <2> QED BY <1>1, <2>1
<1>6. UnitsInv /\ refused = {} BY DEF Readable
<1> DEFINE sector == Got(at, size)
<1>7. /\ sector # Unread /\ Len(sector) = size /\ DOMAIN sector = 1 .. size
      /\ \A j \in 1 .. size : sector[j] = units[at + j - 1]
  BY <1>1, <1>5, <1>6, ReadUnits
<1>8. Got(at, 1) \notin {<<>>, Unread} BY <1>5, <1>6, ReadUnits
<1>9. ASSUME NEW j \in 1 .. size
      PROVE  units[at + j - 1] = IF j = size /\ s \in 1 .. ExtCount THEN Signature ELSE Zero
  <2> DEFINE i == s * size + j
  <2>1. /\ i \in 1 .. Area(f) /\ i # 1
        /\ BootArea(f.boot)[i] = IF j = size /\ s \in 1 .. ExtCount THEN Signature ELSE Zero
    BY AreaHolds DEF size
  <2>2. at + j - 1 = from + i - 1
    <3> DEFINE t == s * size
    <3>1. at = from + t /\ i = t + j /\ t \in Nat BY <1>3, <1>4
    <3> HIDE DEF t, i
    <3> QED BY <1>1, <3>1
  <2> HIDE DEF i
  <2>3. units[from + i - 1] = BootArea(f.boot)[i] BY <2>1, DrivenRegion DEF Readable, from
  <2> QED BY <2>1, <2>2, <2>3
<1> HIDE DEF sector
<1>10. \A j \in 1 .. size : sector[j] = IF j = size /\ s \in 1 .. ExtCount THEN Signature ELSE Zero
  BY <1>7, <1>9
<1> QED BY <1>7, <1>8, <1>10, Zenon DEF sector, at, size

\* The boot sectors are there.
LEMMA BootThere ==
    ASSUME NEW f \in Formats, Readable(f)
    PROVE  /\ UnitAt(0) = units[0] /\ Got(0, 1) # Unread
           /\ UnitAt(SectorAt(Geo(f), BackupBootSector)) = [boot |-> f.boot]
           /\ Got(SectorAt(Geo(f), BackupBootSector), 1) # Unread
<1> DEFINE from == SectorAt(Geo(f), BackupBootSector)
<1>1. /\ from \in Nat /\ from + 1 <= DeviceLen /\ 0 + 1 <= DeviceLen /\ DeviceLen \in Nat
      /\ Area(f) \in Nat \ {0}
      /\ f.boot.bytes_per_sector \in Nat \ {0}
      /\ Area(f) = BootChecksumSector * f.boot.bytes_per_sector
  <2>1. /\ 2 * Region(f) <= FatAt(Geo(f), 0) /\ FatAt(Geo(f), 0) <= FatAt(Geo(f), Geo(f).fats)
        /\ FatAt(Geo(f), Geo(f).fats) <= HeapStart(f) /\ HeapStart(f) <= DeviceLen
        /\ FatAt(Geo(f), 0) \in Nat /\ FatAt(Geo(f), Geo(f).fats) \in Nat
        /\ HeapStart(f) \in Nat /\ Region(f) \in Nat \ {0} /\ DeviceLen \in Nat
        /\ from = Region(f) /\ Area(f) \in Nat \ {0}
        /\ f.boot.bytes_per_sector \in Nat \ {0}
    BY Layout
  <2>2. Area(f) = BootChecksumSector * f.boot.bytes_per_sector BY Layout DEF Area
  <2> HIDE DEF from
  <2> QED BY <2>1, <2>2
<1>2. UnitsInv /\ refused = {} /\ Driven(f) BY DEF Readable
<1> HIDE DEF from
<1>3. \A x \in {0, from} : Got(x, 1) \notin {<<>>, Unread}
  <2>1. ASSUME NEW x \in {0, from} PROVE Got(x, 1) \notin {<<>>, Unread}
    <3>1. x \in Nat /\ x + 1 <= DeviceLen /\ 1 \in Nat \ {0} BY <1>1
    <3> QED BY <1>2, <3>1, ReadUnits
  <2> QED BY <2>1
<1>4. units[from] = [boot |-> f.boot]
  <2>1. 1 \in 1 .. Area(f) /\ BackupBootSector # 0 BY <1>1, PieceNames
  <2>2. units[from + 1 - 1] = BootArea(f.boot)[1] BY <1>2, <2>1, DrivenRegion DEF from
  <2>3. BootArea(f.boot)[1] = [boot |-> f.boot]
    <3>1. 1 \in 1 .. BootChecksumSector * f.boot.bytes_per_sector BY <1>1
    <3> QED BY <3>1 DEF BootArea
  <2>4. from + 1 - 1 = from BY <1>1
  <2> QED BY <2>2, <2>3, <2>4
<1> QED BY <1>3, <1>4 DEF UnitAt, from

LEMMA RegionQuiet ==
    ASSUME NEW f \in Formats, Readable(f), NEW n \in {0, BackupBootSector}, NEW b \in Variants(f)
    PROVE  /\ RegionFindings(b, Geo(f), n) \subseteq {"VolumeDirty"}
           /\ b = f.boot => RegionFindings(b, Geo(f), n) = {}
<1> DEFINE g == Geo(f)
           at == SectorAt(g, n)
           sector(s) == Got(SectorAt(g, n + s), g.sector)
           whole(s) == sector(s) # Unread /\ Len(sector(s)) = g.sector
           ext == \E s \in 1 .. ExtCount : ~ whole(s) \/ sector(s)[g.sector] # Signature
           reserved == \/ sector(ReservedSector) = Unread
                       \/ \E i \in DOMAIN sector(ReservedSector) :
                              sector(ReservedSector)[i] # Zero
           fields == FieldFindings(BootOf(UnitAt(at)))
           notes == Annotations(b, g)
           refuse == Got(at, 1) = Unread
           oem == Got(SectorAt(g, n + OemParamSector), 1) \in {<<>>, Unread}
<1>1. /\ ExtCount \in Nat \ {0} /\ BootChecksumSector = ExtCount + 3
      /\ OemParamSector = ExtCount + 1 /\ ReservedSector = ExtCount + 2
      /\ g.sector \in Nat \ {0}
  BY ExfatVolumeAssumption, Layout DEF BootChecksumSector, OemParamSector, ReservedSector
<1>2. \A s \in 1 .. ExtCount : s \in 1 .. BootChecksumSector - 1 BY <1>1
<1>3. OemParamSector \in 1 .. BootChecksumSector - 1
      /\ ReservedSector \in 1 .. BootChecksumSector - 1 /\ ReservedSector \notin 1 .. ExtCount
  BY <1>1
<1>4. ext = FALSE
  <2>1. ASSUME NEW s \in 1 .. ExtCount PROVE whole(s) /\ sector(s)[g.sector] = Signature
    <3>1. s \in 1 .. BootChecksumSector - 1 BY <1>2
    <3>2. g.sector \in 1 .. g.sector BY <1>1
    <3> QED BY <3>1, <3>2, SectorHolds
  <2> QED BY <2>1
<1>5. reserved = FALSE BY <1>3, SectorHolds
<1>6. oem = FALSE BY <1>3, SectorHolds
<1>7. fields = {} /\ refuse = FALSE
  <2>1. CASE n = 0
    <3>1. at = 0 BY <2>1, Layout
    <3>2. PICK v \in Variants(f) : units[0] = [boot |-> v] BY DEF Readable, Driven
    <3>3. BootOf(UnitAt(at)) = v BY <3>1, <3>2, BootThere, VariantGeo
    <3> QED BY <3>1, <3>3, BootThere, VariantQuiet
  <2>2. CASE n = BackupBootSector
    <3>1. BootOf(UnitAt(at)) = f.boot BY <2>2, BootThere, OwnVariant, VariantGeo
    <3> QED BY <2>2, <3>1, BootThere, OwnVariant, VariantQuiet
  <2> QED BY <2>1, <2>2
<1>8. RegionFindings(b, g, n) =
         fields \union notes \union If(refuse, "unreadable")
         \union If(ext, "extended boot sector") \union If(oem, "OEM parameters")
         \union If(reserved, "reserved sector")
  BY Zenon DEF RegionFindings
<1>9. /\ notes \subseteq {"VolumeDirty"} /\ (b = f.boot => notes = {}) BY VariantQuiet
<1> HIDE DEF fields, notes, refuse, ext, oem, reserved
<1>10. /\ If(refuse, "unreadable") = {} /\ If(ext, "extended boot sector") = {}
       /\ If(oem, "OEM parameters") = {} /\ If(reserved, "reserved sector") = {}
  BY <1>4, <1>5, <1>6, <1>7 DEF If
<1> QED BY <1>7, <1>8, <1>9, <1>10

\* Where the two regions are read.
LEMMA RegionPlace ==
    ASSUME NEW f \in Formats, NEW n \in {0, BackupBootSector}
    PROVE  LET g == Geo(f)
               from == SectorAt(g, n)
           IN  /\ from \in Nat /\ Area(f) \in Nat \ {0} /\ g.sector \in Nat \ {0}
               /\ Region(f) \in Nat \ {0} /\ Region(f) = Area(f) + g.sector
               /\ from + Region(f) <= DeviceLen
               /\ SectorAt(g, n + BootChecksumSector) = from + Area(f)
<1> DEFINE g == Geo(f)
           first == FatAt(g, 0)
           end == FatAt(g, g.fats)
           from == SectorAt(g, n)
<1>1. /\ 2 * Region(f) <= first /\ first <= end /\ end <= HeapStart(f)
      /\ HeapStart(f) <= DeviceLen /\ first \in Nat /\ end \in Nat
      /\ HeapStart(f) \in Nat /\ Region(f) \in Nat \ {0} /\ DeviceLen \in Nat
      /\ Area(f) \in Nat \ {0} /\ g.sector \in Nat \ {0} /\ Region(f) = Area(f) + g.sector
  BY Layout
<1>2. from \in {0, Region(f)} /\ SectorAt(g, n + BootChecksumSector) = from + Area(f)
  <2>1. /\ SectorAt(g, 0) = 0 /\ SectorAt(g, 0 + BootChecksumSector) = Area(f)
        /\ SectorAt(g, BackupBootSector) = Region(f)
        /\ SectorAt(g, BackupBootSector + BootChecksumSector) = Region(f) + Area(f)
    BY Layout
  <2>2. CASE n = 0 BY <1>1, <2>1, <2>2
  <2>3. CASE n = BackupBootSector BY <1>1, <2>1, <2>3
  <2> QED BY <2>2, <2>3
<1> HIDE DEF first, end, from, g
<1>3. from \in Nat /\ from + Region(f) <= DeviceLen BY <1>1, <1>2
<1> QED BY <1>1, <1>2, <1>3 DEF from, g

LEMMA SumQuiet ==
    ASSUME NEW f \in Formats, Readable(f), NEW n \in {0, BackupBootSector}
    PROVE  SumFindings(Geo(f), n) = {}
<1> DEFINE g == Geo(f)
           size == g.sector
           from == SectorAt(g, n)
           at == SectorAt(g, n + BootChecksumSector)
           len == Area(f)
           area == BootArea(f.boot)
           covered == Got(from, len)
           sums == Got(at, size)
<1>1. /\ from \in Nat /\ len \in Nat \ {0} /\ size \in Nat \ {0} /\ DeviceLen \in Nat
      /\ Region(f) = len + size /\ from + Region(f) <= DeviceLen /\ at = from + len
      /\ len = BootChecksumSector * size
  BY RegionPlace, ExfatVolumeAssumption DEF Area
<1>2. UnitsInv /\ refused = {} /\ Driven(f) BY DEF Readable
<1>3. DOMAIN area = 1 .. len
  <2>1. size = f.boot.bytes_per_sector BY Layout
  <2> QED BY <1>1, <2>1 DEF BootArea
<1> HIDE DEF from, at, len, size, area
<1>4. at \in Nat /\ at + size <= DeviceLen /\ from + len <= DeviceLen BY <1>1
<1>5. /\ covered # Unread /\ Len(covered) = len /\ DOMAIN covered = 1 .. len
      /\ \A i \in 1 .. len : covered[i] = units[from + i - 1]
  BY <1>1, <1>2, <1>4, ReadUnits
<1>6. /\ sums # <<>> /\ sums # Unread /\ DOMAIN sums = 1 .. size
      /\ \A i \in 1 .. size : sums[i] = units[at + i - 1]
  BY <1>1, <1>2, <1>4, ReadUnits
<1>7. \A i \in 1 .. size : units[at + i - 1] = SumOf(f)
  BY <1>2, DrivenSum DEF at, size
<1>8. \A i \in 1 .. len : Summed(units[from + i - 1]) = Summed(area[i])
  BY <1>2, DrivenRegion DEF from, len, area
<1> HIDE DEF covered, sums
<1>9. Sum(covered) = Sum(area)
  <2>1. \A i \in 1 .. len : Summed(covered[i]) = Summed(area[i]) BY <1>5, <1>8
  <2> QED BY <1>3, <1>5, <2>1 DEF Sum
<1>10. sums[1] = [sum |-> Sum(covered)] /\ \A i \in DOMAIN sums : sums[i] = sums[1]
  <2>1. 1 \in 1 .. size BY <1>1
  <2>2. \A i \in 1 .. size : sums[i] = SumOf(f) BY <1>6, <1>7
  <2>3. SumOf(f) = [sum |-> Sum(area)] BY DEF SumOf, area
  <2> QED BY <1>6, <1>9, <2>1, <2>2, <2>3
<1>11. SumFindings(g, n) =
         IF Unread \in {covered, sums} THEN {"checksum unreadable"}
         ELSE If(sums = <<>> \/ sums[1] # [sum |-> Sum(covered)], "boot_checksum")
              \union If(Len(covered) < len, "boot region short")
              \union If(\E i \in DOMAIN sums : sums[i] # sums[1], "repetitions")
  <2>1. covered = Got(SectorAt(g, n), BootChecksumSector * g.sector)
    BY <1>1 DEF covered, from, size
  <2>2. sums = Got(SectorAt(g, n + BootChecksumSector), g.sector) BY DEF sums, at, size
  <2>3. BootChecksumSector * g.sector = len BY <1>1 DEF size
  <2> HIDE DEF g
  <2> QED BY <2>1, <2>2, <2>3, Zenon DEF SumFindings
<1>12. ~ (Len(covered) < len) BY <1>1, <1>5
<1> QED BY <1>5, <1>6, <1>10, <1>11, <1>12, Zenon DEF If

LEMMA DiffQuiet ==
    ASSUME NEW f \in Formats, Readable(f)
    PROVE  /\ DiffFindings(Geo(f)) \subseteq {"regions differ"}
           /\ units[0] = [boot |-> f.boot] => DiffFindings(Geo(f)) = {}
<1> DEFINE g == Geo(f)
           size == g.sector
           len == Region(f)
           area == Area(f)
           main == Got(0, len)
           backup == Got(len, len)
<1>1. /\ len \in Nat \ {0} /\ DeviceLen \in Nat /\ 0 + len <= DeviceLen
      /\ len + len <= DeviceLen /\ SectorAt(g, BackupBootSector) = len
      /\ SectorAt(g, 0) = 0 /\ BootRegionSectors * g.sector = len
      /\ area \in Nat \ {0} /\ size \in Nat \ {0} /\ len = area + size
      /\ SectorAt(g, 0 + BootChecksumSector) = area
      /\ SectorAt(g, BackupBootSector + BootChecksumSector) = len + area
  <2>1. /\ SectorAt(g, BackupBootSector) = len /\ SectorAt(g, 0) = 0
        /\ BootRegionSectors * g.sector = len
    BY Layout
  <2>2. len + len <= DeviceLen BY <2>1, RegionPlace
  <2>3. 0 + len <= DeviceLen BY <2>1, RegionPlace
  <2> QED BY <2>1, <2>2, <2>3, Layout
<1>2. UnitsInv /\ refused = {} /\ Driven(f) BY DEF Readable
<1>3. ASSUME NEW i \in 1 .. len, i # 1 \/ units[0] = [boot |-> f.boot]
      PROVE  units[0 + i - 1] = units[len + i - 1]
  <2>1. CASE i <= area
    <3>1. i \in 1 .. area BY <1>1, <2>1
    <3>2. BackupBootSector # 0 BY PieceNames
    <3>3. units[SectorAt(g, BackupBootSector) + i - 1] = BootArea(f.boot)[i]
      BY <1>2, <3>1, <3>2, DrivenRegion
    <3>4. units[len + i - 1] = BootArea(f.boot)[i] BY <1>1, <3>3
    <3>5. CASE i # 1
      <4>1. units[SectorAt(g, 0) + i - 1] = BootArea(f.boot)[i]
        BY <1>2, <3>1, <3>5, DrivenRegion
      <4> QED BY <1>1, <3>4, <4>1
    <3>6. CASE i = 1
      <4>1. 1 \in 1 .. BootChecksumSector * f.boot.bytes_per_sector
        <5>1. area = BootChecksumSector * f.boot.bytes_per_sector BY Layout DEF Area
        <5> QED BY <1>1, <5>1
      <4>2. BootArea(f.boot)[1] = [boot |-> f.boot] BY <4>1 DEF BootArea
      <4>3. units[0] = [boot |-> f.boot] BY <1>3, <3>6
      <4>4. 0 + i - 1 = 0 BY <3>6
      <4> QED BY <3>4, <3>6, <4>2, <4>3, <4>4
    <3> QED BY <3>5, <3>6
  <2>2. CASE ~ (i <= area)
    <3> DEFINE j == i - area
    <3>1. j \in 1 .. size BY <1>1, <2>2
    <3>2. units[SectorAt(g, 0 + BootChecksumSector) + j - 1] = SumOf(f)
      BY <1>2, <3>1, DrivenSum
    <3>3. units[SectorAt(g, BackupBootSector + BootChecksumSector) + j - 1] = SumOf(f)
      BY <1>2, <3>1, DrivenSum
    <3>4. area + j - 1 = 0 + i - 1 /\ (len + area) + j - 1 = len + i - 1
      BY <1>1, <3>1
    <3> HIDE DEF j
    <3> QED BY <1>1, <3>2, <3>3, <3>4
  <2> QED BY <2>1, <2>2
<1> HIDE DEF len, area, size
<1>4. /\ main # Unread /\ Len(main) = len /\ main = Span(0, len)
      /\ \A i \in 1 .. len : main[i] = units[0 + i - 1]
  BY <1>1, <1>2, ReadUnits
<1>5. /\ backup # Unread /\ Len(backup) = len /\ backup = Span(len, len)
      /\ \A i \in 1 .. len : backup[i] = units[len + i - 1]
  BY <1>1, <1>2, ReadUnits
<1>6. Summed([boot |-> BootOf(main[1])]) = Summed([boot |-> BootOf(backup[1])])
  <2>1. 1 \in 1 .. len /\ 0 + 1 - 1 = 0 /\ len + 1 - 1 = len BY <1>1
  <2>2. main[1] = units[0] /\ backup[1] = units[len]
    BY <1>4, <1>5, <2>1
  <2>3. PICK v \in Variants(f) : units[0] = [boot |-> v] BY <1>2 DEF Driven
  <2>4. BootOf(main[1]) = v BY <2>2, <2>3, VariantGeo
  <2>5. units[len] = [boot |-> f.boot]
    <3>1. UnitAt(len) = [boot |-> f.boot] /\ Got(len, 1) # Unread BY <1>1, BootThere
    <3>2. UnitAt(len) = units[len]
      <4>1. len + 1 <= DeviceLen BY <1>1
      <4>2. Got(len, 1) \notin {<<>>, Unread} BY <1>1, <1>2, <4>1, ReadUnits
      <4> QED BY <4>2 DEF UnitAt
    <3> QED BY <3>1, <3>2
  <2>6. BootOf(backup[1]) = f.boot BY <2>2, <2>5, OwnVariant, VariantGeo
  <2> QED BY <2>4, <2>6, VariantGeo
<1>7. units[0] = [boot |-> f.boot] => main = backup
  <2>1. ASSUME units[0] = [boot |-> f.boot] PROVE Span(0, len) = Span(len, len)
    <3>1. \A i \in 1 .. len : units[0 + i - 1] = units[len + i - 1] BY <1>3, <2>1
    <3> QED BY <3>1 DEF Span
  <2> QED BY <1>4, <1>5, <2>1
<1> HIDE DEF main, backup
<1>8. DiffFindings(g) =
        IF Unread \in {main, backup} THEN {"regions unreadable"}
        ELSE IF Len(main) # Len(backup) THEN {"lengths"}
        ELSE IF Same(main, backup) THEN {}
        ELSE {"regions differ"}
             \union If(Summed([boot |-> BootOf(main[1])])
                         # Summed([boot |-> BootOf(backup[1])]), "boot sector field")
  <2>1. main = Got(0, BootRegionSectors * g.sector) BY <1>1 DEF main
  <2>2. backup = Got(SectorAt(g, BackupBootSector), BootRegionSectors * g.sector)
    BY <1>1 DEF backup
  <2> HIDE DEF g
  <2> QED BY <2>1, <2>2, Zenon DEF DiffFindings
<1>9. DiffFindings(g) = IF main = backup THEN {} ELSE {"regions differ"}
  BY <1>4, <1>5, <1>6, <1>8 DEF Same, If
<1> QED BY <1>7, <1>9

LEMMA TableQuiet ==
    ASSUME NEW f \in Formats, Readable(f), NEW n \in 0 .. 1, n < Geo(f).fats
    PROVE  TableFindings(Geo(f), n) = {}
<1> DEFINE g == Geo(f)
           at == FatAt(g, n)
           head == Got(at, 1)
<1>1. TableEntries \in Nat /\ TableEntries > 1 /\ g.count \in Nat
  BY ExfatVolumeAssumption, FormatGeo
<1>2. 0 \in 0 .. g.count + 1 /\ 1 \in 0 .. g.count + 1 BY <1>1
<1>3. 0 \div TableEntries = 0 /\ 1 \div TableEntries = 0 BY <1>1
<1>4. at \in Nat /\ EntryAt(g, n, 0) = at + 0 /\ EntryAt(g, n, 1) = at + 0
      /\ EntryAt(g, n, 0) < DeviceLen
  BY <1>2, <1>3, EntryPlace
<1>5. UnitsInv /\ refused = {} /\ Driven(f) BY DEF Readable
<1>6. EntryIn(units[EntryAt(g, n, 0)], 0) = FreshEntry(f, 0)
      /\ EntryIn(units[EntryAt(g, n, 1)], 1) = FreshEntry(f, 1)
  BY <1>2, <1>5, DrivenTable
<1> HIDE DEF at, g
<1>7. EntryIn(units[at], 0) = FreshEntry(f, 0) /\ EntryIn(units[at], 1) = FreshEntry(f, 1)
      /\ at + 1 <= DeviceLen
  BY <1>4, <1>6, ExfatVolumeAssumption
<1>8. head # <<>> /\ head # Unread /\ head[1] = units[at]
  <2>1. \A i \in 1 .. 1 : head[i] = units[at + i - 1] /\ head # <<>> /\ head # Unread
    BY <1>4, <1>5, <1>7, ReadUnits
  <2>2. 1 \in 1 .. 1 /\ at + 1 - 1 = at BY <1>4
  <2> QED BY <2>1, <2>2
<1>9. FreshEntry(f, 0) = Media /\ FreshEntry(f, 1) = Eoc
  <2> DEFINE s == f.bitmap
             r == f.boot.first_cluster_of_root
  <2>1. r \in Clusters(f) /\ f.upcase \in Clusters(f) /\ s \in Seq(Clusters(f)) /\ s # <<>>
    BY FormatGeo, FormatBoot, FreshEntries
  <2>2. Len(s) \in Nat \ {0} /\ Last(s) = s[Len(s)] BY <2>1 DEF Last
  <2>3. \A i \in 1 .. Len(s) : s[i] \in Clusters(f) BY <2>1
  <2>4. Last(s) \in Clusters(f) BY <2>2, <2>3
  <2>5. \A c \in Clusters(f) : c # 0 /\ c # 1 BY DEF Clusters
  <2>6. \A i \in 1 .. Len(s) - 1 : s[i] \in Clusters(f) BY <2>2, <2>3
  <2>7. ~ (0 \in {1, r, f.upcase, Last(s)}) BY <2>1, <2>4, <2>5
  <2>8. ~ \E i \in 1 .. Len(s) - 1 : s[i] = 0 BY <2>5, <2>6
  <2>9. ~ \E i \in 1 .. Len(s) - 1 : s[i] = 1 BY <2>5, <2>6
  <2>10. FreshEntry(f, 0) = Media BY <2>7, <2>8 DEF FreshEntry
  <2>11. FreshEntry(f, 1) = Eoc BY <2>9 DEF FreshEntry
  <2> QED BY <2>10, <2>11
<1> HIDE DEF head
<1>10. TableFindings(g, n) =
         IF head = Unread THEN {"unreadable"}
         ELSE If(head = <<>> \/ EntryIn(head[1], 0) # Media, "entry 0")
              \union If(head = <<>> \/ EntryIn(head[1], 1) # Eoc, "entry 1")
  BY Zenon DEF TableFindings, head, at
<1> QED BY <1>7, <1>8, <1>9, <1>10, Zenon DEF If, g

LEMMA DivOrder ==
    ASSUME NEW a \in Nat, NEW b \in Nat, NEW d \in Nat \ {0}, a <= b
    PROVE  a \div d <= b \div d
<1>1. a \div d \in Nat /\ b \div d \in Nat BY DivNat
<1>2. b < ((b \div d) + 1) * d
  <2> DEFINE e == b \div d
  <2>1. b = e * d + (b % d) /\ b % d \in 0 .. d - 1 /\ e \in Nat OBVIOUS
  <2>2. (e + 1) * d = e * d + d BY <2>1
  <2>3. e * d \in Nat BY <2>1, MulNat
  <2> HIDE DEF e
  <2> QED BY <2>1, <2>2, <2>3 DEF e
<1>3. (b \div d) + 1 \in Nat BY <1>1
<1>4. a < ((b \div d) + 1) * d
  <2>1. ((b \div d) + 1) * d \in Nat BY <1>3, MulNat
  <2> QED BY <1>2, <2>1
<1>5. a \div d < (b \div d) + 1 BY <1>3, <1>4, DivBelow
<1> QED BY <1>1, <1>5

LEMMA UpcaseQuiet ==
    ASSUME NEW f \in Formats, Readable(f), geo = Geo(f), root = Entries(f), ReadUpcase
    PROVE  found' = found
<1> DEFINE g == Geo(f)
           p == g.cluster
           u == f.upcase
           one == <<u>>
           chain == ChainFrom(g, u)
           runs == ClusterRuns(g, chain.seen)
           read == ReadRuns(runs, 1)
<1>1. UnitsInv /\ refused = {} /\ Driven(f) BY DEF Readable
<1>2. root.upcase[1].first = u /\ root.upcase[1].len = 1 /\ root.upcase[1].sum = UpcaseTable
  BY DEF Entries
<1>3. found' = found \union In("upcase", ChainFindings(g, chain, {1})
         \union IF 1 > MaxUpcase THEN {"not verified"}
                ELSE If(read.end # "none", read.end)
                     \union IF Len(read.got) = 1 /\ 1 # 0
                            THEN If(read.got # UpcaseTable, "checksum")
                            ELSE If(runs # <<>>, "not verified"))
  <2> DEFINE told(h, first, len, sum) ==
                LET ch == ChainFrom(h, first)
                    rs == ClusterRuns(h, ch.seen)
                    rd == ReadRuns(rs, len)
                IN  found \union In("upcase", ChainFindings(h, ch, {len})
                      \union IF len > MaxUpcase THEN {"not verified"}
                             ELSE If(rd.end # "none", rd.end)
                                  \union IF Len(rd.got) = len /\ len # 0
                                         THEN If(rd.got # sum, "checksum")
                                         ELSE If(rs # <<>>, "not verified"))
             ref == root.upcase[1]
  <2>1. found' = told(geo, ref.first, ref.len, ref.sum) BY Zenon DEF ReadUpcase
  <2> HIDE DEF told, g, u
  <2>2. found' = told(g, u, 1, UpcaseTable) BY <1>2, <2>1 DEF g
  <2> QED BY <2>2, Zenon DEF told
<1>4. ChainStands(f, one) BY <1>1, DrivenFrame, FrameChains
<1>5. Len(one) = 1 /\ one[1] = u OBVIOUS
<1>6. p \in Nat \ {0} /\ MaxChain \in Nat \ {0} /\ MaxUpcase \in Nat \ {0} /\ u \in Clusters(f)
  BY FormatGeo, FormatBoot, ExfatVolumeAssumption
<1> HIDE DEF one
<1>7. chain.end = "eoc" /\ Len(chain.seen) = 1
  <2>1. Len(one) <= MaxChain BY <1>5, <1>6
  <2>2. ChainFrom(Geo(f), one[1]).end = "eoc" /\ Len(ChainFrom(Geo(f), one[1]).seen) = Len(one)
    BY <1>1, <1>4, <2>1, ChainRead, Zenon
  <2> QED BY <1>5, <2>2, Zenon
<1>8. ChainUnits(f, one, 1, read)
  <2>1. one[1] = u /\ 1 \in Nat BY <1>5
  <2>2. ChainUnits(f, one, 1, ReadRuns(ClusterRuns(Geo(f), ChainFrom(Geo(f), one[1]).seen), 1))
    BY <1>1, <1>4, ChainUnitsRead
  <2> QED BY <2>1, <2>2
<1> HIDE DEF chain, runs, read
<1>9. ChainFindings(g, chain, {1}) = {}
  <2>1. CeilDiv(1, p) = 1
    <3>1. 1 + p - 1 = p /\ p \div p = 1 BY <1>6
    <3> QED BY <3>1 DEF CeilDiv
  <2> QED BY <1>7, <2>1, NoChainFindings
<1>10. Len(read.got) = 1 /\ read.end = "none" /\ read.got \in Seq(Held)
       /\ read.got[1] = units[UnitOf(g, one, 1)]
  <2>1. MaxChain * p >= 1 /\ 1 * p >= 1
    <3>1. \A a, b \in Nat \ {0} : a * b >= 1 OBVIOUS
    <3> QED BY <1>6, <3>1
  <2>2. Min2(Len(one) * p, 1) = 1 /\ Min2(MaxChain * p, 1) = 1
    <3> DEFINE a == MaxChain * p
    <3>1. a \in Nat /\ a >= 1 /\ 1 * p \in Nat BY <1>6, <2>1, MulNat
    <3> HIDE DEF a
    <3>2. Min2(a, 1) = 1 /\ Min2(1 * p, 1) = 1 BY <2>1, <3>1 DEF Min2
    <3> QED BY <1>5, <3>2 DEF a
  <2>3. /\ read.got \in Seq(Held) /\ read.end = "none"
        /\ Len(read.got) = 1
        /\ \A i \in 1 .. Len(read.got) : read.got[i] = units[UnitOf(g, one, i)]
    BY <1>1, <1>8, <2>2, Zenon DEF ChainUnits
  <2> QED BY <2>3
<1>11. UnitOf(g, one, 1) = ClusterAt(g, u)
  <2>1. (1 - 1) \div p = 0 /\ (1 - 1) % p = 0 BY <1>6
  <2> HIDE DEF g
  <2>2. UnitOf(g, one, 1) = ClusterAt(g, one[0 + 1]) + 0
    <3>1. (1 - 1) \div g.cluster = 0 /\ (1 - 1) % g.cluster = 0 BY <2>1
    <3> QED BY ONLY <3>1, UnitIs
  <2>3. ClusterAt(g, u) \in Nat BY <1>6, ClusterPlace DEF g
  <2> QED BY <1>5, <2>2, <2>3
<1>12. read.got = UpcaseTable
  <2>1. read.got[1] = UpcaseTable[1] BY <1>1, <1>10, <1>11, DrivenRoot
  <2>2. read.got = <<read.got[1]>> BY <1>10
  <2>3. UpcaseTable = <<UpcaseTable[1]>> BY DEF UpcaseTable
  <2> QED BY <2>1, <2>2, <2>3
<1>13. ~ (1 > MaxUpcase) BY <1>6
<1> QED BY <1>3, <1>9, <1>10, <1>12, <1>13 DEF In, If

LEMMA ExpandQuiet ==
    ASSUME NEW f \in Formats, Readable(f), geo = Geo(f), ExpandTable
    PROVE  found' = found
<1> DEFINE g == Geo(f)
           last == g.count + 1
<1>1. /\ g.fats \in 1 .. 2 /\ g.count \in Nat \ {0} /\ g.count + 1 < Garbage
      /\ TableEntries \in Nat \ {0} /\ DeviceLen \in Nat /\ Min2(g.fats, 2) = g.fats
  BY FormatGeo, ExfatVolumeAssumption DEF Min2
<1>2. UnitsInv /\ refused = {} /\ Driven(f) BY DEF Readable
<1>3. PICK n \in 0 .. Min2(g.fats, 2) - 1 :
         LET from == EntryAt(g, n, 0)
             table == Got(from, EntryAt(g, n, g.count + 1) - from + 1)
             value(c) == EntryIn(table[(c \div TableEntries) + 1], c)
             read == {c \in 2 .. g.count + 1 : c \div TableEntries < Len(table)}
             odd == {c \in read : \/ value(c) = Bad
                                  \/ value(c) \notin {0, Eoc} /\ ~ ClusterInHeap(g, value(c))}
         IN  found' = found \union In("entries",
                                      IF table = Unread THEN {"unreadable"} ELSE odd)
  BY Zenon DEF ExpandTable
<1> DEFINE from == EntryAt(g, n, 0)
           at == FatAt(g, n)
           size == EntryAt(g, n, last) - from + 1
           table == Got(from, size)
           value(c) == EntryIn(table[(c \div TableEntries) + 1], c)
           read == {c \in 2 .. g.count + 1 : c \div TableEntries < Len(table)}
           odd == {c \in read : \/ value(c) = Bad
                                \/ value(c) \notin {0, Eoc} /\ ~ ClusterInHeap(g, value(c))}
<1>4. found' = found \union In("entries", IF table = Unread THEN {"unreadable"} ELSE odd)
  BY <1>3
<1>5. n \in 0 .. 1 /\ n < g.fats /\ last \in Nat BY <1>1
<1>6. at \in Nat /\ \A c \in 0 .. last : EntryAt(g, n, c) = at + c \div TableEntries
      /\ EntryAt(g, n, last) < DeviceLen
  BY <1>5, EntryPlace
<1> DEFINE q == last \div TableEntries
<1>7. from = at /\ q \in Nat /\ EntryAt(g, n, last) = at + q
  <2>1. 0 \div TableEntries = 0 BY <1>1
  <2>2. 0 \in 0 .. last /\ last \in 0 .. last BY <1>5
  <2> QED BY <1>1, <1>5, <1>6, <2>1, <2>2, DivNat
<1> HIDE DEF q, at, last
<1>8. size = q + 1 /\ from + size <= DeviceLen /\ size \in Nat \ {0} /\ from \in Nat
  <2>1. size = (at + q) - at + 1 BY <1>7
  <2>2. at + q < DeviceLen /\ at \in Nat
    <3>1. last \in 0 .. last BY <1>5
    <3> QED BY <1>6, <1>7, <3>1
  <2> HIDE DEF size, from
  <2> QED BY <1>1, <1>7, <2>1, <2>2
<1> HIDE DEF size, from
<1>9. table # Unread /\ \A i \in 1 .. size : table[i] = units[from + i - 1]
  BY <1>2, <1>8, ReadUnits
<1> HIDE DEF table
<1>10. ASSUME NEW c \in 2 .. g.count + 1 PROVE value(c) = FreshEntry(f, c) /\ c \in Clusters(f)
  <2> DEFINE k == c \div TableEntries
  <2>1. k \in Nat /\ k <= q
    <3>1. c \in Nat /\ c <= last /\ last \in Nat BY <1>1, <1>5 DEF last
    <3> QED BY <1>1, <3>1, DivNat, DivOrder DEF q
  <2>2. c \in 0 .. last BY <1>1 DEF last
  <2>3. EntryAt(g, n, c) = from + k BY <1>6, <1>7, <2>2
  <2> HIDE DEF k
  <2>4. table[k + 1] = units[from + k]
    <3>1. k + 1 \in 1 .. size /\ from + (k + 1) - 1 = from + k BY <1>7, <1>8, <2>1
    <3> QED BY <1>9, <3>1
  <2>5. EntryIn(units[EntryAt(g, n, c)], c) = FreshEntry(f, c)
    <3>1. c \in 0 .. g.count + 1 BY <1>1
    <3> QED BY <1>2, <1>5, <3>1, DrivenTable
  <2>6. c \in Clusters(f) BY FormatGeo DEF Clusters
  <2> QED BY <2>3, <2>4, <2>5, <2>6 DEF k
<1> HIDE DEF value
<1>11. ASSUME NEW c \in 2 .. g.count + 1
       PROVE  value(c) # Bad /\ (value(c) \in {0, Eoc} \/ ClusterInHeap(g, value(c)))
  <2>1. value(c) \in {0, Eoc} \union Clusters(f) BY <1>10, <1>11, FreshValues
  <2>2. CASE value(c) \in {0, Eoc} BY <2>2 DEF Eoc, Bad
  <2>3. CASE value(c) \in Clusters(f)
    <3>1. ClusterInHeap(g, value(c)) /\ value(c) \in 0 .. g.count + 1 BY <2>3, ClusterPlace
    <3> QED BY <1>1, <3>1 DEF Bad, Garbage
  <2> QED BY <2>1, <2>2, <2>3
<1>12. odd = {} BY <1>11
<1> HIDE DEF odd
<1> QED BY <1>4, <1>9, <1>12 DEF In

---------------------------------------------------------------------------
(* What the reader knows of a volume that at most a mount has touched, and *)
(* what it may have said of it.                                            *)

FromMount ==
    {<<"main", "VolumeDirty">>, <<"backup", "VolumeDirty">>, <<"backup", "regions differ">>}
Mild(f) == LargeRoot(f) \union FromMount
Knows(f) ==
    /\ stage[1] # "closed" => score = 100
    /\ PastBoot => boot \in Variants(f) /\ geo = Geo(f)
    /\ stage[1] = "region" => stage[2] \in {0, BackupBootSector}
    /\ stage[1] = "table" => stage[2] \in 0 .. 1 /\ stage[2] < Geo(f).fats
    /\ stage[1] \in {"bitmap", "crosscheck", "upcase"} => root = Entries(f)
    /\ stage[1] = "crosscheck" => BitsKnown(f, bits)
    /\ found \subseteq Mild(f) /\ listed = <<>>
Clean(f) == (PastBoot => boot = f.boot) /\ found \subseteq LargeRoot(f)

\* It goes on knowing, and says nothing when there is nothing to say.
Told(f) ==
    /\ Knows(f)'
    /\ units[0] = [boot |-> f.boot] /\ Clean(f) => Clean(f)'

\* A step past the boot sector, which says what it says.
LEMMA GoesOn ==
    ASSUME NEW f \in Formats, Knows(f), PastBoot, UNCHANGED <<disk, score, boot, geo>>,
           listed' = <<>>, NEW what, found' = found \union what, what \subseteq Mild(f),
           units[0] = [boot |-> f.boot] /\ boot = f.boot => what \subseteq LargeRoot(f),
           stage'[1] = "region" => stage'[2] \in {0, BackupBootSector},
           stage'[1] = "table" => stage'[2] \in 0 .. 1 /\ stage'[2] < Geo(f).fats,
           stage'[1] \in {"bitmap", "crosscheck", "upcase"} => root' = Entries(f),
           stage'[1] = "crosscheck" => BitsKnown(f, bits')
    PROVE  Told(f)
<1>1. BitsKnown(f, bits)' = BitsKnown(f, bits') BY SameDevice
<1>2. score' = 100 BY DEF Knows, PastBoot
<1>3. boot' \in Variants(f) /\ geo' = Geo(f) BY DEF Knows
<1>4. found' \subseteq Mild(f) BY DEF Knows
<1>5. Knows(f)' BY <1>1, <1>2, <1>3, <1>4 DEF Knows
<1>6. units[0] = [boot |-> f.boot] /\ Clean(f) => Clean(f)' BY DEF Clean
<1> QED BY <1>5, <1>6 DEF Told

\* A step past the boot sector that says nothing.
LEMMA SaysNothing ==
    ASSUME NEW f \in Formats, Knows(f), PastBoot, UNCHANGED <<disk, score, boot, geo, found>>,
           listed' = <<>>,
           stage'[1] = "region" => stage'[2] \in {0, BackupBootSector},
           stage'[1] = "table" => stage'[2] \in 0 .. 1 /\ stage'[2] < Geo(f).fats,
           stage'[1] \in {"bitmap", "crosscheck", "upcase"} => root' = Entries(f),
           stage'[1] = "crosscheck" => BitsKnown(f, bits')
    PROVE  Told(f)
<1> DEFINE what == {}
<1>1. /\ found' = found \union what /\ what \subseteq Mild(f)
      /\ units[0] = [boot |-> f.boot] /\ boot = f.boot => what \subseteq LargeRoot(f)
      /\ UNCHANGED <<disk, score, boot, geo>>
  OBVIOUS
<1> HIDE DEF what
<1> QED BY <1>1, GoesOn

LEMMA ProbeTold == ASSUME NEW f \in Formats, Readable(f), Knows(f), Probe PROVE Told(f)
<1>1. PICK v \in Variants(f) : units[0] = [boot |-> v] BY DEF Readable, Driven
<1>2. BootOf(UnitAt(0)) = v BY <1>1, BootThere, VariantGeo
<1>3. score' = 100 BY <1>2, VariantQuiet DEF Probe
<1>4. stage'[1] = "probed" /\ found' = found /\ listed' = listed BY DEF Probe
<1>5. Knows(f)' BY <1>3, <1>4 DEF Knows, PastBoot
<1>6. Clean(f) => Clean(f)' BY <1>4 DEF Clean, PastBoot
<1> QED BY <1>5, <1>6 DEF Told

LEMMA ReadBootTold == ASSUME NEW f \in Formats, Readable(f), Knows(f), ReadBoot PROVE Told(f)
<1>1. PICK v \in Variants(f) : units[0] = [boot |-> v] BY DEF Readable, Driven
<1>2. BootOf(UnitAt(0)) = v BY <1>1, BootThere, VariantGeo
<1>3. boot' = v /\ geo' = Geo(f) BY <1>2, VariantGeo DEF ReadBoot
<1>4. found' = found
  <2>1. GeometryFindings(boot') = {} BY <1>3, VariantQuiet
  <2> QED BY <2>1 DEF ReadBoot, In
<1>5. /\ stage'[1] = "region" /\ stage'[2] = 0 /\ stage[1] = "probed"
      /\ score' = score /\ listed' = listed
  BY DEF ReadBoot
<1>6. Knows(f)' BY <1>3, <1>4, <1>5 DEF Knows, PastBoot
<1>7. units[0] = [boot |-> f.boot] => v = f.boot
  <2>1. [boot |-> v].boot = v /\ [boot |-> f.boot].boot = f.boot OBVIOUS
  <2> QED BY <1>1, <2>1
<1>8. units[0] = [boot |-> f.boot] /\ Clean(f) => Clean(f)' BY <1>3, <1>4, <1>7 DEF Clean
<1> QED BY <1>6, <1>8 DEF Told

LEMMA ReadRegionTold ==
    ASSUME NEW f \in Formats, Readable(f), Knows(f), ReadRegion PROVE Told(f)
<1> DEFINE n == stage[2]
           which == IF n = 0 THEN "main" ELSE "backup"
           said == RegionFindings(boot, geo, n) \union SumFindings(geo, n)
           what == In(which, said)
<1>1. /\ stage[1] = "region" /\ found' = found \union what
      /\ stage' = IF which = "main" THEN <<"region", BackupBootSector>> ELSE <<"diff", 0>>
      /\ UNCHANGED <<disk, score, boot, geo, listed>>
  BY Zenon DEF ReadRegion
<1>2. PastBoot BY <1>1 DEF PastBoot
<1>3. boot \in Variants(f) /\ geo = Geo(f) /\ n \in {0, BackupBootSector} /\ listed = <<>>
  BY <1>1, <1>2 DEF Knows
<1>4. said \subseteq {"VolumeDirty"} /\ (boot = f.boot => said = {})
  <2>1. SumFindings(geo, n) = {} BY <1>3, SumQuiet
  <2>2. /\ RegionFindings(boot, geo, n) \subseteq {"VolumeDirty"}
        /\ boot = f.boot => RegionFindings(boot, geo, n) = {}
    BY <1>3, RegionQuiet
  <2> QED BY <2>1, <2>2
<1> HIDE DEF said
<1>5. what \subseteq Mild(f) /\ (boot = f.boot => what = {}) BY <1>4 DEF In, Mild, FromMount
<1>6. stage' = <<"region", BackupBootSector>> \/ stage' = <<"diff", 0>> BY <1>1
<1>7. /\ stage'[1] = "region" => stage'[2] \in {0, BackupBootSector}
      /\ stage'[1] \in {"region", "diff"}
  BY <1>6
<1>8. listed' = <<>> BY <1>1, <1>3
<1> HIDE DEF what
<1> QED BY <1>1, <1>2, <1>5, <1>7, <1>8, GoesOn

\* The table that is looked at next, if there is one more.
LEMMA TableNext ==
    ASSUME NEW f \in Formats, geo = Geo(f), NEW n \in Nat
    PROVE  \/ TableStage(n) = <<"table", n>> /\ n \in 0 .. 1 /\ n < Geo(f).fats
           \/ TableStage(n) = <<"root", 0>>
<1>1. Geo(f).fats \in 1 .. 2 BY FormatGeo
<1> QED BY <1>1 DEF TableStage, Min2

LEMMA CompareTold ==
    ASSUME NEW f \in Formats, Readable(f), Knows(f), Compare PROVE Told(f)
<1> DEFINE what == In("backup", DiffFindings(geo))
<1>1. stage[1] = "diff" /\ UNCHANGED <<disk, score, boot, geo, listed>>
  BY DEF Compare
<1>2. PastBoot BY <1>1 DEF PastBoot
<1>3. geo = Geo(f) /\ listed = <<>> BY <1>2 DEF Knows
<1>4. geo.trusted BY <1>3, FormatBoot
<1>5. found' = found \union what /\ stage' = TableStage(0) BY <1>4 DEF Compare, In, If
<1>6. /\ DiffFindings(geo) \subseteq {"regions differ"}
      /\ units[0] = [boot |-> f.boot] => DiffFindings(geo) = {}
  BY <1>3, DiffQuiet
<1>7. what \subseteq Mild(f) /\ (units[0] = [boot |-> f.boot] => what = {})
  BY <1>6 DEF In, Mild, FromMount
<1>8. \/ stage' = <<"table", 0>> /\ 0 \in 0 .. 1 /\ 0 < Geo(f).fats
      \/ stage' = <<"root", 0>>
  BY <1>3, <1>5, TableNext
<1>9. /\ stage'[1] = "table" => stage'[2] \in 0 .. 1 /\ stage'[2] < Geo(f).fats
      /\ stage'[1] \in {"table", "root"}
  BY <1>8
<1>10. listed' = <<>> BY <1>1, <1>3
<1> HIDE DEF what
<1> QED BY <1>1, <1>2, <1>5, <1>7, <1>9, <1>10, GoesOn

LEMMA ReadTableTold ==
    ASSUME NEW f \in Formats, Readable(f), Knows(f), ReadTable PROVE Told(f)
<1> DEFINE n == stage[2]
<1>1. /\ stage[1] = "table" /\ UNCHANGED <<disk, score, boot, geo, listed>>
      /\ found' = found \union In("table", TableFindings(geo, n))
      /\ stage' = TableStage(n + 1)
  BY DEF ReadTable
<1>2. PastBoot BY <1>1 DEF PastBoot
<1>3. geo = Geo(f) /\ listed = <<>> /\ n \in 0 .. 1 /\ n < Geo(f).fats
  BY <1>1, <1>2 DEF Knows
<1>4. TableFindings(geo, n) = {} BY <1>3, TableQuiet
<1>5. found' = found BY <1>1, <1>4 DEF In
<1>6. n + 1 \in Nat BY <1>3
<1>7. \/ stage' = <<"table", n + 1>> /\ n + 1 \in 0 .. 1 /\ n + 1 < Geo(f).fats
      \/ stage' = <<"root", 0>>
  BY <1>1, <1>3, <1>6, TableNext
<1>8. /\ stage'[1] = "table" => stage'[2] \in 0 .. 1 /\ stage'[2] < Geo(f).fats
      /\ stage'[1] \in {"table", "root"}
  BY <1>7
<1>9. listed' = <<>> BY <1>1, <1>3
<1> HIDE DEF n
<1> QED BY <1>1, <1>2, <1>5, <1>8, <1>9, SaysNothing

LEMMA ReadRootTold == ASSUME NEW f \in Formats, Readable(f), Knows(f), ReadRoot PROVE Told(f)
<1>1. /\ stage[1] = "root" /\ stage'[1] = "bitmap"
      /\ UNCHANGED <<disk, score, boot, geo, listed>>
  BY DEF ReadRoot
<1>2. PastBoot BY <1>1 DEF PastBoot
<1>3. geo = Geo(f) /\ listed' = <<>> BY <1>1, <1>2 DEF Knows
<1>4. Frame(f) /\ UnitsInv /\ refused = {} BY DrivenFrame DEF Readable
<1>5. root' = Entries(f) /\ found' = found \union LargeRoot(f) BY <1>3, <1>4, RootRead
<1>6. stage'[1] # "region" /\ stage'[1] # "table" /\ stage'[1] # "crosscheck" BY <1>1
<1> DEFINE what == LargeRoot(f)
<1>7. /\ found' = found \union what /\ what \subseteq Mild(f) /\ what \subseteq LargeRoot(f)
      /\ UNCHANGED <<disk, score, boot, geo>>
  BY <1>1, <1>5 DEF Mild
<1> HIDE DEF what
<1> QED BY <1>1, <1>2, <1>3, <1>5, <1>6, <1>7, GoesOn

LEMMA ReadBitmapTold ==
    ASSUME NEW f \in Formats, Len(f.bitmap) <= MaxChain, Readable(f), Knows(f), ReadBitmap
    PROVE  Told(f)
<1>1. stage[1] = "bitmap" /\ UNCHANGED <<disk, score, boot, geo, root, listed>>
  BY DEF ReadBitmap
<1>2. PastBoot BY <1>1 DEF PastBoot
<1>3. geo = Geo(f) /\ listed' = <<>> /\ root' = Entries(f) /\ root = Entries(f)
  BY <1>1, <1>2 DEF Knows
<1>4. Frame(f) /\ UnitsInv /\ refused = {} BY DrivenFrame DEF Readable
<1>5. BitsKnown(f, bits') /\ found' = found /\ stage' = <<"crosscheck", 0>>
  BY <1>3, <1>4, BitmapRead
<1>6. stage'[1] = "crosscheck" BY <1>5
<1> QED BY <1>1, <1>2, <1>3, <1>5, <1>6, SaysNothing

LEMMA CrosscheckTold ==
    ASSUME NEW f \in Formats, Readable(f), Knows(f), Crosscheck
    PROVE  Told(f)
<1>1. /\ stage[1] = "crosscheck" /\ stage'[1] = "upcase"
      /\ UNCHANGED <<disk, score, boot, geo, root>>
  BY DEF Crosscheck
<1>2. PastBoot BY <1>1 DEF PastBoot
<1>3. geo = Geo(f) /\ root' = Entries(f) /\ BitsKnown(f, bits) BY <1>1, <1>2 DEF Knows
<1>4. UnitsInv /\ refused = {} /\ StrayPlaces(f) = {} BY NoStrays DEF Readable
<1>5. listed' = <<>> /\ found' = found BY <1>3, <1>4, Crosschecked
<1>6. stage'[1] # "region" /\ stage'[1] # "table" /\ stage'[1] # "crosscheck" BY <1>1
<1> QED BY <1>1, <1>2, <1>3, <1>5, <1>6, SaysNothing

LEMMA ReadUpcaseTold ==
    ASSUME NEW f \in Formats, Readable(f), Knows(f), ReadUpcase
    PROVE  Told(f)
<1>1. /\ stage[1] = "upcase" /\ stage'[1] = "open"
      /\ UNCHANGED <<disk, score, boot, geo, listed>>
  BY DEF ReadUpcase
<1>2. PastBoot BY <1>1 DEF PastBoot
<1>3. geo = Geo(f) /\ listed' = <<>> /\ root = Entries(f) BY <1>1, <1>2 DEF Knows
<1>4. found' = found BY <1>3, UpcaseQuiet
<1>5. /\ stage'[1] # "region" /\ stage'[1] # "table" /\ stage'[1] # "crosscheck"
      /\ stage'[1] \notin {"bitmap", "crosscheck", "upcase"}
  BY <1>1
<1> QED BY <1>1, <1>2, <1>3, <1>4, <1>5, SaysNothing

LEMMA ExpandTold ==
    ASSUME NEW f \in Formats, Readable(f), Knows(f), ExpandTable
    PROVE  Told(f)
<1>1. /\ stage[1] = "open" /\ stage'[1] = "open"
      /\ UNCHANGED <<disk, score, boot, geo, listed>>
  BY DEF ExpandTable
<1>2. PastBoot BY <1>1 DEF PastBoot
<1>3. geo = Geo(f) /\ listed' = <<>> BY <1>1, <1>2 DEF Knows
<1>4. found' = found BY <1>3, ExpandQuiet
<1>5. /\ stage'[1] # "region" /\ stage'[1] # "table" /\ stage'[1] # "crosscheck"
      /\ stage'[1] \notin {"bitmap", "crosscheck", "upcase"}
  BY <1>1
<1> QED BY <1>1, <1>2, <1>3, <1>4, <1>5, SaysNothing

\* Both tables that a root directory names are there.
LEMMA TablesNamed ==
    ASSUME NEW f \in Formats, Knows(f), NoBitmap \/ NoUpcase
    PROVE  FALSE
<1>1. Entries(f).bitmap # <<>> /\ Entries(f).upcase # <<>> BY DEF Entries
<1>2. ~ NoBitmap BY <1>1 DEF NoBitmap, Knows
<1>3. ~ NoUpcase BY <1>1 DEF NoUpcase, Knows
<1> QED BY <1>2, <1>3

\* The reader at work.
ReadsOn ==
    \/ Probe \/ ReadBoot \/ ReadRegion \/ Compare \/ ReadTable \/ ReadRoot
    \/ ReadBitmap \/ NoBitmap \/ Crosscheck \/ ReadUpcase \/ NoUpcase \/ ExpandTable

LEMMA ReaderTold ==
    ASSUME NEW f \in Formats, Len(f.bitmap) <= MaxChain, Readable(f), Knows(f), ReadsOn
    PROVE  Told(f)
<1>1. CASE Probe BY <1>1, ProbeTold
<1>2. CASE ReadBoot BY <1>2, ReadBootTold
<1>3. CASE ReadRegion BY <1>3, ReadRegionTold
<1>4. CASE Compare BY <1>4, CompareTold
<1>5. CASE ReadTable BY <1>5, ReadTableTold
<1>6. CASE ReadRoot BY <1>6, ReadRootTold
<1>7. CASE ReadBitmap BY <1>7, ReadBitmapTold
<1>8. CASE Crosscheck BY <1>8, CrosscheckTold
<1>9. CASE ReadUpcase BY <1>9, ReadUpcaseTold
<1>10. CASE ExpandTable BY <1>10, ExpandTold
<1>11. CASE NoBitmap \/ NoUpcase BY <1>11, TablesNamed
<1> QED
  BY <1>1, <1>2, <1>3, <1>4, <1>5, <1>6, <1>7, <1>8, <1>9, <1>10, <1>11, Zenon DEF ReadsOn

LEMMA ReaderLeaves ==
    ASSUME ReadsOn
    PROVE  UNCHANGED <<disk, calm>> /\ stage'[1] # "closed"
<1>1. CASE Probe BY <1>1 DEF Probe
<1>2. CASE ReadBoot BY <1>2 DEF ReadBoot
<1>3. CASE ReadRegion BY <1>3 DEF ReadRegion
<1>4. CASE Compare BY <1>4 DEF Compare, TableStage
<1>5. CASE ReadTable BY <1>5 DEF ReadTable, TableStage
<1>6. CASE ReadRoot BY <1>6 DEF ReadRoot
<1>7. CASE ReadBitmap
  <2>1. /\ UNCHANGED <<disk, calm>>
        /\ stage' = <<"upcase", 0>> \/ stage' = <<"crosscheck", 0>>
    BY <1>7 DEF ReadBitmap
  <2> QED BY <2>1
<1>8. CASE NoBitmap BY <1>8 DEF NoBitmap
<1>9. CASE Crosscheck BY <1>9 DEF Crosscheck
<1>10. CASE ReadUpcase BY <1>10 DEF ReadUpcase
<1>11. CASE NoUpcase BY <1>11 DEF NoUpcase
<1>12. CASE ExpandTable
  <2>1. UNCHANGED <<disk, calm, stage>> /\ stage[1] = "open" BY <1>12 DEF ExpandTable
  <2> QED BY <2>1
<1> QED
  BY <1>1, <1>2, <1>3, <1>4, <1>5, <1>6, <1>7, <1>8, <1>9, <1>10, <1>11, <1>12, Zenon
     DEF ReadsOn

\* A volume as its formatter left it is one that nobody touched.
LEMMA WholeDriven ==
    ASSUME NEW f \in Formats, Whole(f)
    PROVE  Driven(f) /\ units[0] = [boot |-> f.boot]
<1>1. /\ MainRegion \in Pieces(f) /\ SectorAt(Geo(f), 0) = 0 /\ Area(f) \in Nat \ {0}
  BY PieceNames, Layout
<1>2. Kept(f, MainRegion) BY <1>1 DEF Whole
<1>3. /\ DOMAIN Written[f][MainRegion] = 0 .. 0 + Area(f) - 1
      /\ \A x \in DOMAIN Written[f][MainRegion] :
            Written[f][MainRegion][x] = BootArea(f.boot)[x - 0 + 1]
  BY <1>1, RegionPiece DEF MainRegion
<1>4. BootArea(f.boot)[1] = [boot |-> f.boot]
  <2>1. Area(f) = BootChecksumSector * f.boot.bytes_per_sector BY Layout DEF Area
  <2>2. 1 \in 1 .. BootChecksumSector * f.boot.bytes_per_sector BY <1>1, <2>1
  <2> QED BY <2>2 DEF BootArea
<1>5. units[0] = [boot |-> f.boot]
  <2>1. 0 \in DOMAIN Written[f][MainRegion] /\ 0 - 0 + 1 = 1 BY <1>1, <1>3
  <2>2. Written[f][MainRegion][0] = BootArea(f.boot)[1] BY <1>3, <2>1
  <2>3. units[0] = Written[f][MainRegion][0] BY <1>2, <2>1 DEF Kept
  <2> QED BY <1>4, <2>2, <2>3
<1>6. \A piece \in Pieces(f) \ {MainRegion} : Kept(f, piece) BY DEF Whole
<1>7. \A x \in DOMAIN Written[f][MainRegion] \ {0} : units[x] = Written[f][MainRegion][x]
  BY <1>2 DEF Kept
<1>8. Driven(f) BY <1>5, <1>6, <1>7, OwnVariant, Zenon DEF Driven
<1> QED BY <1>5, <1>8

\* Only the first unit of the device changes, and holds another variant.
LEMMA BootUnitOnly ==
    ASSUME NEW f \in Formats, UnitsInv, Driven(f), NEW b \in Variants(f),
           units' = WithBoot(b), UNCHANGED <<refused, bits>>
    PROVE  Driven(f)' /\ (BitsKnown(f, bits) => BitsKnown(f, bits)')
<1>1. units' = [units EXCEPT ![0] = [boot |-> b]] /\ DOMAIN units = Device BY DEF WithBoot, UnitsInv
<1>2. 0 \in Device BY ExfatVolumeAssumption DEF Device
<1>3. units'[0] = [boot |-> b] BY <1>1, <1>2
<1>4. \A x : x # 0 /\ x \in Device => units'[x] = units[x] BY <1>1
<1>5. ASSUME NEW piece \in Pieces(f) \ {MainRegion} PROVE Kept(f, piece)'
  <2>1. Kept(f, piece) BY DEF Driven
  <2>2. ASSUME NEW x \in DOMAIN Written[f][piece] PROVE units'[x] = Written[f][piece][x]
    <3>1. x \in Device /\ ZoneOf(f, x) = piece BY PieceZone
    <3>2. ZoneOf(f, 0) = MainRegion
      <4>1. Area(f) \in Nat \ {0} BY Layout
      <4> QED BY <4>1 DEF ZoneOf
    <3>3. x # 0 BY <3>1, <3>2
    <3> QED BY <1>4, <2>1, <3>1, <3>3 DEF Kept
  <2> QED BY <2>2 DEF Kept
<1>6. ASSUME NEW x \in DOMAIN Written[f][MainRegion] \ {0}
      PROVE  units'[x] = Written[f][MainRegion][x]
  <2>1. MainRegion \in Pieces(f) BY PieceNames
  <2>2. x \in Device BY <2>1, PieceZone
  <2>3. units[x] = Written[f][MainRegion][x] BY DEF Driven
  <2> QED BY <1>4, <2>2, <2>3
<1>7. Driven(f)' BY <1>3, <1>5, <1>6, Zenon DEF Driven
<1>8. ASSUME BitsKnown(f, bits), NEW i \in 1 .. Len(bits)
      PROVE  units'[UnitOf(Geo(f), f.bitmap, i)] = units[UnitOf(Geo(f), f.bitmap, i)]
  <2> DEFINE g == Geo(f)
             s == f.bitmap
             x == UnitOf(g, s, i)
             q == (i - 1) \div g.cluster
             r == (i - 1) % g.cluster
  <2>1. s \in Seq(Clusters(f)) /\ i \in 1 .. Len(s) * g.cluster
    BY <1>8, FormatBoot DEF BitsKnown
  <2>2. x \in Nat /\ x < DeviceLen /\ q + 1 \in 1 .. Len(s) BY <2>1, UnitPlace
  <2>3. g.cluster \in Nat \ {0} /\ r \in 0 .. g.cluster - 1
    <3>1. g.cluster \in Nat \ {0} /\ Len(s) \in Nat BY <2>1, FormatGeo
    <3>2. Len(s) * g.cluster \in Nat BY <3>1, MulNat
    <3>3. i - 1 \in Nat BY <2>1, <3>2
    <3> DEFINE j == i - 1
    <3> HIDE DEF g
    <3>4. j % g.cluster \in 0 .. g.cluster - 1 BY <3>1, <3>3
    <3> QED BY <3>1, <3>4
  <2>4. x = ClusterAt(g, s[q + 1]) + r BY UnitIs
  <2>5. s[q + 1] \in Clusters(f) BY <2>1, <2>2
  <2>6. ClusterAt(g, s[q + 1]) >= HeapStart(f) /\ ClusterAt(g, s[q + 1]) \in Nat
    <3> DEFINE c == s[q + 1]
               k == (c - 2) * g.cluster
    <3>1. c - 2 \in Nat BY <2>5 DEF Clusters
    <3>2. k \in Nat BY <2>3, <3>1, MulNat
    <3>3. HeapStart(f) \in Nat BY Layout
    <3>4. ClusterAt(g, c) = k + HeapStart(f) BY DEF ClusterAt, HeapStart
    <3> HIDE DEF k, c
    <3> QED BY <3>2, <3>3, <3>4 DEF c
  <2>7. HeapStart(f) > 0
    <3>1. /\ Region(f) \in Nat \ {0} /\ 2 * Region(f) <= FatAt(g, 0) /\ FatAt(g, 0) \in Nat
          /\ FatAt(g, 0) <= FatAt(g, g.fats) /\ FatAt(g, g.fats) <= HeapStart(f)
          /\ FatAt(g, g.fats) \in Nat /\ HeapStart(f) \in Nat
      BY Layout
    <3> HIDE DEF g
    <3> QED BY <3>1
  <2>8. HeapStart(f) \in Nat BY Layout
  <2> HIDE DEF x, q, r, g
  <2>9. x # 0 BY <2>3, <2>4, <2>6, <2>7, <2>8
  <2>10. x \in Device BY <2>2, ExfatVolumeAssumption DEF Device
  <2> QED BY <1>4, <2>9, <2>10 DEF x, g
<1>9. BitsKnown(f, bits) => BitsKnown(f, bits)'
  <2> SUFFICES ASSUME BitsKnown(f, bits) PROVE BitsKnown(f, bits)'
    OBVIOUS
  <2>1. \A i \in 1 .. Len(bits) :
           units'[UnitOf(Geo(f), f.bitmap, i)] = units[UnitOf(Geo(f), f.bitmap, i)]
    BY <1>8
  <2> QED BY <2>1 DEF BitsKnown
<1> QED BY <1>7, <1>9

---------------------------------------------------------------------------
(* The invariant.                                                          *)

QuietInv ==
    /\ changes \in Nat
    /\ stage[1] = "closed" => found = {} /\ listed = <<>>
    /\ calm /\ refused = {} => \A f \in Formats : Whole(f) => Knows(f) /\ Clean(f)
    /\ changes = 0 =>
         /\ job = {} /\ refused = {}
         /\ \E f \in Formats : /\ Driven(f) /\ Knows(f)
                               /\ \A m \in mounted : m \in Formats /\ m.boot \in Variants(f)

LEMMA QuietInit == Init => QuietInv
<1> SUFFICES ASSUME Init PROVE QuietInv
  OBVIOUS
<1>1. PICK f \in Formats : units = Fresh(f) BY DEF Init
<1>2. Driven(f) BY <1>1, FreshWhole, WholeDriven
<1>3. /\ changes = 0 /\ stage[1] = "closed" /\ found = {} /\ listed = <<>> /\ job = {}
      /\ refused = {} /\ mounted = {}
  BY DEF Init
<1>4. \A g \in Formats : Knows(g) /\ Clean(g)
  BY <1>3 DEF Knows, Clean, PastBoot
<1>5. \A m \in mounted : m \in Formats /\ m.boot \in Variants(f) BY <1>3
<1> QED BY <1>2, <1>3, <1>4, <1>5 DEF QuietInv

\* The bitmaps of the volumes are no longer than the limit on a chain, which is told too.
ShortBitmaps == \A f \in Formats : Len(f.bitmap) <= MaxChain

LEMMA SameVolume ==
    ASSUME UNCHANGED disk, NEW f \in Formats
    PROVE  Whole(f)' = Whole(f) /\ Driven(f)' = Driven(f)
<1>1. units' = units BY DEF disk
<1>2. \A piece : Kept(f, piece)' = Kept(f, piece) BY <1>1 DEF Kept
<1> QED BY <1>1, <1>2, Zenon DEF Whole, Driven

LEMMA QuietReader == ASSUME ShortBitmaps, UnitsInv, QuietInv, ReadsOn PROVE QuietInv'
<1>1. UNCHANGED <<disk, calm>> /\ stage'[1] # "closed" BY ReaderLeaves
<1>2. /\ units' = units /\ refused' = refused /\ job' = job /\ mounted' = mounted
      /\ changes' = changes
  BY <1>1 DEF disk
<1>3. ASSUME NEW f \in Formats, refused = {}, Driven(f), Knows(f) PROVE Told(f)
  BY <1>3, ReaderTold DEF ShortBitmaps, Readable
<1>4. ASSUME calm, refused = {}, NEW f \in Formats, Whole(f)' PROVE Knows(f)' /\ Clean(f)'
  <2>1. Whole(f) BY <1>1, <1>4, SameVolume
  <2>2. Driven(f) /\ units[0] = [boot |-> f.boot] BY <2>1, WholeDriven
  <2>3. Knows(f) /\ Clean(f) BY <1>4, <2>1 DEF QuietInv
  <2> QED BY <1>3, <1>4, <2>2, <2>3 DEF Told
<1>5. ASSUME changes = 0
      PROVE  /\ job = {} /\ refused = {}
             /\ \E f \in Formats :
                   /\ Driven(f)' /\ Knows(f)'
                   /\ \A m \in mounted : m \in Formats /\ m.boot \in Variants(f)
  <2>1. /\ job = {} /\ refused = {}
        /\ \E f \in Formats : /\ Driven(f) /\ Knows(f)
                              /\ \A m \in mounted : m \in Formats /\ m.boot \in Variants(f)
    BY <1>5, Zenon DEF QuietInv
  <2>2. PICK f \in Formats : /\ Driven(f) /\ Knows(f)
                             /\ \A m \in mounted : m \in Formats /\ m.boot \in Variants(f)
    BY <2>1, Zenon
  <2>3. Driven(f)' BY <1>1, <2>2, SameVolume
  <2>4. Knows(f)' BY <1>3, <2>1, <2>2 DEF Told
  <2> QED BY <2>1, <2>2, <2>3, <2>4, Zenon
<1>6. changes \in Nat BY DEF QuietInv
<1> QED BY <1>1, <1>2, <1>4, <1>5, <1>6 DEF QuietInv

\* A mount, or its end: the reader knows what it knew.
LEMMA DriverQuiet ==
    ASSUME UnitsInv, QuietInv, changes = 0, Mount \/ Unmount
    PROVE  \E f \in Formats : /\ Driven(f)' /\ Knows(f)'
                              /\ \A m \in mounted' : m \in Formats /\ m.boot \in Variants(f)
<1>1. PICK f \in Formats : /\ Driven(f) /\ Knows(f)
                           /\ \A m \in mounted : m \in Formats /\ m.boot \in Variants(f)
  BY Zenon DEF QuietInv
<1>2. UNCHANGED <<stage, shown, refused>> BY DEF Mount, Unmount, Unseen
<1>3. \E b \in Variants(f) : units' = WithBoot(b)
  <2>1. CASE Mount
    <3>1. PICK m \in Formats :
             /\ Whole(m) /\ mounted' = {m}
             /\ units' = WithBoot([m.boot EXCEPT !.volume_flags = @ \union {"VolumeDirty"}])
      BY <2>1 DEF Mount
    <3>2. units[0] = [boot |-> m.boot] BY <3>1, WholeDriven
    <3>3. PICK v \in Variants(f) : units[0] = [boot |-> v] BY <1>1 DEF Driven
    <3>4. m.boot = v
      <4>1. [boot |-> m.boot].boot = m.boot /\ [boot |-> v].boot = v OBVIOUS
      <4> QED BY <3>2, <3>3, <4>1
    <3>5. [v EXCEPT !.volume_flags = @ \union {"VolumeDirty"}] \in Variants(f)
      BY VariantDriven
    <3> QED BY <3>1, <3>4, <3>5
  <2>2. CASE Unmount
    <3>5. PICK m \in mounted : \E percent \in {m.boot.percent_in_use, 50} :
             units' = WithBoot([m.boot EXCEPT !.percent_in_use = percent])
      BY <2>2 DEF Unmount
    <3>1. PICK percent \in {m.boot.percent_in_use, 50} :
             units' = WithBoot([m.boot EXCEPT !.percent_in_use = percent])
      BY <3>5
    <3>2. m.boot \in Variants(f) BY <1>1
    <3>3. percent \in Percents
      <4>1. m.boot.percent_in_use \in Percents BY <3>2, VariantDriven
      <4> QED BY <4>1 DEF Percents
    <3>4. [m.boot EXCEPT !.percent_in_use = percent] \in Variants(f)
      BY <3>2, <3>3, VariantDriven
    <3> QED BY <3>1, <3>4
  <2> QED BY <2>1, <2>2
<1>4. \A m \in mounted' : m \in Formats /\ m.boot \in Variants(f)
  <2>1. CASE Mount
    <3>1. PICK m \in Formats : Whole(m) /\ mounted' = {m} BY <2>1 DEF Mount
    <3>2. units[0] = [boot |-> m.boot] BY <3>1, WholeDriven
    <3>3. PICK v \in Variants(f) : units[0] = [boot |-> v] BY <1>1 DEF Driven
    <3>4. m.boot = v
      <4>1. [boot |-> m.boot].boot = m.boot /\ [boot |-> v].boot = v OBVIOUS
      <4> QED BY <3>2, <3>3, <4>1
    <3> QED BY <3>1, <3>4
  <2>2. CASE Unmount BY <2>2 DEF Unmount
  <2> QED BY <2>1, <2>2
<1>5. PICK b \in Variants(f) : units' = WithBoot(b) BY <1>3
<1>6. bits' = bits /\ refused' = refused BY <1>2 DEF shown
<1>7. Driven(f)' /\ (BitsKnown(f, bits) => BitsKnown(f, bits)')
  BY <1>1, <1>5, <1>6, BootUnitOnly
<1>8. Knows(f)' BY <1>1, <1>2, <1>7 DEF Knows, PastBoot, shown
<1> QED BY <1>4, <1>7, <1>8

LEMMA OthersChange ==
    ASSUME Others, QuietInv
    PROVE  /\ Unseen
           /\ changes' \in Nat
           /\ changes' = 0 => changes = 0 /\ (Mount \/ Unmount)
<1>1. changes \in Nat /\ (changes = 0 => job = {}) BY DEF QuietInv
<1>2. CASE BeginFormat BY <1>1, <1>2 DEF BeginFormat, Changed
<1>3. CASE WritePiece BY <1>1, <1>3 DEF WritePiece
<1>4. CASE Mount BY <1>1, <1>4 DEF Mount
<1>5. CASE Unmount BY <1>1, <1>5 DEF Unmount
<1>6. CASE MarkCluster BY <1>1, <1>6 DEF MarkCluster, Changed
<1>7. CASE LinkCluster BY <1>1, <1>7 DEF LinkCluster, Changed
<1>8. CASE Damage BY <1>1, <1>8 DEF Damage, Changed
<1>9. CASE Refuse BY <1>1, <1>9 DEF Refuse, Changed
<1> QED BY <1>2, <1>3, <1>4, <1>5, <1>6, <1>7, <1>8, <1>9, Zenon DEF Others

\* With nothing open nothing has been said.
LEMMA NothingSaidYet ==
    ASSUME NEW f, stage[1] = "closed", found = {}, listed = <<>>
    PROVE  Knows(f) /\ Clean(f)
BY DEF Knows, Clean, PastBoot

LEMMA QuietOthers == ASSUME UnitsInv, QuietInv, Others PROVE QuietInv'
<1>1. /\ Unseen /\ changes' \in Nat
      /\ changes' = 0 => changes = 0 /\ (Mount \/ Unmount)
  BY OthersChange
<1>2. /\ stage' = stage /\ found' = found /\ listed' = listed
      /\ calm' => stage[1] = "closed"
  BY <1>1 DEF Unseen, shown
<1>3. stage'[1] = "closed" => found' = {} /\ listed' = <<>> BY <1>2 DEF QuietInv
<1>4. ASSUME calm', NEW f \in Formats PROVE Knows(f)' /\ Clean(f)'
  <2>1. stage'[1] = "closed" /\ found' = {} /\ listed' = <<>> BY <1>2, <1>3, <1>4
  <2> QED BY <2>1 DEF Knows, Clean, PastBoot
<1>5. ASSUME changes' = 0
      PROVE  /\ job' = {} /\ refused' = {}
             /\ \E f \in Formats :
                   /\ Driven(f)' /\ Knows(f)'
                   /\ \A m \in mounted' : m \in Formats /\ m.boot \in Variants(f)
  <2>1. changes = 0 /\ (Mount \/ Unmount) BY <1>1, <1>5
  <2>2. job = {} /\ refused = {} BY <2>1 DEF QuietInv
  <2>3. job' = job /\ refused' = refused BY <2>1 DEF Mount, Unmount
  <2> QED BY <2>1, <2>2, <2>3, DriverQuiet
<1> QED BY <1>1, <1>3, <1>4, <1>5 DEF QuietInv

LEMMA QuietClose == ASSUME QuietInv, Close PROVE QuietInv'
<1>1. /\ UNCHANGED disk /\ stage'[1] = "closed" /\ found' = {} /\ listed' = <<>>
  BY DEF Close
<1>2. \A f \in Formats : Knows(f)' /\ Clean(f)' BY <1>1 DEF Knows, Clean, PastBoot
<1>3. job' = job /\ refused' = refused /\ mounted' = mounted /\ changes' = changes
  BY <1>1 DEF disk
<1>4. \A f \in Formats : Driven(f)' = Driven(f) BY <1>1, SameVolume
<1>5. ASSUME changes = 0
      PROVE  /\ job = {} /\ refused = {}
             /\ \E f \in Formats :
                   /\ Driven(f)' /\ Knows(f)'
                   /\ \A m \in mounted : m \in Formats /\ m.boot \in Variants(f)
  BY <1>2, <1>4, <1>5, Zenon DEF QuietInv
<1>6. changes \in Nat BY DEF QuietInv
<1> QED BY <1>1, <1>2, <1>3, <1>5, <1>6 DEF QuietInv

LEMMA QuietStutter == ASSUME QuietInv, UNCHANGED vars PROVE QuietInv'
<1>1. /\ UNCHANGED disk /\ UNCHANGED <<calm, stage, score, boot, geo, found, root, bits, listed>>
  BY DEF vars, shown
<1>2. job' = job /\ refused' = refused /\ mounted' = mounted /\ changes' = changes
  BY <1>1 DEF disk
<1>3. \A f \in Formats : Driven(f)' = Driven(f) /\ Whole(f)' = Whole(f) BY <1>1, SameVolume
<1>4. \A f \in Formats : Knows(f)' = Knows(f) /\ Clean(f)' = Clean(f)
  <2> SUFFICES ASSUME NEW f \in Formats PROVE Knows(f)' = Knows(f) /\ Clean(f)' = Clean(f)
    OBVIOUS
  <2>1. BitsKnown(f, bits)' = BitsKnown(f, bits)
    <3>1. BitsKnown(f, bits)' = BitsKnown(f, bits') BY <1>1, SameDevice
    <3> QED BY <1>1, <3>1
  <2>2. Knows(f)' = Knows(f) BY <1>1, <2>1 DEF Knows, PastBoot
  <2>3. Clean(f)' = Clean(f) BY <1>1 DEF Clean, PastBoot
  <2> QED BY <2>2, <2>3
<1>5. stage' = stage /\ found' = found /\ listed' = listed /\ calm' = calm BY <1>1
<1> QED BY <1>2, <1>3, <1>4, <1>5, Zenon DEF QuietInv

LEMMA QuietNext == ASSUME ShortBitmaps PROVE UnitsInv /\ QuietInv /\ [Next]_vars => QuietInv'
<1> SUFFICES ASSUME UnitsInv, QuietInv, [Next]_vars PROVE QuietInv'
  OBVIOUS
<1>1. CASE ReadsOn BY <1>1, QuietReader
<1>2. CASE Close BY <1>2, QuietClose
<1>3. CASE Others BY <1>3, QuietOthers
<1>4. CASE UNCHANGED vars BY <1>4, QuietStutter
<1>5. Next => ReadsOn \/ Close \/ Others BY Zenon DEF Next, ReadsOn
<1> QED BY <1>1, <1>2, <1>3, <1>4, <1>5

LEMMA QuietFollows == QuietInv => HealthyIsQuiet
<1> SUFFICES ASSUME QuietInv, calm, refused = {}
             PROVE  /\ \A f \in Formats :
                          stage[1] # "closed" /\ Whole(f)
                             => score = 100 /\ found \subseteq LargeRoot(f) /\ listed = <<>>
                    /\ changes = 0 =>
                          \E f \in Formats :
                             /\ \A piece \in Pieces(f) \ {MainRegion} : Kept(f, piece)
                             /\ found \subseteq Mild(f)
  BY Zenon DEF HealthyIsQuiet, Mild, FromMount, MainRegion
<1>1. ASSUME stage[1] # "closed", NEW f \in Formats, Whole(f)
      PROVE  score = 100 /\ found \subseteq LargeRoot(f) /\ listed = <<>>
  BY <1>1 DEF QuietInv, Knows, Clean
<1>2. ASSUME changes = 0
      PROVE  \E f \in Formats : /\ \A piece \in Pieces(f) \ {MainRegion} : Kept(f, piece)
                                /\ found \subseteq Mild(f)
  <2>1. PICK f \in Formats : Driven(f) /\ Knows(f) BY <1>2, Zenon DEF QuietInv
  <2>2. \A piece \in Pieces(f) \ {MainRegion} : Kept(f, piece) BY <2>1, Zenon DEF Driven
  <2>3. found \subseteq Mild(f) BY <2>1, Zenon DEF Knows
  <2> QED BY <2>2, <2>3
<1> QED BY <1>1, <1>2

\* In every run, for every set of volumes whose bitmaps are no longer than the limit on a
\* chain: the probe is sure of a volume as its formatter left it and nothing is found wrong
\* with it, wherever its tables and the pieces of its bitmap lie, but that a root directory
\* in a cluster larger than what is scanned is said to be; and a mount, its end and
\* the reading between them tell of nothing more but a dirty volume and regions that differ
\* (probe, from_boot, boot_region, boot_checksum_node, backup_diff, fat_node,
\* directory_node, bitmap_fat_crosscheck, the FatEntries of expand).
THEOREM AlwaysQuiet == ASSUME ShortBitmaps PROVE Spec => []HealthyIsQuiet
<1>1. Init => Inv /\ QuietInv BY InvInit, QuietInit
<1>2. Inv /\ QuietInv /\ [Next]_vars => (Inv /\ QuietInv)' BY InvNext, QuietNext DEF Inv
<1>3. QuietInv => HealthyIsQuiet BY QuietFollows
<1> QED BY <1>1, <1>2, <1>3, PTL DEF Spec
===========================================================================
