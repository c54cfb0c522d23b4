----------------------------- MODULE FatVolume -----------------------------
(***************************************************************************)
(* Reading a FAT volume: the probe, the boot sector, FSInfo and the backup *)
(* of the boot sector as they come, then, when somebody opens them, the    *)
(* head of a table, the comparison of the tables and a directory, loop by  *)
(* loop.  Meanwhile a formatter may write another volume over this one and *)
(* die, a driver may update the tables, one after the other, a field of    *)
(* the boot sector may be damaged and a sector may fail.                   *)
(*                                                                         *)
(* The device is bytes where tables are, and whole records where boot      *)
(* sectors and FSInfo are.  What a record of a directory holds is the      *)
(* subject of FatDirectory; here a record is the byte it begins at.        *)
(***************************************************************************)
EXTENDS FatGeometry, SequencesExt, Selection

CONSTANTS
    DeviceLen,
    Formats,            \* the boot sectors a formatter writes
    DamagedFields,      \* [field |-> values] that damage leaves in one
    EntryValues,        \* what a driver writes into a table
    InUse,              \* entries that a volume may have in use at first
    MaxDirClusters, MaxRecords, MaxCopies, MaxDiffs, CompareLimit, CompareChunk,
    PreviewEntries,
    MaxChanges          \* bound: formats begun, updates, damages

ASSUME FatVolumeAssumption ==
    /\ DeviceLen \in 0 .. Top /\ EntryValues \subseteq Nat /\ Formats \subseteq Boot
    /\ {MaxDirClusters, MaxRecords, MaxCopies} \subseteq Nat \ {0}
    /\ {CompareLimit, CompareChunk} \subseteq Nat \ {0}
    /\ {MaxDiffs, PreviewEntries, MaxChanges} \subseteq Nat
    /\ \A field \in DOMAIN DamagedFields : \A v \in DamagedFields[field] :
          [NoBoot EXCEPT ![field] = v] \in Boot

VARIABLES
    sectors,    \* boot sectors on the device, by the byte they begin at
    infos,      \* FSInfo sectors likewise: [free, next]
    bytes,      \* the other bytes
    refused,    \* sectors the device does not read
    job,        \* what a formatter still has to write: [format, pieces]
    changes,
    calm,       \* nobody wrote since the probe
    stage,
    score,      \* what FatProbe::probe gave
    boot, geom, \* the boot sector as it was read, and what follows from it
    found,      \* problems shown so far: <<where, what>>
    cmp,        \* a comparison under way: [copy, at, left, diffs]
    verdicts,   \* comparisons that ended: copy |-> [at, diffs, stopped]
    dir,        \* the directory being opened: [start, cur, chain, end, next]
    runs,       \* where it lies
    listing,    \* its records
    asked       \* the last read: [what, at, len]

disk == <<sectors, infos, bytes, refused, job, changes>>
compared == <<cmp, verdicts>>
opened == <<dir, runs, listing>>
vars == <<disk, calm, stage, score, boot, geom, found, compared, opened, asked>>

---------------------------------------------------------------------------
(* What a formatter writes.                                                *)

Base == 0
GeomOf(f) == Derive(f, Base)

\* A formatter writes boot sectors by the rules, for volumes that the device has room for
\* and whose clusters have a number each.
ASSUME FormattersAssumption ==
    \A f \in Formats :
        LET g == GeomOf(f)
        IN  /\ f.sig /\ f.jump /\ f.oem # "exfat" /\ f.fs_type = g.kind
            /\ f.reserved_sectors # 0 /\ f.num_fats \in {1, 2}
            /\ f.media \in {240} \union (248 .. 255)
            /\ f.total_sectors_16 = 0 \/ f.total_sectors_32 = 0
            /\ g.sane /\ LastCluster(g) < BadMark(g.kind)
            /\ g.base + VolumeBytes(g) <= DeviceLen
            /\ f.root_entries = 0 <=> g.kind = "FAT32"
            /\ g.kind = "FAT32" => /\ f.fat_size_16 = 0 /\ f.backup_boot_sector # 0
                                   /\ ClusterInRange(g, f.root_cluster)

InfoAt(f) == f.fsinfo_sector * f.bytes_per_sector + Base
SpareAt(f) == f.backup_boot_sector * f.bytes_per_sector + Base

\* The bytes of a table with these entries.
TableByte(kind, e, k) ==
    LET entry(c) == IF c \in DOMAIN e THEN e[c] ELSE 0
    IN  CASE kind = "FAT16" -> (entry(k \div 2) \div 256^(k % 2)) % 256
          [] kind = "FAT32" -> (entry(k \div 4) \div 256^(k % 4)) % 256
          [] kind = "FAT12" ->
                LET even == entry(2 * (k \div 3))  odd == entry(2 * (k \div 3) + 1)
                IN  CASE k % 3 = 0 -> even % 256
                      [] k % 3 = 1 -> even \div 256 + 16 * (odd % 16)
                      [] k % 3 = 2 -> odd \div 16

\* synth_fat32: the media byte, an end of chain, a root directory of one cluster.
FreshEntries(g, media) ==
    [c \in 0 .. LastCluster(g) |->
        IF c = 0 THEN Mask(g.kind) - 255 + media
        ELSE IF c = 1 \/ (g.kind = "FAT32" /\ c = g.root_cluster) THEN Mask(g.kind) ELSE 0]

InTable(g, n, k) == FatOffset(g, n) <= k /\ k < FatOffset(g, n) + FatBytes(g)
WithTable(bs, g, n, e) ==
    [k \in DOMAIN bs |->
        IF InTable(g, n, k) THEN TableByte(g.kind, e, k - FatOffset(g, n)) ELSE bs[k]]

Tables(f) == {<<"fat", n>> : n \in 0 .. f.num_fats - 1}
Pieces(f) ==
    {<<"boot", 0>>} \union Tables(f)
    \union IF GeomOf(f).kind = "FAT32" THEN {<<"info", 0>>, <<"spare", 0>>} ELSE {}

\* What remains of sectors when len bytes are written at `at`.
Outside(fn, at, len) ==
    {x \in DOMAIN fn : x + BootSectorLen <= at \/ x >= at + len}
Uncovered(fn, at, len) == [x \in Outside(fn, at, len) |-> fn[x]]
Put(fn, at, v) ==
    [x \in {at} \union Outside(fn, at, BootSectorLen) |-> IF x = at THEN v ELSE fn[x]]

SectorByte == 170
Blotted(bs, at) ==
    [k \in DOMAIN bs |-> IF k \in at .. at + BootSectorLen - 1 THEN SectorByte ELSE bs[k]]

FreshInfo == [free |-> Mask("FAT32"), next |-> Mask("FAT32")]

WritePieceOf(f, piece) ==
    LET g == GeomOf(f)
        at == FatOffset(g, piece[2])
        sector(x) == /\ sectors' = Put(sectors, x, f) /\ bytes' = Blotted(bytes, x)
                     /\ infos' = Uncovered(infos, x, BootSectorLen)
    IN  \/ piece[1] = "boot" /\ sector(Base)
        \/ piece[1] = "spare" /\ sector(SpareAt(f))
        \/ /\ piece[1] = "info"
           /\ infos' = Put(infos, InfoAt(f), FreshInfo) /\ bytes' = Blotted(bytes, InfoAt(f))
           /\ sectors' = Uncovered(sectors, InfoAt(f), BootSectorLen)
        \/ /\ piece[1] = "fat"
           /\ bytes' = WithTable(bytes, g, piece[2], FreshEntries(g, f.media))
           /\ sectors' = Uncovered(sectors, at, FatBytes(g))
           /\ infos' = Uncovered(infos, at, FatBytes(g))

---------------------------------------------------------------------------
(* Reads.                                                                  *)

Min2(m, n) == IF m < n THEN m ELSE n

Refuses(at, len) ==
    \E x \in refused : x < at + len /\ at < x + BootSectorLen /\ x < DeviceLen
\* read_exact_opt: how many of the bytes there are, or Over.
Got(at, len) ==
    IF at >= DeviceLen THEN 0
    ELSE IF Refuses(at, len) THEN Over ELSE Min2(len, DeviceLen - at)

Stored(g, n, c) ==
    EntryValue(g, c, [i \in 1 .. EntryWidth(g) |-> bytes[FatEntryOffset(g, n, c) + i - 1]])

\* fat_entry; Over when it cannot be had.
FatEntry(g, n, c) ==
    IF EntryInTable(g, n, c) /\ Got(FatEntryOffset(g, n, c), EntryWidth(g)) = EntryWidth(g)
    THEN Stored(g, n, c) ELSE Over

BootAt(at) ==
    IF Refuses(at, BootSectorLen) \/ at \notin DOMAIN sectors THEN NoBoot ELSE sectors[at]

---------------------------------------------------------------------------
(* What is said about a boot sector.                                       *)

In(where, what) == {<<where, w>> : w \in what}
If(condition, what) == IF condition THEN {what} ELSE {}

DeriveFindings(b) ==
    LET sized == Sized(b)
        laid == LaidOut(b, Base)
        fat32 == laid /\ KindOf(ClusterCount(b)) = "FAT32"
    IN  If(~ BpsOk(b), "bytes_per_sector") \union If(~ SpcOk(b), "sectors_per_cluster")
        \union If(b.total_sectors_16 # 0 /\ b.total_sectors_32 # 0, "total_sectors_16")
        \union If(FatSize(b) = 0, "fat_size_16")
        \union If(TotalSectors(b) = 0, "total_sectors_16")
        \union If(sized /\ ~ laid, "total_sectors_32")
        \union If(laid /\ ClusterCount(b) = 0, "sectors_per_cluster")
        \union If(fat32 /\ b.fat_size_16 # 0, "fat_size_16")
        \union If(laid /\ fat32 = (b.root_entries # 0), "root_entries")

\* The checks of the field table.
FieldFindings(b) ==
    If(b.reserved_sectors = 0, "reserved_sectors")
    \union If(b.num_fats \notin {1, 2}, "num_fats")
    \union If(b.media \notin {240} \union (248 .. 255), "media")
    \union If(~ b.sig, "boot_signature")

EbpbFindings(b, g) ==
    If(g.sane /\ b.fs_type # g.kind, "fs_type")
    \union If(g.sane /\ g.kind = "FAT32" /\ ~ ClusterInRange(g, g.root_cluster),
              "root_cluster")
    \union If(g.kind = "FAT32" /\ b.backup_boot_sector = 0, "backup_boot_sector")
    \union If(g.kind = "FAT32" /\ b.fat_size_32 = 0, "fat_size_32")

BootFindings(b, g, at) ==
    DeriveFindings(b) \union FieldFindings(b) \union EbpbFindings(b, g)
    \union If(Refuses(at, BootSectorLen), "unreadable")
    \union If(g.sane /\ g.base + VolumeBytes(g) > DeviceLen, "total_sectors_32")

\* Mutant: both sizes given is called a mistake; at 0x24 a volume of 12 or 16 bits
\* has other things.
BothSizesFindings(b, g) ==
    If(g.sane /\ LET v == FatEntry(g, 0, 0) IN v # Over /\ v % 256 # b.media, "media")
    \union If(b.fat_size_16 # 0 /\ b.fat_size_32 # 0, "fat_size_16")

\* FAT[0] starts with the media byte.
MediaFindings(b, g) ==
    If(g.sane /\ LET v == FatEntry(g, 0, 0) IN v # Over /\ v % 256 # b.media, "media")

\* FatProbe::probe.
Score(b) ==
    LET g == Derive(b, Base)
        told == b.fs_type # "none" /\ (b.fs_type = "FAT32") = (g.kind = "FAT32")
        points == 45 + (IF b.media \in {240} \union (248 .. 255) THEN 5 ELSE 0)
    IN  IF \/ ~ b.sig \/ ~ b.jump \/ b.oem = "exfat"
           \/ ~ BpsOk(b) \/ ~ SpcOk(b) \/ b.reserved_sectors = 0 \/ b.num_fats = 0 THEN 0
        ELSE IF ~ g.sane THEN Min2(points, 40)
        ELSE points + 30 + (IF told THEN 20 ELSE 0)
             - (IF g.base + VolumeBytes(g) > DeviceLen THEN 10 ELSE 0)

---------------------------------------------------------------------------
(* Opening the volume.                                                     *)

NoCmp == [copy |-> 0, at |-> 0, left |-> <<>>, diffs |-> <<>>]
NewDir(start) ==
    [start |-> start, cur |-> start, chain |-> <<>>, end |-> "none", next |-> 1, taken |-> 0]
NoDir == NewDir(0)

Init ==
    /\ \E f \in Formats, used \in InUse :
          LET g == GeomOf(f)
              fresh == FreshEntries(g, f.media)
              entries ==
                  [c \in DOMAIN fresh |-> IF c \in DOMAIN used THEN used[c] ELSE fresh[c]]
              fat(bs, n) == WithTable(bs, g, n, entries)
              fat32 == g.kind = "FAT32"
          IN  /\ DOMAIN used \subseteq 2 .. LastCluster(g)
              /\ \A c \in DOMAIN used : used[c] <= Mask(g.kind)
              /\ sectors = [x \in {Base} \union (IF fat32 THEN {SpareAt(f)} ELSE {}) |-> f]
              /\ infos = [x \in IF fat32 THEN {InfoAt(f)} ELSE {} |-> FreshInfo]
              /\ bytes = FoldSet(LAMBDA n, bs : fat(bs, n),
                            [k \in 0 .. DeviceLen - 1 |->
                                IF \E x \in DOMAIN sectors \union DOMAIN infos :
                                       k \in x .. x + BootSectorLen - 1
                                THEN SectorByte ELSE 0],
                            0 .. f.num_fats - 1)
    /\ refused = {} /\ job = [format |-> NoBoot, pieces |-> {}] /\ changes = 0
    /\ calm = FALSE /\ stage = "closed" /\ score = 0
    /\ boot = NoBoot /\ geom = Derive(NoBoot, Base) /\ found = {}
    /\ cmp = NoCmp /\ verdicts = <<>> /\ dir = NoDir /\ runs = <<>> /\ listing = <<>>
    /\ asked = [what |-> "none", at |-> 0, len |-> 0]

Asked(what, at, len) == asked' = [what |-> what, at |-> at, len |-> len]

\* The read of FAT[0], as for any entry: fat_entry asks nothing of the device when
\* the entry lies past the table.
AskedEntry(g, n, c) ==
    IF EntryInTable(g, n, c)
    THEN Asked("table", FatEntryOffset(g, n, c), EntryWidth(g)) ELSE UNCHANGED asked

Probe ==
    /\ stage = "closed"
    /\ stage' = "probed" /\ calm' = TRUE /\ score' = Score(BootAt(Base))
    /\ found' = {} /\ verdicts' = <<>> /\ dir' = NoDir /\ runs' = <<>> /\ listing' = <<>>
    /\ Asked("sector", Base, BootSectorLen)
    /\ UNCHANGED <<disk, boot, geom, cmp>>

ReadBoot ==
    /\ stage = "probed"
    /\ LET b == BootAt(Base)
           g == Derive(b, Base)
       IN  /\ boot' = b /\ geom' = g
           /\ found' = In("boot", BootFindings(b, g, Base))
                       \union In("volume", If(~ g.sane, "contents"))
    /\ stage' = "media"
    /\ Asked("sector", Base, BootSectorLen)
    /\ UNCHANGED <<disk, calm, score, compared, opened>>

ReadMedia ==
    /\ stage = "media"
    /\ found' = found \union In("boot", MediaFindings(boot, geom))
    /\ stage' = IF geom.sane /\ geom.kind = "FAT32" THEN "info" ELSE "tree"
    /\ IF geom.sane THEN AskedEntry(geom, 0, 0) ELSE UNCHANGED asked
    /\ UNCHANGED <<disk, calm, score, boot, geom, compared, opened>>

ReadInfo ==
    /\ stage = "info"
    /\ LET at == boot.fsinfo_sector * geom.bps + geom.base
           there == at \in DOMAIN infos /\ ~ Refuses(at, BootSectorLen)
           none == Mask("FAT32")
       IN  /\ found' = found \union In("info",
                If(~ there, "signatures")
                \union If(there /\ infos[at].free # none /\ infos[at].free > geom.count,
                          "free_count")
                \union If(there /\ infos[at].next \notin {0, none}
                                /\ ~ ClusterInRange(geom, infos[at].next), "next_free"))
           /\ Asked("sector", at, BootSectorLen)
    /\ stage' = "backup"
    /\ UNCHANGED <<disk, calm, score, boot, geom, compared, opened>>

\* Mutant: that two sectors are the same size is enough.
SameSize(b, at) == TRUE

\* backup_boot_node compares all there is up to the end of the extended BPB.
Same(b, at) == BootAt(at) = b /\ ~ Refuses(at, BootSectorLen)

ReadBackup ==
    /\ stage = "backup"
    /\ LET at == boot.backup_boot_sector * geom.bps + geom.base
           b == BootAt(at)
           bg == Derive(b, geom.base)
       IN  IF boot.backup_boot_sector = 0
           THEN found' = found \union {<<"backup", "none">>} /\ UNCHANGED asked
           ELSE /\ found' = found \union In("backup",
                       BootFindings(b, bg, at) \union MediaFindings(b, bg)
                       \union If(~ Same(boot, at), "differs"))
                /\ Asked("sector", at, BootSectorLen)
    /\ stage' = "tree"
    /\ UNCHANGED <<disk, calm, score, boot, geom, compared, opened>>

Close ==
    /\ stage = "tree"
    /\ stage' = "closed"
    /\ UNCHANGED <<disk, calm, score, boot, geom, found, compared, opened, asked>>

---------------------------------------------------------------------------
(* The tables: FatPreview, FatMirror.                                      *)

\* Bit 27 of the second entry of a FAT32 table.
CleanBit == 134217728

EntryFinding(g, c, v) ==
    CASE c = 0 -> {}
      [] c = 1 -> If(g.kind = "FAT32" /\ (v \div CleanBit) % 2 = 0, "dirty")
      [] c > 1 /\ v = BadMark(g.kind) -> {"bad cluster"}
      [] c > 1 /\ v # BadMark(g.kind) ->
            If(v # 0 /\ v < EocMin(g.kind) /\ ~ ClusterInRange(g, v), "points outside")

\* The entry after the last cluster is shown too.
LastShown(g) == Min2(PreviewEntries, LastCluster(g) + 1)

\* The reads of the entries shown, one behind the other, as one.
AskedPreview(g, n) ==
    Asked("preview", FatOffset(g, n),
          FatEntryOffset(g, n, LastShown(g)) + EntryWidth(g) - FatOffset(g, n))

\* An entry is read before fat_entry looks whether it lies within the table.
PreviewTable(n) ==
    /\ stage = "tree" /\ geom.sane
    /\ LET g == geom
           shown == 0 .. LastShown(g)
           of(c) == IF Got(FatEntryOffset(g, n, c), EntryWidth(g)) = Over
                    THEN {"unreadable"}
                    ELSE IF FatEntry(g, n, c) = Over THEN {}
                    ELSE EntryFinding(g, c, FatEntry(g, n, c))
       IN  /\ found' = found \union In("table", UNION {of(c) : c \in shown})
           /\ AskedPreview(g, n)
    /\ UNCHANGED <<disk, calm, stage, score, boot, geom, compared, opened>>

CompareEnd(g) == Min2(FatBytes(g), CompareLimit)
Copies(g) == 1 .. Min2(g.fats, MaxCopies) - 1

OpenMirror ==
    /\ stage = "tree" /\ geom.sane /\ Copies(geom) # {}
    /\ stage' = "compare" /\ cmp' = [NoCmp EXCEPT !.copy = 1] /\ verdicts' = <<>>
    /\ found' = {x \in found : x[1] # "mirror"}
    /\ UNCHANGED <<disk, calm, score, boot, geom, opened, asked>>

Want == Min2(CompareChunk, CompareEnd(geom) - cmp.at)
Scanning == cmp.at < CompareEnd(geom) /\ Len(cmp.diffs) < MaxDiffs

\* What a refused read gave: no bytes, nor none.
Unread == [i \in {0} |-> Over]

\* The bytes a read gave.
ReadBytes(at, len) ==
    IF Got(at, len) = Over THEN Unread
    ELSE [i \in 1 .. Got(at, len) |-> bytes[at + i - 1]]

CompareLeft ==
    /\ stage = "compare" /\ Scanning
    /\ cmp' = [cmp EXCEPT !.left = ReadBytes(FatOffset(geom, 0) + cmp.at, Want)]
    /\ stage' = "compare with"
    /\ Asked("table", FatOffset(geom, 0) + cmp.at, Want)
    /\ UNCHANGED <<disk, calm, score, boot, geom, found, verdicts, opened>>

\* Mutant: the position within the chunk, not within the table.
DiffsInChunk(left, right) ==
    LET n == Min2(Len(left), Len(right))
    IN  Only([i \in 1 .. n |-> i - 1], {i \in 1 .. n : left[i] # right[i]})

\* Where the chunks differ.
DiffsAt(left, right) ==
    LET n == Min2(Len(left), Len(right))
    IN  Only([i \in 1 .. n |-> cmp.at + i - 1], {i \in 1 .. n : left[i] # right[i]})

Stopped(n, at, diffs, refusal) ==
    /\ verdicts' = Append(verdicts, [at |-> at, diffs |-> diffs, stopped |-> refusal])
    /\ found' = found
          \union In("mirror", If(diffs # <<>>, "differ") \union If(refusal, "unreadable"))
    /\ IF n + 1 \in Copies(geom)
       THEN cmp' = [NoCmp EXCEPT !.copy = n + 1] /\ stage' = "compare"
       ELSE cmp' = NoCmp /\ stage' = "tree"

CompareRight ==
    /\ stage = "compare with"
    /\ LET right == ReadBytes(FatOffset(geom, cmp.copy) + cmp.at, Want)
           refusal == Unread \in {cmp.left, right}
           short == Len(cmp.left) < Want \/ Len(right) < Want
           all == cmp.diffs \o DiffsAt(cmp.left, right)
           diffs == SubSeq(all, 1, Min2(Len(all), MaxDiffs))
       IN  IF refusal THEN Stopped(cmp.copy, cmp.at, cmp.diffs, TRUE)
           ELSE IF short THEN Stopped(cmp.copy, cmp.at, diffs, TRUE)
           ELSE /\ cmp' = [cmp EXCEPT !.at = @ + Want, !.left = <<>>, !.diffs = diffs]
                /\ stage' = "compare"
                /\ UNCHANGED <<verdicts, found>>
    /\ Asked("table", FatOffset(geom, cmp.copy) + cmp.at, Want)
    /\ UNCHANGED <<disk, calm, score, boot, geom, opened>>

EndCompare ==
    /\ stage = "compare" /\ ~ Scanning
    /\ Stopped(cmp.copy, cmp.at, cmp.diffs, FALSE)
    /\ UNCHANGED <<disk, calm, score, boot, geom, opened, asked>>

---------------------------------------------------------------------------
(* A directory: DirExpander::expand.                                       *)

MaxDirBytes == MaxRecords * RecordSize

Without(where) == {x \in found : x[1] # where}

\* root_dir_node: a chain on FAT32, an area of its own otherwise.
OpenRoot ==
    /\ stage = "tree" /\ geom.sane
    /\ listing' = <<>>
    /\ IF geom.kind # "FAT32"
       THEN /\ stage' = "read" /\ dir' = NoDir
            /\ runs' = <<[at |-> geom.root_start, len |-> geom.root_len]>>
            /\ found' = Without("directory")
       ELSE IF ClusterToByte(geom, geom.root_cluster) = Over
       THEN /\ stage' = "tree" /\ dir' = NoDir /\ runs' = <<>>
            /\ found' = Without("directory") \union {<<"root", "outside">>}
       ELSE /\ stage' = "walk" /\ dir' = NewDir(geom.root_cluster) /\ runs' = <<>>
            /\ found' = Without("directory")
    /\ UNCHANGED <<disk, calm, score, boot, geom, compared, asked>>

\* add_cluster_nodes offers the contents of a cluster of the volume.
OpenDirectory(c) ==
    /\ stage = "tree" /\ ClusterInRange(geom, c)
    /\ stage' = "walk" /\ dir' = NewDir(c) /\ runs' = <<>> /\ listing' = <<>>
    /\ found' = Without("directory")
    /\ UNCHANGED <<disk, calm, score, boot, geom, compared, asked>>

WalkEnds(end) ==
    /\ dir' = [dir EXCEPT !.end = end] /\ stage' = "extents"
    /\ found' = found \union In("directory", If(end # "eoc", end))

\* One turn of follow_chain.
Walk ==
    /\ stage = "walk"
    /\ LET c == dir.cur
           v == FatEntry(geom, 0, c)
           more == [dir EXCEPT !.chain = Append(@, c)]
           end == IF v = Over THEN "unreadable"
                  ELSE IF v >= EocMin(geom.kind) THEN "eoc"
                  ELSE IF v = BadMark(geom.kind) THEN "bad"
                  ELSE IF v = 0 THEN "free" ELSE "none"
       IN  IF ~ ClusterInRange(geom, c) THEN WalkEnds("out of range") /\ UNCHANGED asked
           ELSE IF Len(dir.chain) >= MaxDirClusters THEN WalkEnds("limit") /\ UNCHANGED asked
           ELSE IF Contains(dir.chain, c) THEN WalkEnds("loop") /\ UNCHANGED asked
           ELSE /\ IF end = "none"
                   THEN dir' = [more EXCEPT !.cur = v] /\ UNCHANGED <<stage, found>>
                   ELSE /\ dir' = [more EXCEPT !.end = end] /\ stage' = "extents"
                        /\ found' = found \union In("directory", If(end # "eoc", end))
                /\ AskedEntry(geom, 0, c)
    /\ UNCHANGED <<disk, calm, score, boot, geom, compared, runs, listing>>

\* Mutant: what lies next is merged in front as well as behind.
JoinsEither(last, at) == last.at + last.len = at \/ at + geom.bpc = last.at

\* Clusters that follow each other on the disk are read as one.
Joins(last, at) == last.at + last.len = at

\* One turn of the loop that makes runs of clusters.
Extend ==
    /\ stage = "extents" /\ dir.next <= Len(dir.chain) /\ dir.taken < MaxDirBytes
    /\ LET at == ClusterToByte(geom, dir.chain[dir.next])
           last == runs[Len(runs)]
           joined == [at |-> last.at, len |-> last.len + geom.bpc]
       IN  IF at = Over
           THEN dir' = [dir EXCEPT !.next = @ + 1] /\ UNCHANGED runs
           ELSE /\ dir' = [dir EXCEPT !.next = @ + 1, !.taken = @ + geom.bpc]
                /\ runs' = IF runs # <<>> /\ Joins(last, at)
                           THEN [runs EXCEPT ![Len(runs)] = joined]
                           ELSE Append(runs, [at |-> at, len |-> geom.bpc])
    /\ UNCHANGED <<disk, calm, stage, score, boot, geom, found, compared, listing, asked>>

Extended ==
    /\ stage = "extents" /\ (dir.next > Len(dir.chain) \/ dir.taken >= MaxDirBytes)
    /\ stage' = IF runs = <<>> THEN "tree" ELSE "read"
    /\ found' = found \union In("directory", If(runs = <<>>, "nothing readable"))
    /\ dir' = [dir EXCEPT !.next = 1]
    /\ UNCHANGED <<disk, calm, score, boot, geom, compared, runs, listing, asked>>

\* Records of a run: what its bytes hold whole, up to the limit on records.
RecordsOf(at, got) ==
    LET n == Min2(got \div RecordSize, MaxRecords - Len(listing))
    IN  [i \in 1 .. n |-> at + (i - 1) * RecordSize]

ReadRun ==
    /\ stage = "read" /\ dir.next <= Len(runs) /\ Len(listing) < MaxRecords
    /\ LET run == runs[dir.next]
           want == Min2(run.len, MaxDirBytes)
           got == Got(run.at, want)
       IN  /\ IF got = Over
              THEN /\ found' = found \union {<<"directory", "part unreadable">>}
                   /\ stage' = "tree" /\ UNCHANGED <<listing, dir>>
              ELSE /\ listing' = listing \o RecordsOf(run.at, got)
                   /\ dir' = [dir EXCEPT !.next = @ + 1]
                   /\ UNCHANGED <<found, stage>>
           /\ Asked("directory", run.at, want)
    /\ UNCHANGED <<disk, calm, score, boot, geom, compared, runs>>

Listed ==
    /\ stage = "read"
    /\ dir.next > Len(runs) \/ Len(listing) >= MaxRecords
    /\ stage' = "tree"
    /\ UNCHANGED <<disk, calm, score, boot, geom, found, compared, opened, asked>>

---------------------------------------------------------------------------
(* Everybody else.                                                         *)

reader == <<stage, score, boot, geom, found, compared, opened, asked>>

BeginFormat(f) ==
    /\ changes < MaxChanges /\ job.pieces = {}
    /\ job' = [format |-> f, pieces |-> Pieces(f)] /\ changes' = changes + 1
    /\ UNCHANGED <<sectors, infos, bytes, refused, calm, reader>>

WritePiece(p) ==
    /\ p \in job.pieces
    /\ WritePieceOf(job.format, p)
    /\ job' = [job EXCEPT !.pieces = @ \ {p}]
    /\ calm' = FALSE
    /\ UNCHANGED <<refused, changes, reader>>

FormatterDies ==
    /\ job.pieces # {}
    /\ job' = [job EXCEPT !.pieces = {}]
    /\ UNCHANGED <<sectors, infos, bytes, refused, changes, calm, reader>>

\* A driver writes one entry into one copy.
DriverWrites(n, c, v) ==
    LET f == sectors[Base]
        g == GeomOf(f)
    IN  /\ changes < MaxChanges /\ job.pieces = {}
        /\ Base \in DOMAIN sectors /\ f \in Formats
        /\ n < f.num_fats /\ c \in 2 .. LastCluster(g) /\ v <= Mask(g.kind)
        /\ LET e == [x \in 0 .. LastCluster(g) |-> IF x = c THEN v ELSE Stored(g, n, x)]
           IN  bytes' = WithTable(bytes, g, n, e)
        /\ changes' = changes + 1 /\ calm' = FALSE
        /\ UNCHANGED <<sectors, infos, refused, job, reader>>

DamageField(field, v) ==
    /\ changes < MaxChanges /\ Base \in DOMAIN sectors
    /\ sectors' = [sectors EXCEPT ![Base] = [@ EXCEPT ![field] = v]]
    /\ changes' = changes + 1 /\ calm' = FALSE
    /\ UNCHANGED <<infos, bytes, refused, job, reader>>

Refuse(x) ==
    /\ changes < MaxChanges
    /\ refused' = refused \union {x}
    /\ changes' = changes + 1 /\ calm' = FALSE
    /\ UNCHANGED <<sectors, infos, bytes, job, reader>>

Clusters == UNION {2 .. LastCluster(GeomOf(f)) : f \in Formats}

Open == Probe \/ ReadBoot \/ ReadMedia \/ ReadInfo \/ ReadBackup \/ Close
Compare == OpenMirror \/ CompareLeft \/ CompareRight \/ EndCompare
List == Walk \/ Extend \/ Extended \/ ReadRun \/ Listed

Next ==
    \/ Open \/ Compare \/ List \/ OpenRoot
    \/ \E n \in 0 .. MaxCopies - 1 : n < geom.fats /\ PreviewTable(n)
    \/ \E c \in Clusters : OpenDirectory(c)
    \/ \E f \in Formats : BeginFormat(f)
    \/ \E p \in job.pieces : WritePiece(p)
    \/ FormatterDies
    \/ \E n \in 0 .. 1, c \in Clusters, v \in EntryValues : DriverWrites(n, c, v)
    \/ \E field \in DOMAIN DamagedFields :
          \E v \in DamagedFields[field] : DamageField(field, v)
    \/ \E i \in 0 .. DeviceLen \div BootSectorLen - 1 : Refuse(BootSectorLen * i)

Spec == Init /\ [][Next]_vars

---------------------------------------------------------------------------
(* Properties.                                                             *)

\* The volume of format f is there, complete, with tables that agree and whose entries
\* mean something; so does the one behind the last, which is shown with them.
Whole(f) ==
    LET g == GeomOf(f)
        clusters == 2 .. LastCluster(g)
    IN  /\ Base \in DOMAIN sectors /\ sectors[Base] = f /\ refused = {}
        /\ g.kind = "FAT32" =>
              /\ SpareAt(f) \in DOMAIN sectors /\ sectors[SpareAt(f)] = f
              /\ InfoAt(f) \in DOMAIN infos /\ infos[InfoAt(f)] = FreshInfo
        /\ \A n \in 0 .. f.num_fats - 1 :
              /\ \A k \in 0 .. FatBytes(g) - 1 :
                    bytes[FatOffset(g, n) + k] = bytes[FatOffset(g, 0) + k]
              /\ \A c \in 0 .. 1 : Stored(g, n, c) = FreshEntries(g, f.media)[c]
              /\ \A c \in clusters \union {LastCluster(g) + 1} :
                    LET v == Stored(g, n, c)
                    IN  EntryInTable(g, n, c) =>
                            v = 0 \/ v \in clusters \/ v \in EocMin(g.kind) .. Mask(g.kind)

\* Of a volume that is whole, of whichever kind, nothing is said when it is opened, its
\* tables looked at and compared, and the probe is certain (FatReader::root, FatPreview,
\* FatMirror, FatProbe::probe).
HealthyIsQuiet ==
    calm /\ stage = "tree" /\ (\E f \in Formats : Whole(f)) =>
        score = 100 /\ {x \in found : x[1] # "directory"} = {}

\* One field of a FAT32 boot sector is wrong while its backup is intact: something is
\* said, whichever field it is and whatever kind of volume it makes (FatReader::root,
\* backup_boot_node).
SingleDamageShown ==
    \A f \in Formats :
        /\ calm /\ stage = "tree" /\ GeomOf(f).kind = "FAT32"
        /\ SpareAt(f) \in DOMAIN sectors /\ sectors[SpareAt(f)] = f
        /\ boot # f
        /\ \E field \in DOMAIN DamagedFields : boot = [f EXCEPT ![field] = boot[field]]
        => found # {}

\* Where the first clusters of a chain have their records, one by one.
InChainOrder(chain) ==
    LET per == geom.bpc \div RecordSize
    IN  [i \in 1 .. Min2(MaxRecords, Len(chain) * per) |->
            ClusterToByte(geom, chain[1 + (i - 1) \div per])
            + ((i - 1) % per) * RecordSize]
InRootArea ==
    [i \in 1 .. Min2(MaxRecords, geom.root_len \div RecordSize) |->
        geom.root_start + (i - 1) * RecordSize]

\* The bytes of copy n that are there and differ from the first copy, as far as tables are
\* compared.
Differing(n) ==
    {k \in 0 .. CompareEnd(geom) - 1 :
        /\ Got(FatOffset(geom, n) + k, 1) = 1
        /\ bytes[FatOffset(geom, 0) + k] # bytes[FatOffset(geom, n) + k]}

\* A comparison of tables finds what differs, in order, the first of it when there is more
\* or a sector cannot be read, and nothing else, also across chunks (compare_fats).
MirrorTrue ==
    calm /\ stage = "tree" =>
        \A n \in DOMAIN verdicts :
            LET diffs == verdicts[n].diffs
                left == Differing(n) \ {diffs[i] : i \in DOMAIN diffs}
            IN  /\ \A i \in DOMAIN diffs : diffs[i] \in Differing(n)
                /\ \A i, j \in DOMAIN diffs : i < j => diffs[i] < diffs[j]
                /\ \A i \in DOMAIN diffs, k \in left : diffs[i] < k
                /\ left # {} => verdicts[n].stopped \/ Len(diffs) = MaxDiffs
                /\ Len(diffs) <= MaxDiffs

\* The read lies within the len bytes from start on.
AskedWithin(start, len) == start <= asked.at /\ asked.at + asked.len <= start + len

\* Whatever the boot sector says, a read for a link or a comparison stays within one copy of
\* the table and a read for a directory within the clusters of the volume or the fixed root
\* (cluster_to_byte, fat_entry, follow_chain, compare_fats, DirExpander::expand).  The
\* preview stays within its copy when the table has all the entries it shows; its reads are
\* not bounded by the table (FatPreview::expand).
ReadsInPlace ==
    /\ asked.what = "table" =>
          \E n \in 0 .. MaxCopies : AskedWithin(FatOffset(geom, n), FatBytes(geom))
    /\ asked.what = "preview" /\ EntryInTable(geom, 0, LastShown(geom)) =>
          \E n \in 0 .. MaxCopies : AskedWithin(FatOffset(geom, n), FatBytes(geom))
    /\ asked.what = "directory" =>
          \/ AskedWithin(geom.data_start, geom.count * geom.bpc)
          \/ geom.kind # "FAT32" /\ AskedWithin(geom.root_start, geom.root_len)

\* What is read lies where ReadsInPlace says, and what is listed of a directory are the
\* records of its clusters, in the order of the chain, each once, none left out before the
\* limit, however its neighbours are merged into one read (DirExpander::expand).
ListedInPlace ==
    /\ ReadsInPlace
    /\ stage = "tree" /\ runs # <<>> /\ geom.base + VolumeBytes(geom) <= DeviceLen
       /\ <<"directory", "part unreadable">> \notin found
       => listing = IF dir.start = 0 THEN InRootArea ELSE InChainOrder(dir.chain)
==========================================================================
