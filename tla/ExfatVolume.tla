---------------------------- MODULE ExfatVolume ----------------------------
(***************************************************************************)
(* Reading an exFAT volume: the probe, the two boot regions with their     *)
(* checksums, the comparison of the two, the heads of the tables, the root *)
(* directory, the allocation bitmap with its comparison with the table,    *)
(* and the up-case table.  Meanwhile a formatter writes another volume     *)
(* over this one and dies, a driver mounts the volume, allocates and frees *)
(* clusters, units are overwritten and fail.                               *)
(*                                                                         *)
(* A unit of the device is as long as the smallest sector and holds one    *)
(* thing: a boot sector, a part of a table ...  A checksum is what it was  *)
(* computed from.  Addresses and lengths count units.                      *)
(* Chains are followed here in one go: ChainWalk has their turns.  The     *)
(* records of a directory are the subject of ExfatDirectory.               *)
(***************************************************************************)
EXTENDS Integers, SequencesExt, Selection

CONSTANTS
    DeviceLen,
    SectorSize,         \* of the device, for want of a better one
    SectorSizes, MaxClusterSize, MaxClusterCount,
    ExtCount,           \* extended boot sectors: 8
    TableEntries,       \* entries of a table in a unit
    BitsPerUnit,        \* bits of the bitmap in a unit
    MaxChain, MaxDirectory, MaxBitmap, MaxUpcase, MaxChecked, MaxListed,
    Formats,            \* [boot, bitmap, upcase]: volumes, and where their tables lie
    DamagedFields,      \* [field |-> values] that damage leaves in one
    EntryValues,        \* what is written into a table
    MaxChanges          \* bound: formats begun, clusters marked, damages

ASSUME ExfatVolumeAssumption ==
    /\ {DeviceLen, SectorSize, ExtCount, TableEntries, BitsPerUnit} \subseteq Nat \ {0}
    /\ TableEntries > 1 \* the first two entries of a table share its first unit
    /\ {MaxChain, MaxDirectory, MaxBitmap, MaxUpcase, MaxChecked, MaxListed} \subseteq Nat \ {0}
    /\ {MaxClusterSize, MaxClusterCount} \subseteq Nat \ {0}
    /\ SectorSizes \subseteq Nat \ {0} /\ MaxChanges \in Nat
    /\ \A f \in Formats : f.boot.bytes_per_sector \in Nat

VARIABLES
    units,      \* the device
    refused,    \* units the device does not read
    job,        \* what a formatter still has to write: <<format, piece>>
    mounted,    \* the volume that a driver has mounted, in a set
    changes,
    calm,       \* nobody wrote since the probe
    stage, score,
    boot, geo,  \* the boot sector that was read first, and what follows from it
    found,      \* problems shown so far: <<where, what>>
    root,       \* what the root directory says: [bitmap, upcase]
    bits,       \* the bitmap, as far as it was read
    listed      \* clusters shown as chained but free

disk == <<units, refused, job, mounted, changes>>
shown == <<score, boot, geo, found, root, bits, listed>>
vars == <<disk, calm, stage, shown>>

---------------------------------------------------------------------------
(* The boot region.                                                        *)

OemParamSector == ExtCount + 1
ReservedSector == ExtCount + 2
BootChecksumSector == ExtCount + 3
BootRegionSectors == ExtCount + 4
BackupBootSector == BootRegionSectors

Flags == {"ActiveFat", "VolumeDirty", "MediaFailure", "reserved"}
Boot ==
    [name : BOOLEAN, jump : BOOLEAN, signature : BOOLEAN, bytes_per_sector : Nat,
     sectors_per_cluster : Nat, partition_offset : Nat, volume_length : Nat,
     fat_offset : Nat, fat_length : Nat, number_of_fats : Nat, cluster_heap_offset : Nat,
     cluster_count : Nat, first_cluster_of_root : Nat, volume_serial : Nat,
     volume_flags : SUBSET Flags, percent_in_use : 0 .. 255]

\* What the fields of anything else say.
NoBoot ==
    [name |-> FALSE, jump |-> FALSE, signature |-> FALSE, bytes_per_sector |-> 0,
     sectors_per_cluster |-> 0, partition_offset |-> 0, volume_length |-> 0,
     fat_offset |-> 0, fat_length |-> 0, number_of_fats |-> 0, cluster_heap_offset |-> 0,
     cluster_count |-> 0, first_cluster_of_root |-> 0, volume_serial |-> 0,
     volume_flags |-> {}, percent_in_use |-> 0]

Zero == [zero |-> TRUE]
Junk == [junk |-> TRUE]
Signature == [signature |-> TRUE]   \* the end of an extended boot sector
Is(u, kind) == DOMAIN u = {kind}
BootOf(u) == IF Is(u, "boot") THEN u.boot ELSE NoBoot

\* Mutant: the sum covers the flags too.
SummedAll(u) == u

\* What the sum of a region takes of a unit: VolumeFlags and PercentInUse are skipped.
Summed(u) ==
    IF Is(u, "boot")
    THEN [boot |-> [u.boot EXCEPT !.volume_flags = {}, !.percent_in_use = 0]] ELSE u
Sum(us) == [i \in DOMAIN us |-> Summed(us[i])]

\* A region as it is written, sector by sector.
BootArea(b) ==
    LET size == b.bytes_per_sector
        ends_ext(i) == i % size = 0 /\ i \div size \in 2 .. ExtCount + 1
    IN  [i \in 1 .. BootChecksumSector * size |->
            IF i = 1 THEN [boot |-> b] ELSE IF ends_ext(i) THEN Signature ELSE Zero]
SumSector(b) == [i \in 1 .. b.bytes_per_sector |-> [sum |-> Sum(BootArea(b))]]

---------------------------------------------------------------------------
(* Geometry.                                                               *)

Min2(m, n) == IF m < n THEN m ELSE n
Bigger(m, n) == IF m < n THEN n ELSE m

\* Mutant: what does not fill a whole one is not counted.
FloorDiv(m, n) == m \div n

CeilDiv(m, n) == (m + n - 1) \div n

FromBoot(b) ==
    LET sector_ok == b.bytes_per_sector \in SectorSizes
        sector == IF sector_ok THEN b.bytes_per_sector ELSE SectorSize
        per == IF b.sectors_per_cluster \in 1 .. MaxClusterSize
               THEN b.sectors_per_cluster ELSE 1
        cluster_ok == sector * per <= MaxClusterSize
    IN  [sector |-> sector, per |-> per,
         cluster |-> IF cluster_ok THEN sector * per ELSE sector,
         volume |-> b.volume_length, fat_offset |-> b.fat_offset,
         fat_length |-> b.fat_length, fats |-> b.number_of_fats,
         heap |-> b.cluster_heap_offset, count |-> b.cluster_count,
         root |-> b.first_cluster_of_root,
         active |-> IF "ActiveFat" \in b.volume_flags THEN 1 ELSE 0,
         trusted |-> sector_ok /\ cluster_ok
                     /\ b.sectors_per_cluster \in 1 .. MaxClusterSize]

SectorAt(g, s) == s * g.sector
FatAt(g, n) == SectorAt(g, n * g.fat_length + g.fat_offset)

ClusterInHeap(g, c) == g.count > 0 /\ c \in 2 .. g.count + 1
ClusterAt(g, c) == (c - 2) * g.cluster + SectorAt(g, g.heap)

SelfConsistent(g) ==
    /\ g.fats \in 1 .. 2 /\ g.fat_offset >= 2 * BootRegionSectors /\ g.fat_length > 0
    /\ g.heap >= g.fat_length * g.fats + g.fat_offset
    /\ g.count \in 1 .. MaxClusterCount
    /\ g.count * g.per + g.heap <= g.volume
    /\ ClusterInHeap(g, g.root)
    /\ g.volume > 0 /\ SectorAt(g, g.volume) <= DeviceLen

---------------------------------------------------------------------------
(* Reads: <<>> past the end, Unread when the device refuses.               *)

Unread == <<[unread |-> TRUE]>>
Got(at, n) ==
    IF at >= DeviceLen THEN <<>>
    ELSE IF \E x \in refused : at <= x /\ x < at + n THEN Unread
    ELSE [i \in 1 .. Min2(n, DeviceLen - at) |-> units[at + i - 1]]

UnitAt(at) == IF Got(at, 1) \in {<<>>, Unread} THEN Junk ELSE units[at]

Eoc == 1000     \* 0xFFFFFFFF
Bad == 999      \* 0xFFFFFFF7
Media == 998    \* 0xFFFFFFF8
Garbage == 997  \* a number that means nothing

EntryAt(g, n, c) == FatAt(g, n) + c \div TableEntries
EntryIn(u, c) ==
    IF Is(u, "fat") THEN u.fat[(c % TableEntries) + 1] ELSE IF u = Zero THEN 0 ELSE Garbage

\* One turn of cluster_chain: the entry of the last cluster seen.
ChainTurn(g, w) ==
    LET c == Last(w.seen)
        unit == Got(EntryAt(g, Min2(g.active, 1), c), 1)
        v == EntryIn(unit[1], c)
    IN  IF w.end # "none" THEN w
        ELSE IF unit = Unread THEN [w EXCEPT !.end = "unreadable"]
        ELSE IF unit = <<>> THEN [w EXCEPT !.end = "cut"]
        ELSE IF v = Eoc THEN [w EXCEPT !.end = "eoc"]
        ELSE IF v = Bad THEN [w EXCEPT !.end = "bad"]
        ELSE IF v = 0 THEN [w EXCEPT !.end = "zero"]
        ELSE IF ~ ClusterInHeap(g, v) THEN [w EXCEPT !.end = "outside"]
        ELSE IF Len(w.seen) >= MaxChain THEN [w EXCEPT !.end = "limit"]
        ELSE IF Contains(w.seen, v) THEN [w EXCEPT !.end = "loop"]
        ELSE [w EXCEPT !.seen = Append(@, v)]

\* cluster_chain: where it was broken off, and at which clusters, in one go.
ChainFrom(g, first) ==
    LET walk[i \in 0 .. MaxChain] ==
            IF i = 0 THEN [seen |-> <<first>>, end |-> "none"] ELSE ChainTurn(g, walk[i - 1])
    IN  IF first = 0 THEN [seen |-> <<>>, end |-> "empty"]
        ELSE IF ~ ClusterInHeap(g, first) THEN [seen |-> <<>>, end |-> "first cluster"]
        ELSE walk[MaxChain]

Follows(last, at) == last.at + last.len = at

\* cluster_runs: what follows the last run makes it longer.
AddCluster(g, runs, c) ==
    LET at == ClusterAt(g, c)
        last == runs[Len(runs)]
    IN  IF runs # <<>> /\ Follows(last, at)
        THEN [runs EXCEPT ![Len(runs)] = [at |-> last.at, len |-> last.len + g.cluster]]
        ELSE Append(runs, [at |-> at, len |-> g.cluster])
ClusterRuns(g, clusters) ==
    LET upTo[i \in 0 .. Len(clusters)] ==
            IF i = 0 THEN <<>> ELSE AddCluster(g, upTo[i - 1], clusters[i])
    IN  upTo[Len(clusters)]

\* Mutant: a run that cannot be read is left out, and the next ones slide into the gap.
SkipUnread(read) == FALSE

BreaksOff(read) == read.end # "none"

\* read_runs: what was read, and why no more.
AddRun(read, run, limit) ==
    LET want == Min2(run.len, limit - Len(read.got))
        got == Got(run.at, want)
    IN  IF BreaksOff(read) \/ Len(read.got) >= limit THEN read
        ELSE IF got = Unread THEN [read EXCEPT !.end = "unreadable"]
        ELSE [got |-> read.got \o got, end |-> IF Len(got) < want THEN "short" ELSE read.end]
ReadRuns(runs, limit) ==
    LET upTo[i \in 0 .. Len(runs)] ==
            IF i = 0 THEN [got |-> <<>>, end |-> "none"]
            ELSE AddRun(upTo[i - 1], runs[i], limit)
    IN  upTo[Len(runs)]

---------------------------------------------------------------------------
(* What is said.                                                           *)

In(where, what) == {<<where, w>> : w \in what}
If(condition, what) == IF condition THEN {what} ELSE {}

\* from_boot.
GeometryFindings(b) ==
    If(b.bytes_per_sector \notin SectorSizes, "bytes_per_sector")
    \union If(b.sectors_per_cluster \notin 1 .. MaxClusterSize, "sectors_per_cluster")
    \union If(FromBoot(b).sector * FromBoot(b).per > MaxClusterSize, "cluster size")

\* The checks of the field table.
FieldFindings(b) ==
    If(~ b.name, "file_system_name") \union If(~ b.jump, "jump_boot")
    \union If(~ b.signature, "boot_signature")
    \union If(b.volume_length = 0, "volume_length") \union If(b.fat_length = 0, "fat_length")
    \union If(b.fat_offset < 2 * BootRegionSectors, "fat_offset")
    \union If(b.cluster_heap_offset = 0, "cluster_heap_offset")
    \union If(b.number_of_fats \notin 1 .. 2, "number_of_fats")
    \union If(b.bytes_per_sector \notin SectorSizes, "bytes_per_sector_shift")
    \union If(b.sectors_per_cluster \notin 1 .. MaxClusterSize, "sectors_per_cluster_shift")

\* annotate_boot_sector, which looks at the main geometry whichever sector it annotates.
Annotations(b, g) ==
    LET heap_end == g.count * g.per + g.heap
    IN  If(b.partition_offset # 0, "partition_offset")
        \union If(SectorAt(g, g.volume) > DeviceLen, "volume_length")
        \union If(g.fat_length * g.sector * TableEntries < g.count + 2, "fat_length")
        \union If(g.heap < g.fat_length * g.fats + g.fat_offset, "cluster_heap_offset")
        \union If(\/ g.count > MaxClusterCount \/ g.count = 0
                  \/ g.volume > 0 /\ heap_end > g.volume, "cluster_count")
        \union If(~ ClusterInHeap(g, g.root), "first_cluster_of_root")
        \union If(b.percent_in_use \in 101 .. 254, "percent_in_use")
        \union {flag \in b.volume_flags : flag # "ActiveFat"}
        \union If(g.active # 0 /\ g.fats < 2, "ActiveFat")

\* boot_region without its checksum.
RegionFindings(b, g, first) ==
    LET sector(s) == Got(SectorAt(g, first + s), g.sector)
        whole(s) == sector(s) # Unread /\ Len(sector(s)) = g.sector
    IN  FieldFindings(BootOf(UnitAt(SectorAt(g, first)))) \union Annotations(b, g)
        \union If(Got(SectorAt(g, first), 1) = Unread, "unreadable")
        \union If(\E s \in 1 .. ExtCount : ~ whole(s) \/ sector(s)[g.sector] # Signature,
                  "extended boot sector")
        \union If(Got(SectorAt(g, first + OemParamSector), 1) \in {<<>>, Unread},
                  "OEM parameters")
        \union If(\/ sector(ReservedSector) = Unread
                  \/ \E i \in DOMAIN sector(ReservedSector) :
                         sector(ReservedSector)[i] # Zero, "reserved sector")

\* boot_checksum_node.
SumFindings(g, first) ==
    LET covered == Got(SectorAt(g, first), BootChecksumSector * g.sector)
        sums == Got(SectorAt(g, first + BootChecksumSector), g.sector)
    IN  IF Unread \in {covered, sums} THEN {"checksum unreadable"}
        ELSE If(sums = <<>> \/ sums[1] # [sum |-> Sum(covered)], "boot_checksum")
             \union If(Len(covered) < BootChecksumSector * g.sector, "boot region short")
             \union If(\E i \in DOMAIN sums : sums[i] # sums[1], "repetitions")

\* Mutant: copies of one length are taken for copies.
SameLength(main, backup) == Len(main) = Len(backup)

Same(main, backup) == main = backup

\* backup_diff.
DiffFindings(g) ==
    LET main == Got(0, BootRegionSectors * g.sector)
        backup == Got(SectorAt(g, BackupBootSector), BootRegionSectors * g.sector)
    IN  IF Unread \in {main, backup} THEN {"regions unreadable"}
        ELSE IF Len(main) # Len(backup) THEN {"lengths"}
        ELSE IF Same(main, backup) THEN {}
        ELSE {"regions differ"}
             \union If(Summed([boot |-> BootOf(main[1])])
                         # Summed([boot |-> BootOf(backup[1])]), "boot sector field")

\* fat_node.
TableFindings(g, n) ==
    LET head == Got(FatAt(g, n), 1)
    IN  IF head = Unread THEN {"unreadable"}
        ELSE If(head = <<>> \/ EntryIn(head[1], 0) # Media, "entry 0")
             \union If(head = <<>> \/ EntryIn(head[1], 1) # Eoc, "entry 1")

\* Nothing is declared of the root directory.
ChainFindings(g, chain, declared) ==
    If(chain.end \notin {"eoc", "empty"}, chain.end)
    \union If(chain.seen # <<>>
              /\ \E len \in declared : Len(chain.seen) # CeilDiv(len, g.cluster), "declared length")

---------------------------------------------------------------------------
(* What a formatter writes, and what a driver changes.                     *)

Used(f) == {f.boot.first_cluster_of_root, f.upcase} \union ToSet(f.bitmap)

\* The entries of a fresh table.
FreshEntry(f, c) ==
    CASE c = 0 -> Media
      [] c \in {1, f.boot.first_cluster_of_root, f.upcase, Last(f.bitmap)} -> Eoc
      [] \E i \in 1 .. Len(f.bitmap) - 1 : f.bitmap[i] = c ->
            f.bitmap[1 + CHOOSE i \in 1 .. Len(f.bitmap) - 1 : f.bitmap[i] = c]
      [] OTHER -> 0

UpcaseTable == <<[upcase |-> TRUE]>>

\* One bitmap, also of a volume with two tables: the reader takes the first it meets.
Entries(f) ==
    [bitmap |-> <<[first |-> f.bitmap[1], len |-> CeilDiv(f.boot.cluster_count, BitsPerUnit),
                   sum |-> <<>>]>>,
     upcase |-> <<[first |-> f.upcase, len |-> 1, sum |-> UpcaseTable]>>]

\* Where the bit of a cluster is.
BitUnit(f, c) ==
    LET g == FromBoot(f.boot)
        k == (c - 2) \div BitsPerUnit
    IN  ClusterAt(g, f.bitmap[(k \div g.cluster) + 1]) + (k % g.cluster)
BitPlace(c) == (c - 2) % BitsPerUnit

Clusters(f) == 2 .. f.boot.cluster_count + 1

\* A formatter writes volumes that the device has room for, whose first table is the one in
\* use, with a bitmap as long as it has to be; the marks of a table are no clusters, and the
\* limits on a chain and on a bitmap are no smaller than what is compared.
ASSUME FormattersAssumption ==
    /\ MaxClusterCount + 1 < Garbage
    /\ MaxChecked <= MaxBitmap * BitsPerUnit /\ MaxChecked <= MaxChain * BitsPerUnit
    /\ \A f \in Formats :
          LET b == f.boot
              g == FromBoot(b)
          IN  /\ b \in Boot /\ g.trusted /\ SelfConsistent(g)
              /\ b.name /\ b.jump /\ b.signature /\ b.partition_offset = 0
              /\ b.volume_flags = {}
              /\ b.percent_in_use \in 0 .. 100 \union {255}
              /\ g.fat_length * g.sector * TableEntries >= g.count + 2
              /\ f.bitmap \in Seq(Clusters(f))
              /\ \A i, j \in DOMAIN f.bitmap : f.bitmap[i] = f.bitmap[j] => i = j
              /\ Len(f.bitmap) = CeilDiv(CeilDiv(g.count, BitsPerUnit), g.cluster)
              /\ f.upcase \in Clusters(f) \ ({g.root} \union ToSet(f.bitmap))
              /\ g.root \notin ToSet(f.bitmap)

Heap(f) ==
    LET g == FromBoot(f.boot)
    IN  [x \in UNION {ClusterAt(g, c) .. ClusterAt(g, c) + g.cluster - 1 : c \in Used(f)} |->
            IF x = ClusterAt(g, g.root) THEN [entries |-> Entries(f)]
            ELSE IF x = ClusterAt(g, f.upcase) THEN UpcaseTable[1]
            ELSE IF \E c \in Clusters(f) : BitUnit(f, c) = x
            THEN [bits |-> {BitPlace(c) : c \in {d \in Used(f) : BitUnit(f, d) = x}}]
            ELSE Zero]

Pieces(f) ==
    ({"region", "sum"} \X {0, BackupBootSector}) \union {<<"tables", 0>>, <<"heap", 0>>}

At(at, us) == [x \in at .. at + Len(us) - 1 |-> us[x - at + 1]]
Piece(f, piece) ==
    LET g == FromBoot(f.boot)
        len == SectorAt(g, g.fat_length)
    IN  CASE piece[1] = "region" -> At(SectorAt(g, piece[2]), BootArea(f.boot))
          [] piece[1] = "sum" -> At(SectorAt(g, piece[2] + BootChecksumSector), SumSector(f.boot))
          [] piece[1] = "tables" ->
                [x \in FatAt(g, 0) .. FatAt(g, g.fats) - 1 |->
                    LET before == ((x - FatAt(g, 0)) % len) * TableEntries
                    IN  [fat |-> [i \in 1 .. TableEntries |-> FreshEntry(f, before + i - 1)]]]
          [] piece[1] = "heap" -> Heap(f)

Written == [f \in Formats |-> [piece \in Pieces(f) |-> Piece(f, piece)]]
Over(us, written) == [x \in DOMAIN us |-> IF x \in DOMAIN written THEN written[x] ELSE us[x]]

Kept(f, piece) ==
    LET written == Written[f][piece] IN \A x \in DOMAIN written : units[x] = written[x]
Intact(f, piece) ==
    LET written == Written[f][piece]
    IN  \A x \in DOMAIN written : Summed(units[x]) = Summed(written[x])
Whole(f) == \A piece \in Pieces(f) : Kept(f, piece)

Fresh(f) ==
    LET holds(x, piece) == x \in DOMAIN Written[f][piece]
    IN  [x \in 0 .. DeviceLen - 1 |->
            IF \E piece \in Pieces(f) : holds(x, piece)
            THEN Written[f][CHOOSE piece \in Pieces(f) : holds(x, piece)][x] ELSE Zero]
NoRoot == [bitmap |-> <<>>, upcase |-> <<>>]

Init ==
    /\ \E f \in Formats : units = Fresh(f)
    /\ refused = {} /\ job = {} /\ mounted = {} /\ changes = 0 /\ calm = TRUE
    /\ stage = <<"closed", 0>> /\ score = 0 /\ boot = NoBoot /\ geo = FromBoot(NoBoot)
    /\ found = {} /\ root = NoRoot /\ bits = <<>> /\ listed = <<>>

Changed == changes < MaxChanges /\ changes' = changes + 1
Unseen == calm' = (stage[1] = "closed") /\ UNCHANGED <<stage, shown>>

\* A formatter that dies is one that writes no more.
BeginFormat ==
    /\ job = {} /\ mounted = {} /\ Changed /\ Unseen
    /\ \E f \in Formats : ~ Whole(f) /\ job' = {f} \X Pieces(f)
    /\ UNCHANGED <<units, refused, mounted>>

WritePiece ==
    /\ Unseen
    /\ \E w \in job : job' = job \ {w} /\ units' = Over(units, Written[w[1]][w[2]])
    /\ UNCHANGED <<refused, mounted, changes>>

Boots(f) == {"region", "sum"} \X {0, BackupBootSector}
WithBoot(b) == [units EXCEPT ![0] = [boot |-> b]]

\* A driver takes a volume as it was made, and touches the main boot sector only.
Mount ==
    /\ job = {} /\ mounted = {} /\ Unseen
    /\ \E f \in Formats :
           /\ Whole(f) /\ mounted' = {f}
           /\ units' = WithBoot([f.boot EXCEPT !.volume_flags = @ \union {"VolumeDirty"}])
    /\ UNCHANGED <<refused, job, changes>>

Unmount ==
    /\ mounted' = {} /\ Unseen
    /\ \E f \in mounted : \E percent \in {f.boot.percent_in_use, 50} :
           units' = WithBoot([f.boot EXCEPT !.percent_in_use = percent])
    /\ UNCHANGED <<refused, job, changes>>

\* A cluster is allocated or freed: its bit and its entry, one and then the other.
MarkCluster ==
    /\ Changed /\ Unseen
    /\ \E f \in mounted : \E c \in Clusters(f) \ Used(f) :
           LET x == BitUnit(f, c)
               place == BitPlace(c)
           IN  units' = [units EXCEPT ![x].bits =
                            IF place \in @ THEN @ \ {place} ELSE @ \union {place}]
    /\ UNCHANGED <<refused, job, mounted>>

LinkCluster ==
    /\ Changed /\ Unseen
    /\ \E f \in mounted : \E c \in Clusters(f) \ Used(f), v \in EntryValues :
           LET g == FromBoot(f.boot)
               x == EntryAt(g, Min2(g.active, 1), c)
           IN  units' = [units EXCEPT ![x].fat[(c % TableEntries) + 1] = v]
    /\ UNCHANGED <<refused, job, mounted>>

\* A unit is lost, or a field in it.
Damaged(u) ==
    {Zero, Junk}
    \union (IF Is(u, "boot")
            THEN UNION {{[boot |-> [u.boot EXCEPT ![field] = v]] : v \in DamagedFields[field]} :
                           field \in DOMAIN DamagedFields} ELSE {})
    \union (IF Is(u, "fat")
            THEN {[fat |-> [u.fat EXCEPT ![i] = v]] : i \in DOMAIN u.fat, v \in EntryValues}
            ELSE {})
    \union (IF Is(u, "entries") /\ u.entries.bitmap # <<>>
            THEN {[u EXCEPT !.entries.bitmap[1].first = v] : v \in EntryValues}
                 \union {[u EXCEPT !.entries.bitmap[1].len = @ + 1],
                         [u EXCEPT !.entries.bitmap = <<>>]}
            ELSE {})

Damage ==
    /\ job = {} /\ mounted = {} /\ Changed /\ Unseen
    /\ \E x \in DOMAIN units : \E u \in Damaged(units[x]) \ {units[x]} :
           units' = [units EXCEPT ![x] = u]
    /\ UNCHANGED <<refused, job, mounted>>

Refuse ==
    /\ Changed /\ Unseen /\ \E x \in DOMAIN units : refused' = refused \union {x}
    /\ UNCHANGED <<units, job, mounted>>

---------------------------------------------------------------------------
(* The reader.                                                             *)

\* The BPB of a FAT volume would lie in the boot sector: nothing but zeros there.
Score(b) ==
    LET g == FromBoot(b)
    IN  IF ~ b.name THEN 0
        ELSE 60 + (IF b.signature THEN 8 ELSE 0) + (IF b.jump THEN 2 ELSE 0)
                + (IF g.trusted /\ SelfConsistent(g) THEN 30 ELSE 0)

Probe ==
    /\ stage = <<"closed", 0>>
    /\ score' = Score(BootOf(UnitAt(0))) /\ score' > 0
    /\ stage' = <<"probed", 0>>
    /\ UNCHANGED <<disk, calm, boot, geo, found, root, bits, listed>>

\* root: the boot sector decides where everything else is looked for.
ReadBoot ==
    /\ stage = <<"probed", 0>>
    /\ boot' = BootOf(UnitAt(0)) /\ geo' = FromBoot(boot')
    /\ found' = found \union In("main", GeometryFindings(boot'))
    /\ stage' = <<"region", 0>>
    /\ UNCHANGED <<disk, calm, score, root, bits, listed>>

ReadRegion ==
    /\ stage[1] = "region"
    /\ LET which == IF stage[2] = 0 THEN "main" ELSE "backup"
       IN  /\ found' = found \union In(which, RegionFindings(boot, geo, stage[2])
                                              \union SumFindings(geo, stage[2]))
           /\ stage' = IF which = "main" THEN <<"region", BackupBootSector>> ELSE <<"diff", 0>>
    /\ UNCHANGED <<disk, calm, score, boot, geo, root, bits, listed>>

TableStage(n) == IF n < Min2(geo.fats, 2) THEN <<"table", n>> ELSE <<"root", 0>>

Compare ==
    /\ stage = <<"diff", 0>>
    /\ found' = found \union In("backup", DiffFindings(geo))
                      \union In("volume", If(~ geo.trusted, "geometry"))
    /\ stage' = IF geo.trusted THEN TableStage(0) ELSE <<"open", 0>>
    /\ UNCHANGED <<disk, calm, score, boot, geo, root, bits, listed>>

ReadTable ==
    /\ stage[1] = "table"
    /\ found' = found \union In("table", TableFindings(geo, stage[2]))
    /\ stage' = TableStage(stage[2] + 1)
    /\ UNCHANGED <<disk, calm, score, boot, geo, root, bits, listed>>

\* The first entry of a kind counts, of those in each unit.
FirstEntry(lists) ==
    LET with == {i \in DOMAIN lists : lists[i] # <<>>}
        least == CHOOSE i \in with : \A j \in with : i <= j
    IN  IF with = {} THEN <<>> ELSE <<lists[least][1]>>

\* Of a directory of so many clusters the end is not scanned.
TooLong(g, clusters) == If(clusters * g.cluster > MaxDirectory, "longer than scanned")

\* directory_node and root_metadata.  A directory is scanned up to a limit, and told to
\* be longer by its clusters, whatever they hold.
ReadRoot ==
    LET chain == ChainFrom(geo, geo.root)
        read == ReadRuns(ClusterRuns(geo, chain.seen), MaxDirectory)
        entries == [i \in DOMAIN read.got |->
                      IF Is(read.got[i], "entries") THEN read.got[i].entries ELSE NoRoot]
    IN  /\ stage = <<"root", 0>>
        /\ root' = [bitmap |-> FirstEntry([i \in DOMAIN entries |-> entries[i].bitmap]),
                    upcase |-> FirstEntry([i \in DOMAIN entries |-> entries[i].upcase])]
        /\ found' = found
               \union In("root", ChainFindings(geo, chain, {})
                                 \union If(chain.seen = <<>>, "no clusters")
                                 \union If(read.end # "none", read.end)
                                 \union TooLong(geo, Len(chain.seen)))
               \union In("volume", If(root'.bitmap = <<>>, "no bitmap")
                                   \union If(root'.upcase = <<>>, "no up-case table"))
        /\ stage' = <<"bitmap", 0>>
        /\ UNCHANGED <<disk, calm, score, boot, geo, bits, listed>>

BitsIn(u) == IF Is(u, "bits") THEN u.bits ELSE IF u = Zero THEN {} ELSE 0 .. BitsPerUnit - 1

ReadBitmap ==
    LET ref == root.bitmap[1]
        chain == ChainFrom(geo, ref.first)
        read == ReadRuns(ClusterRuns(geo, chain.seen), Min2(ref.len, MaxBitmap))
    IN  /\ stage = <<"bitmap", 0>> /\ root.bitmap # <<>>
        /\ bits' = [i \in DOMAIN read.got |-> BitsIn(read.got[i])]
        /\ found' = found \union In("bitmap", ChainFindings(geo, chain, {ref.len})
               \union If(ref.len # CeilDiv(geo.count, BitsPerUnit), "data_length")
               \union If(read.end # "none", read.end) \union If(read.got = <<>>, "not read"))
        /\ stage' = IF read.got = <<>> THEN <<"upcase", 0>> ELSE <<"crosscheck", 0>>
        /\ UNCHANGED <<disk, calm, score, boot, geo, root, listed>>

NoBitmap ==
    /\ stage = <<"bitmap", 0>> /\ root.bitmap = <<>> /\ stage' = <<"upcase", 0>>
    /\ UNCHANGED <<disk, calm, shown>>

FewOf(clusters) == SubSeq(clusters, 1, Min2(MaxListed, Len(clusters)))

\* bitmap_fat_crosscheck: as far as the table and the bitmap were read.
Crosscheck ==
    LET n == Min2(geo.active, 1)
        from == EntryAt(geo, n, 0)
        last == Min2(geo.count, MaxChecked) + 1
        table == Got(from, EntryAt(geo, n, last) - from + 1)
        compared == {c \in 2 .. last : /\ c \div TableEntries < Len(table)
                                       /\ (c - 2) \div BitsPerUnit < Len(bits)}
        stray(c) ==
            /\ c \in compared /\ EntryIn(table[(c \div TableEntries) + 1], c) # 0
            /\ BitPlace(c) \notin bits[((c - 2) \div BitsPerUnit) + 1]
        strays == Only([i \in 1 .. last - 1 |-> i + 1], {i \in 1 .. last - 1 : stray(i + 1)})
    IN  /\ stage = <<"crosscheck", 0>>
        /\ listed' = IF table = Unread THEN <<>> ELSE FewOf(strays)
        /\ found' = found \union In("bitmap", IF table = Unread THEN {"FAT unreadable"}
                                              ELSE If(strays # <<>>, "free in the bitmap"))
        /\ stage' = <<"upcase", 0>>
        /\ UNCHANGED <<disk, calm, score, boot, geo, root, bits>>

ReadUpcase ==
    LET ref == root.upcase[1]
        chain == ChainFrom(geo, ref.first)
        runs == ClusterRuns(geo, chain.seen)
        read == ReadRuns(runs, ref.len)
    IN  /\ stage = <<"upcase", 0>> /\ root.upcase # <<>>
        /\ found' = found \union In("upcase", ChainFindings(geo, chain, {ref.len})
               \union IF ref.len > MaxUpcase THEN {"not verified"}
                      ELSE If(read.end # "none", read.end)
                           \union IF Len(read.got) = ref.len /\ ref.len # 0
                                  THEN If(read.got # ref.sum, "checksum")
                                  ELSE If(runs # <<>>, "not verified"))
        /\ stage' = <<"open", 0>>
        /\ UNCHANGED <<disk, calm, score, boot, geo, root, bits, listed>>

NoUpcase ==
    /\ stage = <<"upcase", 0>> /\ root.upcase = <<>> /\ stage' = <<"open", 0>>
    /\ UNCHANGED <<disk, calm, shown>>

\* FatEntries: somebody opens a table.
ExpandTable ==
    /\ stage = <<"open", 0>> /\ geo.trusted
    /\ \E n \in 0 .. Min2(geo.fats, 2) - 1 :
           LET from == EntryAt(geo, n, 0)
               table == Got(from, EntryAt(geo, n, geo.count + 1) - from + 1)
               value(c) == EntryIn(table[(c \div TableEntries) + 1], c)
               read == {c \in 2 .. geo.count + 1 : c \div TableEntries < Len(table)}
               odd == {c \in read : \/ value(c) = Bad
                                    \/ value(c) \notin {0, Eoc} /\ ~ ClusterInHeap(geo, value(c))}
           IN  /\ geo.count > 0
               /\ found' = found \union In("entries",
                                           IF table = Unread THEN {"unreadable"} ELSE odd)
    /\ UNCHANGED <<disk, calm, stage, score, boot, geo, root, bits, listed>>

Close ==
    /\ stage = <<"open", 0>> /\ stage' = <<"closed", 0>> /\ calm' = TRUE
    /\ score' = 0 /\ boot' = NoBoot /\ geo' = FromBoot(NoBoot) /\ found' = {}
    /\ root' = NoRoot /\ bits' = <<>> /\ listed' = <<>>
    /\ UNCHANGED disk

Others ==
    \/ BeginFormat \/ WritePiece \/ Mount \/ Unmount
    \/ MarkCluster \/ LinkCluster \/ Damage \/ Refuse

Next ==
    \/ Probe \/ ReadBoot \/ ReadRegion \/ Compare \/ ReadTable \/ ReadRoot
    \/ ReadBitmap \/ NoBitmap \/ Crosscheck \/ ReadUpcase \/ NoUpcase
    \/ ExpandTable \/ Close \/ Others

Spec == Init /\ [][Next]_vars

---------------------------------------------------------------------------
(* Properties.                                                             *)

\* What is said of a root directory although nothing is wrong: its one cluster is larger
\* than what is scanned.
LargeRoot(f) == In("root", TooLong(FromBoot(f.boot), 1))

\* On a volume as its formatter left it the probe is sure and nothing is found wrong, but
\* for a root directory in a cluster larger than what is scanned.  And the update that a
\* driver makes on its way in or out never passes for damage: while there was nothing else,
\* a dirty volume is told as such and the regions are told to differ, no field, no checksum.
HealthyIsQuiet ==
    calm /\ refused = {} =>
        /\ \A f \in Formats :
              stage[1] # "closed" /\ Whole(f)
                  => score = 100 /\ found \subseteq LargeRoot(f) /\ listed = <<>>
        /\ changes = 0 =>
              \E f \in Formats :
                  /\ \A piece \in Pieces(f) \ {<<"region", 0>>} : Kept(f, piece)
                  /\ found \subseteq LargeRoot(f) \union
                        {<<"main", "VolumeDirty">>, <<"backup", "VolumeDirty">>,
                         <<"backup", "regions differ">>}

\* When nothing is said of the boot regions, both are what one formatter wrote, but for the
\* two fields that a mount changes, and they agree in those: a formatter that died between
\* them, a lost unit and a damaged field are told (boot_checksum_node, backup_diff).
QuietIsOneRegion ==
    calm /\ stage[1] \notin {"closed", "probed", "region", "diff"}
    /\ (\A w \in found : w[1] \notin {"main", "backup"})
        => \E f \in Formats :
               /\ \A piece \in Boots(f) : Intact(f, piece)
               /\ LET len == SectorAt(FromBoot(f.boot), BootRegionSectors)
                  IN  \A x \in 0 .. len - 1 : units[x] = units[len + x]

\* Where the driver finds the entry and the bit of a cluster.
EntryOf(f, c) ==
    LET g == FromBoot(f.boot) IN EntryIn(units[EntryAt(g, Min2(g.active, 1), c)], c)
Taken(f, c) == BitPlace(c) \in BitsIn(units[BitUnit(f, c)])

\* The structure of a volume stands; the contents of its tables may be anything.
Standing(f) ==
    /\ \A piece \in Boots(f) : Kept(f, piece)
    /\ \A c \in Used(f) : EntryOf(f, c) = FreshEntry(f, c)
    /\ units[ClusterAt(FromBoot(f.boot), f.boot.first_cluster_of_root)] = [entries |-> Entries(f)]

\* The clusters that are shown as chained but free are, wherever the pieces of the bitmap
\* lie and whatever part of it cannot be read; and the first of them are shown.
CrosscheckTrue ==
    \A f \in Formats :
        calm /\ stage[1] \in {"upcase", "open"} /\ Standing(f) =>
            LET checked == Min2(f.boot.cluster_count, MaxChecked)
                stray(c) == c \in 2 .. checked + 1 /\ EntryOf(f, c) # 0 /\ ~ Taken(f, c)
                strays == Only([i \in 1 .. checked |-> i + 1],
                               {i \in 1 .. checked : stray(i + 1)})
            IN  /\ \A i \in DOMAIN listed : stray(listed[i])
                /\ refused = {} => listed = SubSeq(strays, 1, Min2(Len(strays), MaxListed))

==========================================================================
