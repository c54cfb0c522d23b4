# A verification of blktamper

blktamper shows what the metadata on a block device says — partition tables, FAT
and exFAT volumes — and can scrub deleted directory records. This directory holds
TLA+ modules of the parts of it in which state, order and failure matter, TLC
runs that check them on small instances, and TLAPS proofs of the theorems that
matter most. Everything is translated from the code under `src/crates`.

## 1. Inventory

The program is one process with one thread. It waits for a key, handles it to the
end, draws, and waits again; there are no callbacks, no timers and no background
work. What is concurrent with it is outside: the kernel that writes dirty pages
back, other processes and file system drivers that have the device open, signals,
and loss of power.

| Component | State it keeps | Operations |
|---|---|---|
| overlay (`io/overlay.rs`) | staged edits in order; the bytes they set | stage, stage_all, revert, commit, read_at |
| undo journal (`io/journal.rs`) | an append-only file per commit | open, append (flushed), read_undo |
| block cache (`io/cache.rs`) | 64 KiB blocks, refused blocks, an LRU order | read_at, invalidate (never called) |
| source and sink (`io/file.rs`, `linux.rs`, `open.rs`) | file descriptors | read, write_at, sync; queries of the kernel |
| session (`tui/session.rs`) | regions; `--rw`; the write handle; sector size | open, arm, disarm, commit, interpret_as, discovery |
| application (`tui/app.rs`, `rows.rs`) | region, expansion, rows, cursor, filter, jump stack, popups, quit | one handler per key or command |
| scrub layouts (`core/scrub.rs`) | none | classes, sweep, compact, fills, plans of edits |
| FAT, exFAT scrubbing (`formats/*/scrub.rs`) | none | plan_directory, plan_record |
| FAT, exFAT readers (`formats/fat`, `formats/exfat`) | none (they read the device each time) | probe, root, lazy expansion, chain walks |
| GPT, MBR readers (`formats/gpt`, `formats/mbr`) | none | probe, root, entries, the chain of extended boot records |
| tables and generic reader (`core/desc.rs`, `reader.rs`, `value.rs`, …) | none | decoding fields |
| drawing, clipboard, help | what is on the terminal | formatting |

How they interact: the application calls the session, which owns the regions and
the write state. A read goes overlay → cache → file. A scrub goes application →
reader (plan) → popup → `Overlay::stage_all`. A commit goes application → session →
journal → `Overlay::commit` → sink, and then drops every parsed tree. All of it is
calls; the shared state is the bytes of the device, seen through overlay and cache.

What is hard, and what has to hold:

* **Writing** must be undoable from every point at which the process or the power
  may die; a failed commit must keep its edits for another try; a plan is staged as
  a whole or not at all; nothing is written without the three gates; no byte changes
  that no edit names.
* **Scrubbing** must hide no file from a driver, touch no other directory, leave no
  residue behind that it promises to remove, and lose nothing a driver does while
  the plan is on the screen.
* **Navigating** must keep rows, trees, cursor and jumps in agreement although trees
  are parsed lazily and dropped whenever the bytes change, and must not hide a
  finding behind a filter.
* **Telling what is wrong** with a volume or a table must be true of one that was on
  the device: a sound one is reported sound, silence means that all parts belong
  together, and what survived of a damaged one is shown. The parts are read one after
  the other while a driver, a formatter or a partition tool may be at work, or may
  have died half way.
* **Walking links** must end on any device whatever it says, list no place twice and
  none that does not exist, list a good chain in whole, and give the true reason
  for its end.

The list of hazards, each at its line with the properties that cover it, is in
`PROJECT.json`.

## 2. Modules

| Module | Models | Relation |
|---|---|---|
| `UndoLog` | abstract: a device and a log of undo records | — |
| `WritePath` | overlay, journal, cache, sink, gates and commit, byte by byte | implements `UndoLog` |
| `DirScrub` | what a directory plan reads, how it lays the records out, staging and commit, and a driver that uses the same directory | |
| `Navigator` | discovery of regions, trees, rows, cursor, filters, jumps, `:sector`, quitting | |
| `Selection` | operators only: what a filter leaves of a sequence | used by `DirScrub`, `Navigator` and `FatVolume` |
| `GuardedWalk` | abstract: what every walk along links promises | — |
| `ChainWalk` | the walks of FAT, exFAT (chained and contiguous) and extended boot records | implements `GuardedWalk` |
| `GptTables` | the GPT reader: headers, arrays, comparison, protective record, entries; a partition tool and damage | |
| `FatGeometry` | operators only: what follows from the fields of a FAT boot sector, with the widths of the integers | |
| `FatVolume` | the FAT reader: probe, boot sectors, FSInfo, tables and their comparison, directories; a formatter and a driver | extends `FatGeometry` |
| `ExfatVolume` | the exFAT reader: probe, boot regions, tables, bitmap, up-case table; a formatter and a driver | |
| `ExfatDirectory` | the exFAT reader: records of a directory put together to files; a driver | |
| `FatDirectory` | the FAT reader: short entries and fragments of long names put together to files; a driver | |
| `MC…` | instances for TLC | |
| `…_proofs` | TLAPS proofs | |

`WritePath` and `DirScrub` meet at an edit: `DirScrub` says which records change and
to what and takes a commit for one step; `WritePath` takes edits of any bytes and
says what staging, journalling, failing and crashing do to them. `Navigator` takes
staging and committing for steps that change what is seen through the overlay.
The readers meet at a place: `FatVolume` and `ExfatVolume` say where a table, a
cluster or an extent lies and take a walk along a chain for one step, whose turns are
`ChainWalk`; `FatDirectory` and `ExfatDirectory` start from the runs they give.

### WritePath

Bytes are numbers, an edit is a pair of functions `old`, `new` on the offsets it
covers. `disk` is what a read of the device returns, `stable` what survives a loss
of power; `cached` holds a byte, `Absent` or `Unreadable` for every offset and is
only ever changed by whole blocks. `bytes` and `staged` are the two tables of the
overlay, `before` the snapshot `stage_all` takes for its rollback. `pc` tells which
loop of a call the program is in, so that everything outside may happen between two
edits staged, two records appended, and two sectors written.

| Action | Code |
|---|---|
| `Browse`, `Scrub`, `Cancel` | reading for the screen; making a plan; closing a popup |
| `StageAll`, `Stage`, `StageDone` | `Overlay::stage_all`, one `stage` a step, with rollback |
| `Revert`, `Arm`, `Disarm`, `AskCommit`, `Confirm` | `:revert`, `:arm`, `:disarm`, `:commit`, the device name typed |
| `AppendRecord` | `Journal::append` including its flush; it may fail with or without the line in the file |
| `StartWriting`, `WriteSector`, `Flush` | `Overlay::commit`: the sectors, each read back, patched, written in whole or in part; `sync_all` |
| `Writeback`, `ForeignWrite`, `Restart`, `PowerLoss` | kernel, other processes, death of the process, loss of power |

Abstractions: which block the LRU gives up is left open (any may go at any read, so
the model allows more than the cache does); a read fails per block; the format of
the journal's lines and the place of its file are left out. Reading the undo is the
operator `UndoLog!Undone`: records applied newest first.

### DirScrub

A volume is a row of record slots: the fixed root of FAT12/16, then clusters. A
record is its mark (free, deleted, live), the one byte that tells them apart, whether
that byte makes it an exFAT stream extension, and what the other 31 hold: nothing or
somebody's name. `Follow`, `RunsFrom` and `SlotsRead`
are the reading of a directory, `Sweep` and `Compact` the layouts, `RecordPlan` and
`DirectoryPlan` the plans with their refusals, `InUseAfter` the warning before a
zero. The driver lists a directory up to its first free record, deletes and creates.
The tool sees records as `View` says: from `cached`, its copies by blocks, which `Load`
fills and `GiveUp` drops but no write ever changes, and from the device where it has no
copy. Plans, the comparison in `Stage` and the sectors a `Commit` writes back are all made
from that; what the FAT says is read afresh. `plan.fresh` and `plan.checked` remember
whether the view was the device when the plan was made and when it was staged.
Long names, times and sizes are part of what a record holds. Filters of records are
stated by the places they keep (`Only`), not by a fold, so that the layouts can be
reasoned about for directories of any length.

### Navigator

`Discovered` is the order in which regions are found, stated by rank, so that what
discovery finds can be reasoned about without a recursion. A tree is given by constants: the nodes in order, what is above each, which are read
on demand, which are blank, gaps, anomalies, and where links lead; `findings` are the anomalies
that have a status worse than an information, which is what keeps a blank node from being
taken for empty. `Targets` are where the
entries of a table point, the lowest `MaxTargets` (32) of them. A region keeps
which of its lazy nodes were resolved and which view of the bytes it was parsed
from. Every key that changes regions, expansion, filter, cursor or jumps is one
action; keys that only change what is drawn are left out.

### ChainWalk

A place is a cluster or an LBA, `table` the link stored there, which may also be an
end mark, a bad mark or unreadable. One action is one turn of the loop of
`follow_chain`, `cluster_chain` or `walk_ebr_chain` (the contiguous branch of
`cluster_chain` reads no links and is one turn), so that `Write` may change a link
between two turns. `listed` is the result and the set in `ChainGuard` at once.

### GptTables

A sector holds a header, a part of an array, an MBR, zeros, or is refused. A checksum
is what it was computed from: a header is `genuine` when its own checksum is right,
and `acrc` is the array it sums up. A partition tool writes the five pieces of a
table in the order it likes and may die (`BeginUpdate`, `WritePiece`, `ToolDies`);
`Damage` changes a field, an entry, or makes a sector unreadable. The reader's steps
are the reads in `GptProbe::probe` and `GptReader::root`: `Probe`, the four of headers
and arrays, the MBR, and `OpenEntries` for `EntryArray::expand`. Lengths count units of
half an entry, so that an array may end within one.

### FatGeometry and FatVolume

`FatGeometry` is `Geometry::parse` and what follows from it: the kind of a volume by
its count of clusters, where the tables, the root and the clusters begin, each
`checked_add` and `checked_mul` with the last number of its width. `FatVolume` reads:
`Open` is the probe and the boot sectors, `Compare` one chunk of a comparison of two
tables, `List` one run of a directory, `OpenRoot`, `OpenDirectory` and `PreviewTable`
what a user opens. A device is bytes where tables are, records where boot sectors and
FSInfo are.

### ExfatVolume

A unit of the device holds one thing: a boot sector, an extended one, a checksum
sector, a part of a table, of the bitmap, of the root directory. `ReadBoot`,
`ReadRegion`, `Compare`, `ReadTable`, `ReadRoot`, `ReadBitmap`, `Crosscheck` and
`ReadUpcase` are the parts of `ExfatReader::root` in the order it makes them. Of a root
directory the first `MaxDirectory` bytes (256 KiB) are scanned, and a warning says so
(`LargeRoot`). The
driver that mounts the volume sets the flags of the main region only; a formatter
writes region by region and may die between.

### ExfatDirectory

A record is its type, whether it is in use, and what it holds. `ReadRun` is one run of
a directory, `Show` the loop that takes a primary record and those it declares to one
file; its allocation, given or left out, is checked against the clusters there are. That
an up-case table may make two names equal, and whether the clusters of a file are marked
in the bitmap, are left out. A driver creates and deletes files record by record in any order.

### FatDirectory

A record is its first byte, whether it is a fragment, and its other bytes; a checksum
is computed as in the code, from the first byte and one number for the rest of the
short name. `ReadRun` is one run of `DirectoryEntries`, `Show` is `build_entries`: the
fragments in front of a short entry, the recovery of a destroyed first character, the
findings, the orphans. A driver creates a file (fragments, then the short entry) and
deletes it record by record in any order and may die on the way.

## 3. Runs

| Run | Shows | Bounds |
|---|---|---|
| `retry` | overlay and staged edits agree; staging a plan is atomic; a commit drops only durable edits; writes need the gates; calls return | 5 bytes, 2-byte sectors, blocks of 2 sectors (last sector and block short), 3 plans incl. one over two blocks, 2 commits, 1 fault |
| `crash` | the undo leads back from every point; only edited bytes change; `UndoLog` is implemented | 3 bytes, 2 sectors, 1 plan over both, 2 processes, 2 faults, 1 foreign write |
| `directories` | scrubbing keeps the listing whatever layout is chosen, the directory, and the driver's changes; it removes residue | 5 volumes: FAT of one and two clusters, fixed root, exFAT of one cluster, chained, and contiguous with a link left over from an earlier owner; sectors of 2 records, cache blocks of 4; all mixtures of records; 1 unreadable record or FAT entry; 1 act of a driver and 1 commit |
| `nav_mbr` | filters hide no finding; listed partitions within the limit are looked at; jumping back finds the region | 3 regions, limit of 1 target, 1 jump, all filters |
| `nav_sector` | rows, trees and cursor stay current through `:sector`, staging, committing | 2 regions, 2 changes of view, 2 sector sizes |
| `chain_walk` | the walks end, repeat nothing, list only what exists, list good chains in whole, give the true reason; `GuardedWalk` is implemented | 3 clusters or 4 sectors, every table, every start and declared length, limit 3, 1 foreign write |
| `gpt_tables` | a sound table is reported sound; silence means one table; a copy that survived is shown in whole; overlaps are all named or counted | 7 sectors of three entries; 3 tables (one of another disk, one of a smaller disk); 2 changes: updates, damaged fields, entries, sectors |
| `fat_volume` | a sound volume is reported sound; one damaged field is found or harmless; what is said of two tables is true of the part compared; clusters are listed in the chain's order; chains, comparisons and directories are read within the table, the clusters or the root they belong to, and a preview within its table when that has the entries shown | 4 volumes of the three kinds, one with a single table; tables of up to 40 bytes in chunks of 8; 1 change |
| `exfat_volume` | a sound volume is reported sound, but for a root directory larger than what is scanned, also while mounted or never unmounted; silence means one region, but for the fields a mount changes; what is said of bitmap and table is true | 3 volumes, sectors of one and two units, one with two tables, one with clusters larger than what is scanned; 1 change; 16 fields with damaged values |
| `exfat_directory` | every record is shown once; files a driver sees are shown as it sees them; deleted files are recovered | 8 records in two runs, the second before the first; 2 files; limits of 7 records and 4 clusters; 3 changes |
| `fat_directory` | every record is shown once; files a driver sees are shown with their names and no finding; deleted files are recovered | 7 records in two runs, the second before the first; 4 files, two with the same checksum, one whose name begins with 0xE5; limit of 6 records; 3 changes |
| `stale_sector` | finds a disagreement (section 5) | as `crash` |

Why the bounds are enough: two sectors and two records are the least at which a
commit can be cut between them and a sector can hold bytes of no edit; two processes
are what a crash and a commit after it need. Two clusters with a third between them
separate "next in the directory" from "next on the disk". Three clusters give every
shape of link: forwards, back, to itself, out of the volume; limit 3 is reached, and
for the four sectors of an extended partition it is exceeded. Three entries are the
least at which two of them can overlap a third and one be over the limit of those named.
A boot region of three sectors has a part that is in the checksum, a field that is not,
and the checksum itself. `CHECK_DEADLOCK FALSE` stands in
every cfg because each system may really stop: bounds are used up, a walk has
ended, or the user has quit. Where a property is about a table or volume "as its
tool left it", the tools' actions make those states; the damages are given field by
field in the MC module, so that each finding of the reader has one that calls for it.

Every property of a passing run has a mutant in its module — the definition with a
plausible bug, marked "Mutant" — that makes TLC find it violated.

**Fairness.** `WritePath` has weak fairness of `Program`, the steps the code takes
without waiting for a key; `ChainWalk` of `Turn`. Both are justified by the single
thread: once a call has begun it is run to its end, and what is outside can fail it
but not make it wait. No fairness is assumed of the user, the kernel's write-back or
other processes.

## 4. Proofs

The theorems hold for every device, plan, fault bound and number of processes.

* `WritePath_proofs`: `TypeCorrect` (types are inductive as they stand, so no run
  checks them again) and
  `OverlayCorrect`. For the latter the snapshot of `stage_all` has to match, too,
  since a rollback makes it the overlay: `OverlayInv`.
  `UndoCorrect` and `Refinement` (of `UndoLog`) need three more parts. `CommitInv`:
  while a commit appends, the records written are those of the first staged edits;
  while it writes, of all. `UntouchedInv`: a byte that no journal names and nobody else
  wrote is as in the first image on the device, in the cache and in the basis of every
  staged edit — this is what makes the stale cache harmless for the undo. `OldestInv`:
  the oldest record of a byte holds what the first image held. From these the undo is
  right at every byte, named or not.
  `Gated`, `AllOrNothing` and `KeptUntilDurable` are the action properties of a commit.
  `ArmedInv`: a commit is only on its way with the handle open, and the handle only with
  `--rw`. `WrittenInv`: while a commit writes, every staged byte whose sector is off the
  list is on the device unless somebody else wrote it.
* `DirScrub_proofs`, for directories of any length in clusters of any size and order.
  `PlansStayInside`: what a walk reads of a directory whose last link leads nowhere is a
  part of it (`FollowIsPart`, an induction over the walk), so every plan is. Of a contiguous
  exFAT directory with a link left over from somebody else it says nothing: there the code
  does scrub what lies outside (section 5).
  `LiveRecordsKept` rests on `PlanKeeps`: a plan writes every live record it overwrites
  to another place (`CompactSwaps`; sweeping overwrites none), and what a staged plan
  compared is still there. It is proved of plans for which the comparison was one with the
  device (`Compared`): the cache had, when the plan was staged, what the device had of the
  records it changes, and has, when it is committed, what the device has of their sectors.
  And it is proved where no driver acts between staging and commit, which is what the run
  assumes. Without either the property is false of the code.
  `ListingStays` and `NothingIsLeft` come from `PlanHarmless`: carried out now, the plan
  at hand would keep the listing and leave no residue. It is made so by the four layouts
  (`SweepListing`, `CompactListing`, `SameListing` for fills, `ListedBehind` for a zero
  without a warning). It has to be made from what is on the device (`plan.fresh`), and only
  what somebody does to the directory takes it away, which `Undisturbed` excludes. The lemmas of `Selection_proofs` (`RankFacts`, `NthFacts`,
  `SameRank`) carry the compaction.
  `CompactOffered` holds in every typed state, for directories within `MaxClusters` and
  `MaxRecords` (`WithinLimits`), the limits of the scan in the code: 4096 clusters and 16384 records.
  It leaves out the directories the code takes for file data (section 5): an exFAT one with a
  stream extension, which is every one that holds a file, and a FAT one with an emptied record.
* `ChainWalk_proofs`: `WalkCorrect` proves `WalkInv`: types, the guard's promise
  (`GuardInv`), the walk's heading (the last place listed leads to `at`), the path and
  the reason. From it follow `AlwaysReal`, `AlwaysPath`, `AlwaysTrueReason` and
  `Refinement` (of `GuardedWalk`). `AlwaysWholeChain`: a walk that has ended has followed
  any order of places that the table encodes from its start; by the first place at which
  the two would part.
* `GptTables_proofs`: `GptCorrect` proves the inductive invariant: what has a right
  checksum, on the disk or read, was written by a tool for a table of `Tables`. From it
  follows `AlwaysOneTable`: a report without a finding means that headers, arrays and
  places are those of one table, for every device, every set of tables and any damage.
  `StillInv` says that, while nobody writes, what was read is what is there. With
  `WholeArrayRead` (the sectors of an array, unit by unit, are the array) it gives
  `AlwaysSurvivor`, and with the checks evaluated one by one on a tool's headers
  (`HealthyHeader`, `HealthyArray`, `HealthyCopies`, `HealthyScore`) `AlwaysHealthy`. The two
  need what `ToolsAssumption` says of tables: usual header and entry sizes, a count within
  the limits, room between the arrays. `AlwaysCounted` follows the two loops over pairs
  turn by turn (`Counted`): `Met` are the partners an entry has had by the turn that was
  last, and a turn adds each entry of its pair to those of the other (`MetNext`).
* `Navigator_proofs`: `TypeCorrect`, `AlwaysCurrentRows` and `AlwaysCurrentTrees` come
  from one inductive invariant of types, rows and trees: whatever changes the bytes seen
  drops every tree that was read before, and whatever changes a tree or a region lays
  the rows out anew. That discovery always yields regions rests on a counting argument:
  the rank of a find is one-to-one, hence onto. `AlwaysBack` proves `BackToTheRegion` for
  `Resizes = {}`: the regions then only grow, and every entry of the jump stack goes on
  naming the region that was left. With `:sector` it is false, as it is in the code,
  where the regions are found anew and the stack is kept.
  `AlwaysFindings`: a node that is a finding or above one is kept by every
  filter (`Noticed`), and nothing lies below a gap, so what is expanded to is a row (`FindingKept`).
  `AlwaysPartitions` has one more inductive part, `FoundIn`: each find of the discovery is
  a region; it is so at first since the rank of a find names it (`FindAtPlace`), and regions
  only grow or are found anew; which targets are among the first `MaxTargets` is decided by
  their offsets (`WithinLimit`). That trees are trees is `TreesAssumption`.
* `ExfatVolume_proofs`: `RegionsCorrect` is the inductive invariant: a unit that holds a
  checksum holds that of a region a formatter wrote, and what was said of the boot regions
  is true of the device while nobody writes. `AlwaysOneRegion` follows: silence means one
  formatter.
  `AlwaysCrosschecked` needs a second one, `CrossInv`: while nobody writes, the reader of a
  volume that stands knows where its bitmap is (`RootKnown`), then the units of it as far as
  the limits allow (`BitsKnown`), then lists what is chained but free (`ListedTrue`). Each
  step is a loop followed turn by turn: the clusters of a chain (`TurnWalks`), the runs made
  of neighbours (`ClusterAdded`: `Laid` says for each run how many units lie before its end),
  the units of a run (`RunAdded`). The rest is where a bit is (`UnitPlace`, `BitSeen`): the
  clusters of a bitmap may lie anywhere and in any order. What formatters write is
  `FormattersAssumption`; it also says that the limits on a chain and on a bitmap cover what
  is compared: 65536 clusters and 8 MiB in the code, where 65536 clusters are compared.
  `AlwaysQuiet` needs a third, `QuietInv`. A volume that at most a mount has touched
  (`Driven`) holds one of a few boot sectors (`Variants`) and is otherwise as it was written;
  of such a volume the reader knows the geometry, the root directory and the bits it read,
  and what it has said is mild (`Knows`, `Mild`); of one that is whole it has said nothing but
  that its root directory is large, where it is (`Clean`).
  That what was written is read back needs the layout: the six pieces of a volume do not
  meet (`ZoneOf`, `PieceZone`) and neither do its clusters (`ClustersApart`). Then one lemma
  for each part of the reader: checksums (`SumQuiet`), extended boot sectors (`RegionQuiet`),
  the comparison (`DiffQuiet`), tables (`TableQuiet`, `ExpandQuiet`), bits (`DrivenTaken`,
  `NoStrays`), the up-case table (`UpcaseQuiet`). The theorem asks for bitmaps no longer than
  the limit on a chain (`ShortBitmaps`), and has to: of a bitmap of more than 65536 clusters,
  512 MiB in clusters below 8 KiB, the code warns although nothing is wrong.
* `FatVolume_proofs`: `ReaderInPlace` is the inductive invariant: the chain holds clusters
  of the volume, the runs lie in the data area or are the fixed root, a comparison is
  within the tables, for every boot sector whatever its fields. `AlwaysReadsInPlace`
  follows; of a preview it is claimed only when the table has the entries shown, since the
  code reads before it asks (section 5). `AlwaysListed` needs a second one, `ListInv`: there is a number for every run,
  how many records of the directory end with it, such that the run holds the records
  between its number and the one before (`Laid`). A cluster adds one such run
  (`ClusterCovered`, `RunAppended`) or makes the last one longer (`RunJoined`), reading a
  run adds its records to those in front (`RecordsJoined`), and that a run on the device is
  read whole is the layout: a volume that fits has its clusters on it (`Layout`).
  `AlwaysMirrorTrue` needs a third, `MirrorInv`: while nobody writes, what a comparison has
  collected are the first differences below the place it has come to, as far as the limit
  allows (`FirstOf`), and every verdict is one of these. A chunk adds the differences in it
  (`ChunksDiffer`), and cutting the list at the limit keeps it a beginning (`FirstOfMore`).
  `AlwaysQuiet` needs a fourth, `QuietInv`: while nobody writes, the reader has read the boot
  sector of the volume that is whole, and what it has said so far is about directories only.
  Each check is evaluated on a volume by the formatters' rules (`QuietBoot`, `CertainScore`,
  `QuietEntry`, `QuietMedia`); that a comparison stays silent is `MirrorInv` over tables that
  are the same, read in whole (`TablesFit`, `AllRead`, `NoneDiffer`), and that the root has a
  place is the layout again. The rules are `FormattersAssumption`. The preview shows one entry
  more than there are clusters, so a whole volume has one there that means something.
* `Selection_proofs`: lemmas on the order of a filter's places and on numbers, which the
  proofs about `DirScrub`, `FatVolume` and `ExfatVolume` share, on products and remainders
  (`DivMod`, `Products`), and on loops (`LoopRuns`, `LoopGood`, `LoopKeeps`): a recursive
  function over the turns of a loop exists, and what each turn keeps true holds at its end.

Assumptions are those named in the modules: sizes are naturals, marks differ from
values, plans are sequences of patches of bytes, damage makes no checksum right, a sector
holds whole directory records, the first two entries of a table lie in one unit, a device
has no more bytes than 64 bits count, tools and formatters write what their standards ask
(`ToolsAssumption`, `FormattersAssumption`).
Nothing is assumed of faults.

Where a proof speaks of data of any length, the recursive definition is a function on the
numbers (`Follow`, `MarkRow`) or the claim is turned into one about the least number at which it
would fail; neither needs the library's induction theorems.

Only model-checked: liveness (`CallsReturn`, `WalkEnds`) — out of the prover's reach;
`SectorBytesSurvive`, true of the first commit of a process only; that damage to one field
is shown (`SingleDamageShown`), which holds of the damages listed and not of any; and the
putting together of files, which is built from folds. That the cursor is on a row is not
stated as a property: every step that uses the node under the cursor evaluates it, and TLC
would stop there.

## 5. Disagreements between code and documentation

Shown by a run:

* `stale_sector`: the second commit of a process into a sector writes the first
  commit's bytes back, because the cache is never refreshed (`overlay.rs:174`). The
  undo still works; `SectorBytesSurvive` is therefore checked for one commit a process.

Known disagreements met on the way and not kept as runs. Where a property would fail
because of one, it is stated for the rest, or left out:

* An unreadable FAT entry shortens the chain, and the rest is rewritten as the whole
  directory (`fat/scrub.rs:461`); `ListingKept` therefore speaks of plans
  made from a complete reading.
* No warning before a zero that ends its cluster although the directory goes on
  elsewhere (`fat/scrub.rs:454`).
* After a neutral scrub the directory no longer passes for one, so compact is refused
  for good (`fat/scrub.rs:61`).
* Volumes named by a GPT are not probed: its entries have not been read when they are
  looked for (`session.rs:305`).
* The logical partition of an EBR is not probed, but the sector whose absolute number
  equals its relative one (`session.rs:289`).
* After a commit the trees are parsed again through the cache and show the old bytes
  (`session.rs:183` "re-parse against what is actually there").
* `:revert` after a commit that failed half way says the device was never touched
  (`app.rs:537`).
* The basis of an edit is compared with the cache, not with "what the device currently
  holds" (`overlay.rs:82`, `overlay.rs:99`). The plan is made from the cache, too, which
  nothing refreshes, not even the tool's own commit, and the commit writes the other records
  of a sector back from it. What a driver did to a directory after its block was read is thus
  neither seen nor noticed, and a record plan after a compaction may empty a live record the
  compaction moved there. `NoLiveRecordLost` speaks of plans compared with what the device
  has, `ListingKept` and `ResidueGone` of plans made from it.
* A stream extension has the type code 0, which the heuristic says any allocated record must
  not have (`exfat/scrub.rs:45`, `exfat/scrub.rs:59`): sweep and compact are refused for
  every exFAT directory that holds a file, or a deleted one. `CompactStaysAvailable` speaks
  of the others.
* "A gap holding data is never hidden" (`rows.rs:191`), but with hide-empty one full of 0xFF
  is: its diagnostic is an information, and 0xFF counts as blank (`node.rs:256`,
  `reader.rs:256`). `FindingsShown` says what is left.
* Of the offsets a table points at the lowest 32 are probed, the others are dropped
  without a word (`session.rs:263`).
* A directory longer than `MAX_DIR_RECORDS` is compacted up to the limit, against
  the comment at `fat/scrub.rs:23`; the record limit ends a run, not the loop over
  the runs (`fat/scrub.rs:136`).
* exFAT scrubbing follows the FAT for a contiguous directory, too
  (`exfat/scrub.rs:366` against `exfat/mod.rs:1877`); the node offered is then of the
  one cluster only, so `directories` still holds where there is no stale chain.
* Records past the end of a directory whose first byte is a letter count as live: a
  compact can move them to where a driver lists them (`fat/scrub.rs:146`).
* Going back lands on a row number, which may be another node when other nodes were
  open (`app.rs:306`); an array read on demand is shown as open and empty
  (`rows.rs:94`); staging closes what had been read on demand (`app.rs:416`).
* `q` and C-c quit with edits staged, `:q` refuses (`app.rs:737`).
* `:sector` changes what the session shows, not what the parsers ask the source
  (`session.rs:101`); when nothing is found afterwards the old rows stay on the
  screen (`app.rs:143`).
* A contiguous exFAT extent longer than `MAX_CLUSTER_CHAIN` (`exfat/mod.rs:1253`) and a FAT
  directory longer than `MAX_DIR_ENTRIES` (`fat/mod.rs:1604`) end without a diagnostic. An
  exFAT directory does not (`exfat/mod.rs:1470`); a healthy volume with clusters above 256 KiB
  gets that warning for its root directory, and `HealthyIsQuiet` allows for it.
* GPT: one header is called intact when only its signature was looked at
  (`gpt/mod.rs:1100`); a header that cannot be read is reported as having no signature;
  an entry that cannot be read is labelled like an unused one; a name that begins with
  a zero but goes on counts as none (`gpt/mod.rs:718`).
* FAT: `cluster_to_byte` is documented to give nothing when the number is out of range,
  but has no upper bound (`fat/mod.rs:407`); a comparison cut short by an unreadable
  sector still says that the tables agree, and one cut short by the limit on differences
  counts the whole chunk as compared (`fat/mod.rs:1370`); a run of a directory that is
  cut by the end of the device is not reported; the preview of a table reads each entry
  before it asks whether the table has it, up to one past the last cluster, and of a short
  table shows bytes from behind it (`fat/mod.rs:1246`); deleted parts of a long name directly before those of a live
  one are joined to it and used to recover the first character of a deleted one.
* FAT: the numbers of the fragments of a long name are shown but not compared, so a name
  that misses a part passes when the checksums agree (`fat/mod.rs:1861`); of a deleted
  file whose first fragments were overwritten it is still said that the fragments are
  there in full.
* exFAT: "the two boot regions differ" is a warning even where only the fields differ
  that a mount changes, which its own comment calls no fault (`exfat/mod.rs:724`); the
  backup is judged by the geometry of the main sector (`exfat/mod.rs:457`); entries of a
  table are read without looking whether they lie within it, and with `ActiveFat` set
  and one table, past it; `ActiveFat` is to select the bitmap, too (`exfat/mod.rs:152`,
  `exfat/types.rs:178`), but the first one in use is taken (`exfat/mod.rs:2093`) — the
  volumes of the runs and proofs are written with the first table in use and one bitmap; the count of allocated clusters includes the bits after the
  last one; a record that declares more secondaries than it has swallows live files and
  the end of the directory, after which old records are shown as live
  (`exfat/mod.rs:1495`).
* The documents promise `--undo`, a second confirmation when the device is mounted,
  and a flush of the journal's directory; the code has none of the three.
* The check that the journal is not on the target sees one level of parents only
  (`journal.rs:181`); one unreadable sector makes its 64 KiB block unreadable
  (`cache.rs:101`).

## 6. Not modelled

Decoding of fields and its tables, rendering, drawing, the clipboard and help: no
state, covered by unit tests. The ioctls and sysfs facts: plain queries. Opening of
files and permissions: pure I/O. The dump mode: a loop of calls modelled elsewhere.

## 7. Plan

Done, in this order: the write path and its undo log; directories; navigation; the
chain walks; GPT tables; FAT and exFAT volumes; exFAT directories; proofs about the
write path, directory scrubbing, the chain walks, the GPT tables, navigation, the
exFAT boot regions, bitmap and sound volumes, and FAT directories and tables.

To come, the most important first:

1. proofs of the putting together of files, with the folds written as functions on the
   numbers;
2. entries of the MBR: overlaps, the extended partition as a container, and the
   protective entry of a GPT seen from the MBR reader;
3. the journal's line format and its reading, once `--undo` exists.
