---------------------------- MODULE DirScrub ----------------------------
(***************************************************************************)
(* Scrubbing a FAT or exFAT directory: which records a plan reads, the     *)
(* layout it gives them, what it warns of, and what a driver that lists    *)
(* the directory sees before and after.                                    *)
(*                                                                         *)
(* A volume is a row of 32-byte record slots: first the fixed root of      *)
(* FAT12/16 (RootSlots of them, or none), then the clusters 2..LastCluster.*)
(* A record is its first byte and what the other 31 hold: Nothing (all     *)
(* zero) or somebody's name, which is the slot it had at first.  Of the    *)
(* first byte it is told whether the record is free, deleted or live and,  *)
(* on exFAT, whether it is a stream extension (0xC0, deleted 0x40).  A     *)
(* driver lists a directory up to its first free record; the tool reads    *)
(* past it, and reads everything through the block cache, which nothing    *)
(* ever brings up to date.  What staging, journal and commit may do to an  *)
(* edit is in WritePath: here a commit is one step.                        *)
(***************************************************************************)
EXTENDS Integers, FiniteSets, SequencesExt, Selection

CONSTANTS
    RootSlots,      \* records of a fixed root directory (FAT12/16), or 0
    LastCluster,
    PerCluster,     \* records in a cluster
    PerSector,      \* records in a sector, which is what a commit writes
    PerBlock,       \* records in a block of the cache
    MaxRecords,     \* MAX_DIR_RECORDS
    MaxClusters,    \* MAX_SCAN_CLUSTERS
    Nothing,        \* what a zeroed record holds
    NewName,        \* what a record created by the driver holds
    Absent,         \* the cache has no copy of a record
    Volumes,        \* [format, dir, chained, fat]: a directory's clusters and the FAT
    Marks,          \* the kinds of record a directory starts with
    Others,         \* the kinds that the slots outside it may have, all one of them
    Faults,         \* bound: records and FAT entries that may refuse to be read
    DriverActs,     \* phases in which the volume is in use by a driver too
    MaxChanges      \* bound: what the driver does and what the tool commits

Cluster == 2 .. LastCluster
Slot == 0 .. RootSlots + (LastCluster - 1) * PerCluster - 1
Holding == Slot \cup {Nothing, NewName}
Record == [mark : {"free", "deleted", "live"}, stream : BOOLEAN, holds : Holding]

ASSUME SizesAssumption ==
    /\ RootSlots \in Nat /\ LastCluster \in Nat \ {0, 1}
    /\ PerCluster \in Nat \ {0} /\ PerSector \in Nat \ {0} /\ PerBlock \in Nat \ {0}
    /\ MaxRecords \in Nat \ {0} /\ MaxClusters \in Nat \ {0}
    /\ Faults \in Nat /\ MaxChanges \in Nat

ASSUME AbsentAssumption == Absent \notin Record

ASSUME MarksAssumption == Marks \cup Others \subseteq {"live", "deleted", "blank", "residue"}

VARIABLES
    volume,     \* the directory under the cursor and the FAT
    rec,        \* the record in each slot of the device
    cached,     \* CachedSource: its copy of each record, or Absent
    phase,      \* "idle", "popup" (a plan is shown) or "staged"
    plan,       \* the ScrubPlan of the popup, or the one staged
    changes     \* how often the driver or the tool has written so far

vars == <<volume, rec, cached, phase, plan, changes>>

\* The root of FAT12/16 has no clusters.  Another directory has each of its clusters
\* once; when it is chained, the FAT leads from each to the next and ends at the last.
ASSUME VolumesAssumption ==
    \A v \in Volumes :
        LET n == Len(v.dir)
        IN  /\ v.format \in {"fat", "exfat"} /\ v.chained \in BOOLEAN
            /\ v.format = "fat" => v.chained
            /\ v.dir \in Seq(Cluster) /\ (v.dir = <<>> => RootSlots > 0)
            /\ \A i, j \in 1 .. n : v.dir[i] = v.dir[j] => i = j
            /\ v.chained => /\ \A i \in 1 .. n - 1 : v.fat[v.dir[i]] = v.dir[i + 1]
                            /\ n # 0 => v.fat[v.dir[n]] \notin Cluster

Blank == [mark |-> "free", stream |-> FALSE, holds |-> Nothing]

SlotRun(first, n) == [i \in 1 .. n |-> first + i - 1]
FirstSlot(c) == RootSlots + (c - 2) * PerCluster
ClusterOf(s) == (s - RootSlots) \div PerCluster + 2

\* The slot of the i-th record in a row of clusters.
SlotAt(clusters, i) ==
    FirstSlot(clusters[(i - 1) \div PerCluster + 1]) + ((i - 1) % PerCluster)

---------------------------------------------------------------------------
(* The driver: a directory is what its chain, or for an exFAT directory    *)
(* with NoFatChain its contiguous extent, says.                            *)
DirSlots(v) ==
    IF v.dir = <<>> THEN SlotRun(0, RootSlots)
    ELSE [i \in 1 .. Len(v.dir) * PerCluster |-> SlotAt(v.dir, i)]

IsFree(r) == r.mark = "free"
IsLive(r) == r.mark = "live"

Contents(slots, image) == [i \in DOMAIN slots |-> image[slots[i]]]

\* The places before the first free record, and those of them that are in use.
Scanned(records) ==
    {i \in DOMAIN records : \A j \in 1 .. i : ~IsFree(records[j])}
Listed(records) == {i \in Scanned(records) : IsLive(records[i])}

Listing(v, image) ==
    LET records == Contents(DirSlots(v), image) IN Only(records, Listed(records))

---------------------------------------------------------------------------
(* The cache.  A read is served from it where it has a copy, and loads the *)
(* block where it has none: as a step of its own, Load, before the call    *)
(* that reads.  When the LRU gives a block up is left open.                *)
SectorOf(s) == s \div PerSector
BlockOf(s) == s \div PerBlock
Block == {BlockOf(s) : s \in Slot}

\* What a read returns, and where that is not what the device holds.
View == [s \in Slot |-> IF cached[s] = Absent THEN rec[s] ELSE cached[s]]
Stale == {s \in Slot : View[s] # rec[s]}

Load ==
    /\ changes < MaxChanges
    /\ \E b \in Block : cached' = [s \in Slot |-> IF BlockOf(s) = b THEN View[s] ELSE cached[s]]
    /\ UNCHANGED <<volume, rec, phase, plan, changes>>

GiveUp ==
    /\ changes < MaxChanges
    /\ \E b \in Block : cached' = [s \in Slot |-> IF BlockOf(s) = b THEN Absent ELSE cached[s]]
    /\ UNCHANGED <<volume, rec, phase, plan, changes>>

---------------------------------------------------------------------------
(* The tool's reading of a directory.                                      *)

\* Mutant: a directory is taken to be contiguous.
FollowNeighbours(fat, start, lost) == [i \in 1 .. LastCluster + 1 - start |-> start + i - 1]

Onward(fat, chain, lost) ==
    LET last == chain[Len(chain)]
    IN  IF /\ last \notin lost /\ fat[last] \in Cluster
           /\ \A j \in DOMAIN chain : chain[j] # fat[last]
           /\ Len(chain) < MaxClusters
        THEN Append(chain, fat[last]) ELSE chain

\* follow_chain: `lost` are the FAT entries that cannot be read.  Why the walk
\* ended is returned by the code and dropped by its callers.
Follow(fat, start, lost) ==
    LET walk[i \in Nat] == IF i = 0 THEN <<start>> ELSE Onward(fat, walk[i - 1], lost)
    IN  walk[MaxClusters]

Locatable(from) == from < RootSlots \/ ClusterOf(from) \in Cluster

\* dir_runs_from: the records from `from` to the end of the chain its cluster begins.
RunsFrom(fat, from, lost) ==
    IF from < RootSlots
    THEN SlotRun(from, RootSlots - from)
    ELSE LET chain == Follow(fat, ClusterOf(from), lost)
             skipped == from - FirstSlot(ClusterOf(from))
         IN  [i \in 1 .. Len(chain) * PerCluster - skipped |-> SlotAt(chain, i + skipped)]

\* Neighbours on the disk are one run.
BeginsRun(slots, i) == i = 1 \/ slots[i] # slots[i - 1] + 1

\* The record limit ends a run, not the loop over the runs: every later run
\* still gives its first record.
SlotsRead(fat, from, lost) ==
    LET slots == RunsFrom(fat, from, lost)
    IN  Only(slots, {i \in DOMAIN slots : i <= MaxRecords \/ BeginsRun(slots, i)})

\* Mutant: every format takes an emptied record for file data.
PlausibleNamed(r) == r.holds # Nothing /\ (volume.format = "exfat" => ~r.stream)

\* Does a used record pass for one?  The type code of an exFAT record is not zero, but
\* that of a stream extension is; a FAT name never holds control characters, but what
\* is left of a neutrally scrubbed record does.
Plausible(r) == IF volume.format = "exfat" THEN ~r.stream ELSE r.holds # Nothing

LooksLikeDirectory(records) ==
    LET used == {i \in DOMAIN records : ~IsFree(records[i])}
    IN  used # {} /\ \A i \in used : Plausible(records[i])

\* The clusters a directory node stands for.  FAT shows the first cluster and,
\* under the chain, each one by itself; exFAT the whole extent as one node.
Shown(lost) ==
    IF volume.dir = <<>> THEN {0}
    ELSE IF volume.format = "fat" THEN {FirstSlot(volume.dir[i]) : i \in DOMAIN volume.dir}
    ELSE LET extent == IF volume.chained THEN Follow(volume.fat, volume.dir[1], lost)
                       ELSE volume.dir
         IN  IF Len(extent) = 1 THEN {FirstSlot(extent[1])} ELSE {}

---------------------------------------------------------------------------
(* The layouts.                                                            *)
\* Fill::Neutral and Fill::Zero.
Neutral(r) == [r EXCEPT !.holds = Nothing]
Filled(r, fill) == IF fill = "neutral" THEN Neutral(r) ELSE Blank

LastLive(records) ==
    LET live == {i \in DOMAIN records : IsLive(records[i])}
    IN  IF live = {} THEN 0 ELSE CHOOSE i \in live : \A j \in live : j <= i

\* Mutant: a blank is taken for harmless wherever it is.
SweepToBlanks(records) ==
    [i \in DOMAIN records |-> IF IsLive(records[i]) THEN records[i] ELSE Blank]

Sweep(records) ==
    [i \in DOMAIN records |->
        IF i > LastLive(records) THEN Blank
        ELSE CASE IsLive(records[i]) -> records[i]
               [] records[i].mark = "deleted" -> Neutral(records[i])
               [] OTHER -> Blank]

\* Mutant: what the survivors vacate is left as it was.
CompactWithoutTail(records) ==
    LET kept == Only(records, {i \in DOMAIN records : IsLive(records[i])})
    IN  [i \in DOMAIN records |-> IF i <= Len(kept) THEN kept[i] ELSE records[i]]

Compact(records) ==
    LET kept == Only(records, {i \in DOMAIN records : IsLive(records[i])})
    IN  [i \in DOMAIN records |-> IF i <= Len(kept) THEN kept[i] ELSE Blank]

LayoutDirectory(records, mode) == IF mode = "sweep" THEN Sweep(records) ELSE Compact(records)

Changed(slots, old, new) ==
    LET at(s) == CHOOSE i \in DOMAIN slots : slots[i] = s
        changed == {slots[i] : i \in {i \in DOMAIN slots : old[i] # new[i]}}
    IN  [s \in changed |-> [old |-> old[at(s)], new |-> new[at(s)]]]

\* Does the walk end where the directory does?  The scrub follows the FAT for a
\* contiguous directory, too, whatever the FAT says there.
NoStaleLink ==
    volume.dir # <<>> => volume.fat[volume.dir[Len(volume.dir)]] \notin Cluster

\* Were all links of the directory read, and is it within the limits?  The code drops
\* why a chain ended.
Complete(lost) ==
    /\ NoStaleLink
    /\ \A i \in 1 .. Len(volume.dir) - 1 : volume.chained /\ volume.dir[i] \notin lost
    /\ Len(volume.dir) <= MaxClusters /\ Len(DirSlots(volume)) <= MaxRecords

\* Does a read of the directory return what the device holds?
Fresh == Stale \cap ToSet(DirSlots(volume)) = {}

\* A plan and, for the properties, how it came about: the writes before it,
\* whether the directory was read in whole and fresh, whether what Stage compares was.
NoPlan == [mode |-> "none", from |-> 0, edits |-> <<>>, set |-> {}, warned |-> FALSE,
           made |-> 0, complete |-> TRUE, fresh |-> TRUE, checked |-> FALSE]

\* plan_directory for the node that starts at `from`.
DirectoryPlan(from, mode, refused, lost) ==
    LET slots == SlotsRead(volume.fat, from, lost)
        records == Contents(slots, View)
        edits == Changed(slots, records, LayoutDirectory(records, mode))
    IN  IF /\ \A i \in DOMAIN slots : slots[i] \notin refused
           /\ LooksLikeDirectory(records)
           /\ DOMAIN edits # {}
        THEN [mode |-> mode, from |-> from, edits |-> edits, set |-> {}, warned |-> FALSE,
              made |-> changes, complete |-> Complete(lost), fresh |-> Fresh, checked |-> FALSE]
        ELSE NoPlan

\* Mutant: the scan begins one record too late.
InUseAfterNext(after, refused, lost) ==
    IF ~Locatable(after) THEN TRUE
    ELSE LET slots == Tail(RunsFrom(volume.fat, after, lost))
         IN  \/ \E i \in DOMAIN slots : slots[i] \in refused
             \/ Listed(Contents(slots, View)) # {}

\* in_use_after: a live record before the next free one, or no answer.
InUseAfter(after, refused, lost) ==
    IF ~Locatable(after) THEN TRUE
    ELSE LET slots == RunsFrom(volume.fat, after, lost)
         IN  \/ \E i \in DOMAIN slots : slots[i] \in refused
             \/ Listed(Contents(slots, View)) # {}

After(set) == (CHOOSE s \in set : \A t \in set : t <= s) + 1

\* plan_record for the records of one deleted file.
RecordPlan(set, fill, refused, lost) ==
    LET edits == [s \in {s \in set : Filled(View[s], fill) # View[s]} |->
                      [old |-> View[s], new |-> Filled(View[s], fill)]]
    IN  IF /\ \A s \in set : s \notin refused /\ View[s].mark = "deleted"
           /\ DOMAIN edits # {}
        THEN [mode |-> fill, from |-> 0, edits |-> edits, set |-> set,
              warned |-> InUseAfter(After(set), refused, lost), made |-> changes,
              complete |-> Complete(lost), fresh |-> Fresh, checked |-> FALSE]
        ELSE NoPlan

---------------------------------------------------------------------------
Few(S, n) == {T \in SUBSET S : Cardinality(T) <= n}

\* One or two records in a row make up a file.
FileSets ==
    LET slots == DirSlots(volume)
        n == Len(slots)
    IN  {{slots[i]} : i \in 1 .. n} \cup {{slots[i], slots[i + 1]} : i \in 1 .. n - 1}

Offered(p) == p # NoPlan /\ plan' = p /\ phase' = "popup"

(* `S`, and c, s, n, z in the popup.  A mode that has no plan changes      *)
(* nothing.  What is in the cache is not refused.                          *)
Scrub ==
    /\ phase \in {"idle", "popup"} /\ changes < MaxChanges
    /\ \E refused \in Few({s \in Slot : cached[s] = Absent}, Faults) :
       \E lost \in Few(Cluster, Faults - Cardinality(refused)) :
         \/ \E from \in Shown(lost), mode \in {"sweep", "compact"} :
               Offered(DirectoryPlan(from, mode, refused, lost))
         \/ \E set \in FileSets, fill \in {"neutral", "zero"} :
               Offered(RecordPlan(set, fill, refused, lost))
    /\ UNCHANGED <<volume, rec, cached, changes>>

Forget == phase' = "idle" /\ plan' = NoPlan

\* Mutant: what the records hold now is not compared.
BasisIgnored(p) == TRUE

BasisHolds(p) == \A s \in DOMAIN p.edits : View[s] = p.edits[s].old

(* Enter: staged, unless a record the plan changes reads otherwise by now, *)
(* or cannot be read.                                                      *)
Stage ==
    /\ phase = "popup"
    /\ \/ /\ BasisHolds(plan)
          /\ phase' = "staged"
          /\ plan' = [plan EXCEPT !.checked = (Stale \cap DOMAIN plan.edits = {})]
       \/ /\ \/ ~BasisHolds(plan)
             \/ Faults > 0 /\ \E s \in DOMAIN plan.edits : cached[s] = Absent
          /\ Forget
    /\ UNCHANGED <<volume, rec, cached, changes>>

Cancel ==   \* Esc, or :revert once staged
    /\ phase # "idle"
    /\ Forget
    /\ UNCHANGED <<volume, rec, cached, changes>>

\* Overlay::commit: each sector with an edit is read back, patched and written.
Touched(edits) == {s \in Slot : \E t \in DOMAIN edits : SectorOf(s) = SectorOf(t)}

Written(edits) ==
    [s \in Slot |-> IF s \in DOMAIN edits THEN edits[s].new
                    ELSE IF s \in Touched(edits) THEN View[s] ELSE rec[s]]

Commit ==
    /\ phase = "staged" /\ changes < MaxChanges
    /\ changes' = changes + 1
    /\ rec' = Written(plan.edits)
    /\ Forget
    /\ UNCHANGED <<volume, cached>>

(* A driver has the volume mounted: it marks a listed record deleted, or   *)
(* writes a new one over a deleted or free one it can reach, moving the    *)
(* end of the directory along.                                             *)
DriverDelete ==
    /\ phase \in DriverActs /\ changes + 1 < MaxChanges
    /\ changes' = changes + 1
    /\ LET slots == DirSlots(volume)
       IN  \E i \in Listed(Contents(slots, rec)) :
              rec' = [rec EXCEPT ![slots[i]].mark = "deleted"]
    /\ UNCHANGED <<volume, cached, phase, plan>>

\* Whether a record that is written on the volume may be a stream extension.
Stream == IF volume.format = "exfat" THEN BOOLEAN ELSE {FALSE}

DriverCreate ==
    /\ phase \in DriverActs /\ changes + 1 < MaxChanges
    /\ changes' = changes + 1
    /\ \A s \in Slot : rec[s].holds # NewName
    /\ LET slots == DirSlots(volume)
           first == Cardinality(Scanned(Contents(slots, rec))) + 1     \* the first free one
       IN  \E i \in DOMAIN slots, stream \in Stream :
              /\ i <= first /\ ~IsLive(rec[slots[i]])
              /\ rec' = [s \in Slot |->
                           IF s = slots[i]
                           THEN [mark |-> "live", stream |-> stream, holds |-> NewName]
                           ELSE IF i = first /\ i < Len(slots) /\ s = slots[i + 1]
                           THEN [mark |-> "free", stream |-> FALSE, holds |-> rec[s].holds]
                           ELSE rec[s]]
    /\ UNCHANGED <<volume, cached, phase, plan>>

\* The record of slot s when it is of a kind; only what is in use has a type code.
Initial(kind, stream, s) ==
    IF kind = "blank" THEN Blank
    ELSE IF kind = "residue" THEN [mark |-> "free", stream |-> FALSE, holds |-> s]
    ELSE [mark |-> kind, stream |-> stream, holds |-> s]

\* The directory's slots hold any mixture of records, the others all the same.
Image(kind, stream, slots, others) ==
    [s \in Slot |->
        IF \E i \in DOMAIN slots : slots[i] = s
        THEN LET i == CHOOSE i \in DOMAIN slots : slots[i] = s
             IN  Initial(kind[i], stream[i], s)
        ELSE Initial(others, FALSE, s)]

Init ==
    /\ volume \in Volumes
    /\ \E kind \in [DOMAIN DirSlots(volume) -> Marks],
          stream \in [DOMAIN DirSlots(volume) -> Stream], others \in Others :
           rec = Image(kind, stream, DirSlots(volume), others)
    /\ cached = [s \in Slot |-> Absent]
    /\ phase = "idle" /\ plan = NoPlan /\ changes = 0

Next == Load \/ GiveUp \/ Scrub \/ Stage \/ Cancel \/ Commit \/ DriverDelete \/ DriverCreate

Spec == Init /\ [][Next]_vars

---------------------------------------------------------------------------
(* Properties.                                                             *)

Mode == {"none", "sweep", "compact", "neutral", "zero"}

TypeOK ==
    /\ volume \in Volumes
    /\ rec \in [Slot -> Record] /\ cached \in [Slot -> Record \cup {Absent}]
    /\ phase \in {"idle", "popup", "staged"} /\ changes \in Nat
    /\ (phase = "idle") = (plan.mode = "none") /\ (phase = "idle" => plan = NoPlan)
    /\ DOMAIN plan = DOMAIN NoPlan /\ plan.mode \in Mode /\ plan.from \in Slot /\ plan.set \subseteq Slot
    /\ plan.warned \in BOOLEAN /\ plan.made \in 0 .. changes
    /\ plan.complete \in BOOLEAN /\ plan.fresh \in BOOLEAN /\ plan.checked \in BOOLEAN
    /\ DOMAIN plan.edits \subseteq Slot
    /\ \A s \in DOMAIN plan.edits : plan.edits[s].old \in Record /\ plan.edits[s].new \in Record

Committing == phase = "staged" /\ phase' = "idle" /\ rec' # rec

\* The directory is as it was when the plan was made, and it was read in whole and as it
\* was on the device.  That a part of it passes for all of it, and that the tool plans
\* from what it once read of a directory others have changed since, or it has itself, are
\* disagreements of their own.
Undisturbed == plan.made = changes /\ plan.complete /\ plan.fresh

DirectoryWide == plan.mode \in {"sweep", "compact"}

\* "no driver's scan is affected" (core scrub.rs:250): whatever the mode, every file
\* a driver listed is listed still, in the same order and before anything else,
\* wherever the end of the directory was; a zero that was offered without a warning
\* changes nothing of the listing, unless the records end their cluster and the
\* directory goes on elsewhere.
OnTheDisk(slots, s) == \A i \in 1 .. Len(slots) - 1 : slots[i] + 1 = s => slots[i + 1] = s

ListingKept ==
    [][Committing /\ Undisturbed =>
          /\ plan.mode # "zero" => IsPrefix(Listing(volume, rec), Listing(volume, rec'))
          /\ (plan.mode = "zero" /\ ~plan.warned /\ OnTheDisk(DirSlots(volume), After(plan.set)))
                 => Listing(volume, rec') = Listing(volume, rec)]_vars

\* A scrub of a whole directory leaves no byte of a record that is not in use,
\* and compacting leaves not even the mark.
ResidueGone ==
    [][Committing /\ Undisturbed /\ DirectoryWide /\ plan.from = DirSlots(volume)[1] =>
           \A s \in ToSet(DirSlots(volume)) :
               \/ IsLive(rec'[s]) \/ rec'[s] = Blank
               \/ plan.mode = "sweep" /\ rec'[s].holds = Nothing]_vars

\* No plan reaches outside the directory it was made for, however much of its chain could
\* be read, when the FAT leads nowhere from the last cluster.  It leads nowhere from that
\* of a chain; from that of a contiguous exFAT directory it may, and the scan goes there
\* (exfat/scrub.rs:366), which is a disagreement of its own.
OnlyThisDirectory ==
    NoStaleLink => DOMAIN plan.edits \subseteq ToSet(DirSlots(volume))

Held(image) == {image[s].holds : s \in {s \in Slot : IsLive(image[s])}}

\* Stage compares the records the plan changes, and the commit writes back the others of
\* their sectors, as the cache has them.  Where that is what the device has, no record in
\* use is lost, whatever a driver did since the plan was made or before: a record may
\* move, it may go out of sight, it is never overwritten.  Where it is not, the code
\* overwrites it, which is a disagreement of its own.
Compared == plan.checked /\ Stale \cap Touched(plan.edits) = {}

NoLiveRecordLost == [][Committing /\ Compared => Held(rec) \subseteq Held(rec')]_vars

\* What is shown as deleted can be removed, however often the directory was scrubbed
\* before: the default mode is on offer for it.  looks_like_directory refuses a FAT
\* directory with a record that was emptied but kept its mark, and an exFAT directory with
\* a stream extension, live or deleted, which are disagreements of their own.
Tombstone(r) == volume.format = "fat" /\ ~IsFree(r) /\ r.holds = Nothing
StreamExtension(r) == volume.format = "exfat" /\ ~IsFree(r) /\ r.stream

CompactStaysAvailable ==
    LET slots == DirSlots(volume)
        shown == Contents(slots, View)
    IN  /\ Shown({}) # {} /\ NoStaleLink
        /\ \E i \in DOMAIN slots : shown[i].mark = "deleted"
        /\ ~ \E i \in DOMAIN slots : Tombstone(shown[i]) \/ StreamExtension(shown[i])
        => DirectoryPlan(slots[1], "compact", {}, {}) # NoPlan
===========================================================================
