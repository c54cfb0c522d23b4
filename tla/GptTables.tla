----------------------------- MODULE GptTables -----------------------------
(***************************************************************************)
(* Reading a GUID partition table: the header at LBA 1, its entry array,   *)
(* the backup header and its array, the MBR in front; then the entries,    *)
(* when somebody opens them.  Each of these is a read of its own, and a    *)
(* partition tool may be at work on the same disk, or may have died there. *)
(*                                                                         *)
(* Lengths count units of half an entry.  A unit of an array holds the     *)
(* entry it is part of; a checksum of an array is what it sums up, and     *)
(* `genuine` says that a header's own checksum is right.                   *)
(***************************************************************************)
EXTENDS Naturals, Sequences, FiniteSetsExt

CONSTANTS
    DeviceLbas,         \* sectors of the device
    SectorSize,         \* units in a sector
    MinEntrySize, MaxEntrySize, EntryAlign,
    MaxEntries, MaxArray,
    MinHeaderSize,
    MaxOverlapDiags,
    MaxWord,            \* the last number of 64 bits
    Tables,             \* the tables that tools write
    DamagedField,       \* [field |-> values] that damage leaves in a header,
    DamagedEntry, DamagedMbr,   \* in an array, in the MBR
    MaxChanges          \* bound: updates begun and places damaged

LastLba == DeviceLbas - 1

ASSUME GptSizesAssumption ==
    /\ DeviceLbas \in Nat /\ DeviceLbas > 2 /\ SectorSize \in Nat \ {0}
    /\ {MinEntrySize, MaxEntrySize, EntryAlign, MaxEntries, MaxArray} \subseteq Nat \ {0}
    /\ MinHeaderSize \in Nat \ {0} /\ MaxOverlapDiags \in Nat /\ MaxWord \in Nat
    /\ MaxChanges \in Nat
    /\ DeviceLbas * SectorSize <= MaxWord
\* No table is shorter than its headers, and damage makes no checksum right.
ASSUME GptTablesAssumption ==
    /\ \A t \in Tables : t.lbas \in Nat /\ t.lbas > 2 /\ Len(t.slots) \in Nat
    /\ \A field \in DOMAIN DamagedField :
           /\ field \notin {"kind", "genuine"}
           /\ field = "padding" => DamagedField[field] \subseteq BOOLEAN
           /\ field = "num" => DamagedField[field] \subseteq Nat
    /\ \A m \in DamagedMbr : m.kind = "mbr"

(* Entries: type and unique GUID as "zero or not".                         *)
Blank == [type |-> FALSE, guid |-> FALSE, first |-> 0, last |-> 0, name |-> FALSE, tail |-> FALSE]
\* What a wrong stride or another structure decodes to.
Junk == [type |-> TRUE, guid |-> TRUE, first |-> 1, last |-> 0, name |-> TRUE, tail |-> TRUE]

VARIABLES
    sector,     \* what each LBA holds
    todo,       \* what a partition tool still has to write
    target,     \* the table it writes
    changes,
    stage,      \* how far GptReader::root has come
    still,      \* nobody wrote since the probe
    score,      \* what GptProbe::probe gave
    pf, pbytes, blba, bf, bbytes,   \* headers and arrays as they were read
    mbr,        \* the sector in front, as it was read
    entries     \* what opening the primary array showed, or "closed"

vars == <<sector, todo, target, changes, stage, still, score, pf, pbytes, blba, bf, bbytes,
          mbr, entries>>
disk == <<sector, todo, target, changes>>

---------------------------------------------------------------------------
(* What is on the disk.                                                    *)

CeilDiv(m, n) == (m + n - 1) \div n

ArrayUnits(t) == Len(t.slots) * MinEntrySize
ArrayLbas(t) == CeilDiv(ArrayUnits(t), SectorSize)

\* The bytes of a table's array, unit by unit.
Array(t) == [u \in 1 .. ArrayUnits(t) |-> t.slots[1 + (u - 1) \div MinEntrySize]]

\* Tools write headers and entries of the usual sizes, with room for sectors in use between
\* the arrays.
ASSUME ToolsAssumption ==
    /\ MinHeaderSize <= SectorSize
    /\ MinEntrySize <= MaxEntrySize /\ MinEntrySize % EntryAlign = 0
    /\ \A t \in Tables :
           /\ Len(t.slots) \in 1 .. MaxEntries /\ ArrayUnits(t) <= MaxArray /\ t.guid # 0
           /\ 2 + ArrayLbas(t) <= t.lbas - ArrayLbas(t) - 2

\* synth_gpt, header: "A consistent table".
Header(t, my, alt, lba) ==
    [kind |-> "header", present |-> TRUE, revision |-> TRUE, hsize |-> MinHeaderSize,
     genuine |-> TRUE, my |-> my, alt |-> alt, first |-> 2 + ArrayLbas(t),
     last |-> t.lbas - ArrayLbas(t) - 2, guid |-> t.guid, lba |-> lba,
     num |-> Len(t.slots), size |-> MinEntrySize, acrc |-> Array(t), padding |-> FALSE]

PrimaryHeader(t) == Header(t, 1, t.lbas - 1, 2)
BackupHeader(t) == Header(t, t.lbas - 1, 1, t.lbas - 1 - ArrayLbas(t))

Zero == [kind |-> "zero"]
Refused == [kind |-> "refused"]

ArraySector(t, i) ==
    [kind |-> "array",
     cells |-> [u \in 1 .. SectorSize |->
                   IF i * SectorSize + u <= ArrayUnits(t) THEN Array(t)[i * SectorSize + u]
                   ELSE Blank]]

\* An MBR by what protective_mbr_diag looks at.
Mbr(signed, protective, other, start, count) ==
    [kind |-> "mbr", signed |-> signed, protective |-> protective, other |-> other,
     start |-> start, count |-> count]
ProtectiveMbr(t) == Mbr(TRUE, 1, 0, 1, t.lbas - 1)

Pieces == {"mbr", "header", "array", "backup header", "backup array"}

Place(t, piece) ==
    CASE piece = "mbr" -> {0}
      [] piece = "header" -> {1}
      [] piece = "array" -> 2 .. 1 + ArrayLbas(t)
      [] piece = "backup header" -> {t.lbas - 1}
      [] piece = "backup array" -> t.lbas - 1 - ArrayLbas(t) .. t.lbas - 2

Content(t, piece, lba) ==
    CASE piece = "mbr" -> ProtectiveMbr(t)
      [] piece = "header" -> PrimaryHeader(t)
      [] piece = "array" -> ArraySector(t, lba - 2)
      [] piece = "backup header" -> BackupHeader(t)
      [] piece = "backup array" -> ArraySector(t, lba - (t.lbas - 1 - ArrayLbas(t)))

Written(s, t, piece) ==
    [l \in DOMAIN s |-> IF l \in Place(t, piece) THEN Content(t, piece, l) ELSE s[l]]

\* All that a table consists of is there.
Holds(s, t) ==
    \A piece \in Pieces : \A l \in Place(t, piece) : l \in DOMAIN s /\ s[l] = Content(t, piece, l)

---------------------------------------------------------------------------
(* Reading.                                                                *)

\* lba_to_byte; MaxWord + 1 stands for None.
LbaToByte(lba) == IF lba * SectorSize <= MaxWord THEN lba * SectorSize ELSE MaxWord + 1

InDevice(lba) == lba \in DOMAIN sector

\* The facts of a header that could not be read, and of a sector that is none.
NoFacts(kind) ==
    [kind |-> kind, present |-> FALSE, revision |-> FALSE, hsize |-> 0, genuine |-> FALSE,
     my |-> 0, alt |-> 0, first |-> 0, last |-> 0, guid |-> 0, lba |-> 0, num |-> 0,
     size |-> 0, acrc |-> <<>>, padding |-> FALSE]

\* read_header with HeaderFacts::from_node.
ReadHeader(lba) ==
    IF ~InDevice(lba) \/ sector[lba].kind = "refused" THEN NoFacts("unreadable")
    ELSE IF sector[lba].kind = "header" THEN sector[lba] ELSE NoFacts("zero")

HasSignature(lba) == InDevice(lba) /\ sector[lba].kind = "header" /\ sector[lba].present

UnitAt(u) ==
    LET s == sector[u \div SectorSize]
    IN  CASE s.kind = "array" -> s.cells[1 + (u % SectorSize)]
          [] s.kind = "zero" -> Blank
          [] OTHER -> Junk

Readable(u, n) ==
    \A x \in u .. u + n - 1 :
        InDevice(x \div SectorSize) /\ sector[x \div SectorSize].kind # "refused"

\* plan_entries: the array begins on the device.
HasArray(f) == LbaToByte(f.lba) < DeviceLbas * SectorSize

EntryCount(f) == IF f.num <= MaxEntries THEN f.num ELSE MaxEntries

Stride(f) ==
    IF f.size < MinEntrySize THEN MinEntrySize
    ELSE IF f.size > MaxEntrySize THEN MaxEntrySize ELSE f.size

NotRead(state) == [state |-> state, cells |-> <<>>]

\* verify_entries_crc: the array, or why it is not summed up.
ReadArray(f) ==
    LET at == LbaToByte(f.lba)
        len == f.num * f.size
    IN  IF at > MaxWord THEN NotRead("overflow")
        ELSE IF len = 0 THEN NotRead("empty")
        ELSE IF len > MaxArray THEN NotRead("too long")
        ELSE IF at + len > DeviceLbas * SectorSize THEN NotRead("outside")
        ELSE IF ~Readable(at, len) THEN NotRead("unreadable")
        ELSE [state |-> "read", cells |-> [u \in 1 .. len |-> UnitAt(at + u - 1)]]

---------------------------------------------------------------------------
(* What is said about it: findings with their severity.                    *)

Say(cond, level, what) == IF cond THEN {<<level, what>>} ELSE {}

\* The checks of desc.rs, the rest of the block, annotate_header.
HeaderFindings(f, lba, primary) ==
    IF f.kind = "unreadable" THEN {<<"unreadable", "header">>, <<"bad", "header_size">>}
    ELSE Say(~f.present, "bad", "signature")
      \cup Say(~f.revision, "warn", "revision")
      \cup Say(f.hsize < MinHeaderSize \/ f.hsize > SectorSize, "bad", "header_size")
      \cup Say(f.hsize # 0 /\ ~f.genuine, "bad", "header_crc32")
      \cup Say(f.padding, "warn", "block padding")
      \cup (IF ~f.present THEN {}
            ELSE Say(f.my # lba, "bad", "my_lba")
              \cup Say(f.alt = 0, "warn", "alternate_lba")
              \cup Say(f.alt # 0 /\ (f.alt = f.my \/ f.alt > LastLba), "bad", "alternate_lba")
              \cup Say(primary /\ f.alt \notin {0, f.my} /\ f.alt < LastLba,
                       "warn", "alternate_lba")
              \cup Say(f.first > f.last, "bad", "first_usable_lba")
              \cup Say(f.last > LastLba, "bad", "last_usable_lba")
              \cup Say(f.guid = 0, "warn", "disk_guid"))

\* Mutant: the checksum is computed and not compared.
UnsummedFindings(f, bytes) ==
    Say(f.num = 0, "warn", "num_entries")
    \cup Say(~HasArray(f), "bad", "entries_lba")
    \cup Say(bytes.state \notin {"read", "overflow"}, "bad", "entries_crc32")

\* plan_entries, verify_entries_crc, array_node.
ArrayFindings(f, bytes) ==
    LET end == f.lba + CeilDiv(f.num * f.size, SectorSize)
    IN  Say(f.size < MinEntrySize \/ f.size % EntryAlign # 0 \/ f.size > MaxEntrySize,
            "bad", "entry_size")
        \cup Say(f.num = 0, "warn", "num_entries")
        \cup Say(f.num > MaxEntries, "bad", "num_entries")
        \cup Say(~HasArray(f), "bad", "entries_lba")
        \cup Say(/\ bytes.state # "overflow" /\ f.num * f.size > 0
                 /\ f.first <= f.last /\ f.lba <= f.last /\ f.first < end,
                 "warn", "array in usable range")
        \cup Say(bytes.state \in {"empty", "too long"}, "warn", "entries_crc32")
        \cup Say(bytes.state = "outside", "bad", "entries_crc32")
        \cup Say(bytes.state = "unreadable", "unreadable", "entries_crc32")
        \cup Say(bytes.state = "read" /\ bytes.cells # f.acrc, "bad", "entries_crc32")

\* Mutant: the place of the array is not known to differ.
MoreCompared == {"present", "revision", "hsize", "first", "last", "guid", "num", "size", "acrc",
                 "lba"}

\* All fields but MIRRORED_FIELDS.
Compared == {"present", "revision", "hsize", "first", "last", "guid", "num", "size", "acrc"}

\* diff_headers
DiffHeaders(p, b) ==
    IF p.kind = "unreadable" /\ b.kind = "unreadable" THEN {}
    ELSE IF "unreadable" \in {p.kind, b.kind} THEN Compared
    ELSE {x \in Compared : p[x] # b[x]}

MirrorFindings(p, b) ==
    IF ~(p.present /\ b.present) THEN {}
    ELSE Say(b.alt # p.my, "bad", "backup's alternate_lba")
      \cup Say(p.alt # b.my, "bad", "primary's alternate_lba")
      \cup Say(/\ b.num * b.size > 0
               /\ b.lba + CeilDiv(b.num * b.size, SectorSize) # b.my,
               "warn", "backup array does not end at its header")

\* compare_copies
CompareFindings(p, b, pa, ba) ==
    LET diffs == DiffHeaders(p, b)
    IN  {<<"bad", x>> : x \in diffs} \cup MirrorFindings(p, b)
        \cup Say(pa.state = "read" /\ ba.state = "read" /\ pa # ba, "bad", "arrays differ")
        \cup (IF diffs = {} THEN Say(p.present /\ b.present, "info", "headers agree")
              ELSE Say(p.genuine /\ ~b.genuine, "info", "primary was written whole")
                \cup Say(~p.genuine /\ b.genuine, "info", "backup was written whole")
                \cup Say(p.genuine = b.genuine, "warn", "headers disagree"))

PresenceFindings(p, b) ==
    Say(~p.present /\ ~b.present, "bad", "no signature")
    \cup Say(~p.present /\ b.present, "bad", "backup is intact")
    \cup Say(p.present /\ ~b.present, "warn", "only the primary survives")

\* protective_mbr_diag
MbrFindings(m) ==
    IF m.kind = "refused" THEN {<<"unreadable", "LBA 0">>}
    ELSE Say(\/ m.kind # "mbr"
             \/ /\ m.kind = "mbr"
                /\ ~(m.signed /\ m.protective = 1 /\ m.other = 0
                     /\ m.start = 1 /\ m.count \in {LastLba, MaxWord}),
             "warn", "LBA 0")

Report ==
    HeaderFindings(pf, 1, TRUE) \cup ArrayFindings(pf, pbytes)
    \cup HeaderFindings(bf, blba, FALSE) \cup ArrayFindings(bf, bbytes)
    \cup CompareFindings(pf, bf, pbytes, bbytes)
    \cup MbrFindings(mbr) \cup PresenceFindings(pf, bf)

Quiet == \A finding \in Report : finding[1] = "info"

\* GptProbe::probe
Score(f) ==
    IF ~f.present THEN 0
    ELSE 50 + (IF f.revision THEN 8 ELSE 0)
         + (IF f.hsize \in MinHeaderSize .. SectorSize THEN 7 ELSE 0)
         + (IF f.my = 1 THEN 10 ELSE 0)
         + (IF f.alt # 0 /\ f.alt # f.my /\ f.alt <= LastLba THEN 10 ELSE 0)
         + (IF f.size \in MinEntrySize .. MaxEntrySize /\ f.size % EntryAlign = 0 THEN 8 ELSE 0)
         + (IF f.num \in 1 .. MaxEntries THEN 7 ELSE 0)

---------------------------------------------------------------------------
(* Opening the entries: EntryArray::expand.                                *)

\* What decodes at a unit; an entry that cannot be read decodes to zeros.
EntryAt(u) ==
    LET lba == u \div SectorSize
    IN  IF ~Readable(u, MinEntrySize) THEN Blank
        ELSE IF \A x \in u .. u + MinEntrySize - 1 : UnitAt(x) = UnitAt(u) THEN UnitAt(u)
        ELSE Junk

Live(e) == e.type /\ e.first <= e.last

Overlap(d, e) == d.first <= e.last /\ e.first <= d.last

\* Mutant: an entry that has its share ends the turn for its partner, too.
CountFirst(pair, acc) ==
    LET i == Min(pair)
    IN  IF acc.named[i] >= MaxOverlapDiags THEN [acc EXCEPT !.unnamed[i] = @ + 1]
        ELSE [acc EXCEPT !.named = [x \in DOMAIN @ |-> @[x] + IF x \in pair THEN 1 ELSE 0]]

\* One turn of the loop over pairs: each names the other, or counts it.
CountPair(pair, acc) ==
    LET full == {x \in pair : acc.named[x] >= MaxOverlapDiags}
    IN  [named |-> [x \in DOMAIN acc.named |->
                       acc.named[x] + IF x \in pair \ full THEN 1 ELSE 0],
         unnamed |-> [x \in DOMAIN acc.unnamed |->
                       acc.unnamed[x] + IF x \in full THEN 1 ELSE 0]]

\* The body of the loop over pairs, for the entries i and j.
MarkPair(list, i, j, acc) ==
    IF i < j /\ Live(list[i]) /\ Live(list[j]) /\ Overlap(list[i], list[j])
    THEN CountPair({i, j}, acc) ELSE acc

\* The entry i with each that comes after it.
MarkRow(list, i, acc) ==
    LET upTo[j \in 0 .. Len(list)] ==
            IF j = 0 THEN acc ELSE MarkPair(list, i, j, upTo[j - 1])
    IN  upTo[Len(list)]

\* mark_overlaps
Overlaps(list) ==
    LET none == [i \in DOMAIN list |-> 0]
        upTo[i \in 0 .. Len(list)] ==
            IF i = 0 THEN [named |-> none, unnamed |-> none] ELSE MarkRow(list, i, upTo[i - 1])
    IN  upTo[Len(list)]

Leftovers(e) == e.guid \/ e.first # 0 \/ e.last # 0 \/ e.name

\* annotate_entry
EntryFindings(e, f) ==
    IF ~e.type THEN Say(Leftovers(e), "info", "survivors")
    ELSE Say(e.first > e.last, "bad", "no sectors")
      \cup Say(f.first <= f.last /\ (e.first < f.first \/ e.last > f.last),
               "warn", "outside usable range")
      \cup Say(e.last >= DeviceLbas, "bad", "past the device")
      \cup Say(~e.guid, "warn", "no GUID")
      \cup Say(e.tail, "info", "name tail")

Expanded(f) ==
    LET list == [i \in 1 .. EntryCount(f) |-> EntryAt(LbaToByte(f.lba) + (i - 1) * Stride(f))]
        marks == Overlaps(list)
    IN  [i \in DOMAIN list |->
            [entry |-> list[i], findings |-> EntryFindings(list[i], f),
             named |-> marks.named[i], unnamed |-> marks.unnamed[i]]]

---------------------------------------------------------------------------
(* The reader.                                                             *)

Closed == [open |-> FALSE, list |-> <<>>]
Stages == {"closed", "probed", "header", "array", "backup", "backup header", "backup array",
           "open"}

Init ==
    /\ \E t \in Tables :
           sector = [l \in 0 .. LastLba |->
                        IF \E piece \in Pieces : l \in Place(t, piece)
                        THEN Content(t, CHOOSE piece \in Pieces : l \in Place(t, piece), l)
                        ELSE Zero]
    /\ todo = {} /\ target \in {t \in Tables : t.lbas = DeviceLbas}
    /\ changes = 0
    /\ stage = "closed" /\ score = 0 /\ still = TRUE
    /\ pf = NoFacts("zero") /\ bf = NoFacts("zero") /\ blba = 0
    /\ pbytes = NotRead("empty") /\ bbytes = NotRead("empty")
    /\ mbr = Zero /\ entries = Closed

\* GptProbe::probe and open.
Probe ==
    /\ stage = "closed" /\ Score(ReadHeader(1)) > 0
    /\ score' = Score(ReadHeader(1)) /\ still' = TRUE
    /\ stage' = "probed"
    /\ UNCHANGED <<disk, pf, pbytes, blba, bf, bbytes, mbr, entries>>

ReadPrimaryHeader ==
    /\ stage = "probed"
    /\ pf' = ReadHeader(1) /\ stage' = "header"
    /\ UNCHANGED <<disk, still, score, pbytes, blba, bf, bbytes, mbr, entries>>

ReadPrimaryArray ==
    /\ stage = "header"
    /\ pbytes' = ReadArray(pf) /\ stage' = "array"
    /\ UNCHANGED <<disk, still, score, pf, blba, bf, bbytes, mbr, entries>>

\* Mutant: the backup is looked for at the end only.
LocateAtEnd == LastLba

\* locate_backup
BackupLba ==
    IF /\ ~HasSignature(LastLba)
       /\ pf.present /\ pf.alt # 0 /\ pf.alt # pf.my /\ pf.alt <= LastLba
       /\ HasSignature(pf.alt)
    THEN pf.alt ELSE LastLba

LocateBackup ==
    /\ stage = "array"
    /\ blba' = BackupLba /\ stage' = "backup"
    /\ UNCHANGED <<disk, still, score, pf, pbytes, bf, bbytes, mbr, entries>>

ReadBackupHeader ==
    /\ stage = "backup"
    /\ bf' = ReadHeader(blba) /\ stage' = "backup header"
    /\ UNCHANGED <<disk, still, score, pf, pbytes, blba, bbytes, mbr, entries>>

ReadBackupArray ==
    /\ stage = "backup header"
    /\ bbytes' = ReadArray(bf) /\ stage' = "backup array"
    /\ UNCHANGED <<disk, still, score, pf, pbytes, blba, bf, mbr, entries>>

ReadMbr ==
    /\ stage = "backup array"
    /\ mbr' = sector[0] /\ stage' = "open"
    /\ UNCHANGED <<disk, still, score, pf, pbytes, blba, bf, bbytes, entries>>

Expand ==
    /\ stage = "open" /\ ~entries.open /\ HasArray(pf)
    /\ entries' = [open |-> TRUE, list |-> Expanded(pf)]
    /\ UNCHANGED <<disk, still, stage, score, pf, pbytes, blba, bf, bbytes, mbr>>

---------------------------------------------------------------------------
(* Everybody else: a partition tool that writes a table in pieces, in any  *)
(* order, and may die; damage of a single place.                           *)

reader == <<stage, score, pf, pbytes, blba, bf, bbytes, mbr, entries>>

BeginUpdate ==
    /\ changes < MaxChanges /\ todo = {} /\ changes' = changes + 1
    /\ todo' = Pieces
    /\ target' \in {t \in Tables : t.lbas = DeviceLbas}
    /\ UNCHANGED <<reader, still, sector>>

WritePiece ==
    /\ \E piece \in todo :
           sector' = Written(sector, target, piece) /\ todo' = todo \ {piece}
    /\ still' = FALSE
    /\ UNCHANGED <<reader, target, changes>>

ToolDies ==
    /\ todo # {} /\ todo' = {}
    /\ UNCHANGED <<reader, still, sector, target, changes>>

\* What stands behind a header is not in its checksum.
DamagedHeader(h, field, v) ==
    IF field = "padding" THEN [h EXCEPT !.padding = v]
    ELSE [h EXCEPT ![field] = v, !.genuine = FALSE]

Damage ==
    /\ changes < MaxChanges /\ changes' = changes + 1
    /\ still' = FALSE
    /\ \E l \in DOMAIN sector :
          \/ \E s \in {Zero, Refused} : sector' = [sector EXCEPT ![l] = s]
          \/ /\ sector[l].kind = "header"
             /\ \E field \in DOMAIN DamagedField : \E v \in DamagedField[field] :
                    /\ sector[l][field] # v
                    /\ sector' = [sector EXCEPT ![l] = DamagedHeader(@, field, v)]
          \/ /\ sector[l].kind = "array"
             /\ \E u \in DOMAIN sector[l].cells, e \in DamagedEntry :
                    sector' = [sector EXCEPT ![l] = [@ EXCEPT !.cells[u] = e]]
          \/ /\ sector[l].kind = "mbr"
             /\ \E m \in DamagedMbr : sector' = [sector EXCEPT ![l] = m]
    /\ UNCHANGED <<reader, todo, target>>

Reader ==
    \/ Probe \/ ReadPrimaryHeader \/ ReadPrimaryArray
    \/ LocateBackup \/ ReadBackupHeader \/ ReadBackupArray
    \/ ReadMbr \/ Expand

Next == Reader \/ BeginUpdate \/ WritePiece \/ ToolDies \/ Damage

Spec == Init /\ [][Next]_vars

---------------------------------------------------------------------------
(* Properties.                                                             *)

TypeOK ==
    /\ DOMAIN sector = 0 .. LastLba
    /\ todo \subseteq Pieces /\ target \in Tables
    /\ changes \in 0 .. MaxChanges
    /\ stage \in Stages /\ score \in 0 .. 100 /\ still \in BOOLEAN
    /\ blba \in 0 .. LastLba
    /\ pbytes.state = "read" => Len(pbytes.cells) = pf.num * pf.size
    /\ bbytes.state = "read" => Len(bbytes.cells) = bf.num * bf.size
    /\ entries.open => Len(entries.list) = EntryCount(pf)

Whole(t) == t.lbas = DeviceLbas /\ Holds(sector, t)

\* "A diff that reports these four reports four false differences on every
\* healthy disk" (gpt/mod.rs:911): of a table that is whole and stays so nothing
\* is reported, and the probe is sure of it.
HealthyIsQuiet ==
    stage = "open" /\ still /\ (\E t \in Tables : Whole(t)) => Quiet /\ score = 100

\* A report without a finding means that headers, arrays and places are those of
\* one table made for this device: no update that was cut short, none that is
\* under way while the pieces are read, and no damage goes unnoticed.
QuietIsOneTable ==
    stage = "open" /\ Quiet =>
        \E t \in Tables :
            /\ t.lbas = DeviceLbas
            /\ pf = PrimaryHeader(t) /\ bf = BackupHeader(t)
            /\ pbytes.cells = Array(t) /\ bbytes.cells = Array(t)

\* A copy of a table that is whole is offered in whole, whatever became of the
\* other one: the primary, and a backup at the end of the device or where the
\* primary header says it is.
SurvivorShown ==
    stage = "open" /\ still =>
        \A t \in Tables :
            /\ /\ sector[1] = PrimaryHeader(t)
               /\ \A l \in Place(t, "array") :
                      InDevice(l) /\ sector[l] = Content(t, "array", l)
               => pbytes = [state |-> "read", cells |-> Array(t)]
            /\ /\ \A piece \in {"backup header", "backup array"} : \A l \in Place(t, piece) :
                      InDevice(l) /\ sector[l] = Content(t, piece, l)
               /\ t.lbas = DeviceLbas \/ (sector[1] = PrimaryHeader(t) /\ ~HasSignature(LastLba))
               => bbytes = [state |-> "read", cells |-> Array(t)]

\* "Clamping the count and then allocating a string per pair would just move the
\* allocation request" (gpt/mod.rs:848): the partners of an entry that are named
\* are at most as many as the limit, and with those counted they are all.
OverlapsCounted ==
    entries.open =>
        \A i \in DOMAIN entries.list :
            LET x == entries.list[i]
                partners == {j \in DOMAIN entries.list \ {i} :
                                /\ Live(entries.list[j].entry) /\ Live(x.entry)
                                /\ Overlap(entries.list[j].entry, x.entry)}
            IN  /\ x.named + x.unnamed = Cardinality(partners)
                /\ x.named <= MaxOverlapDiags
===========================================================================
