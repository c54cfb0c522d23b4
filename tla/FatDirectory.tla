---------------------------- MODULE FatDirectory ----------------------------
(***************************************************************************)
(* Showing a FAT directory: its runs are read one after the other, then    *)
(* every short entry takes the fragments of a long name in front of it,    *)
(* deleted or not, and those that nobody takes are shown as orphans.       *)
(* Meanwhile a driver creates and deletes files, record by record in any   *)
(* order, and may stop half way; records are lost and runs fail.           *)
(*                                                                         *)
(* A record is its first byte, what its attributes make of it, and its     *)
(* other bytes, a sequence of one thing that is empty when they are zero.  *)
(* The other ten bytes of a short name are one number, `rest`; a checksum  *)
(* is a byte, as in the code a bijection of the first byte when the rest   *)
(* is given, and not of both.                                              *)
(***************************************************************************)
EXTENDS Integers, SequencesExt

CONSTANTS
    Runs,           \* of the directory: [at, len], addresses and lengths in records
    MaxDirEntries,
    Files,          \* [id, first, rest, names]: what a driver creates
    Bytes,          \* values of a byte
    FirstChar,      \* the least that is tried for a destroyed character
    DeletedMark, LastBit,
    Residues,       \* directories to begin with
    MaxChanges      \* bound: files created or deleted, records lost, runs failing

ASSUME FatDirectoryAssumption ==
    /\ \A i \in DOMAIN Runs : Runs[i].at \in Nat /\ Runs[i].len \in Nat \ {0}
    /\ MaxDirEntries \in Nat \ {0} /\ Bytes \in Nat \ {0} /\ MaxChanges \in Nat
    /\ {FirstChar, DeletedMark, LastBit} \subseteq 1 .. Bytes - 1
    \* A name that begins with the mark is stored with KANJI_E5, below FirstChar.
    /\ \A f \in Files : /\ f.first \in 1 .. Bytes - 1 /\ f.first # DeletedMark
                        /\ f.rest \in Nat /\ f.names \in 0 .. LastBit - 1

VARIABLES
    records,    \* by address
    refused,    \* addresses the device does not read
    job,        \* what the driver still has to write: <<address, record>>
    damaged,    \* somebody wrote who is no driver
    changes,
    calm,       \* nobody wrote since the reader began
    next,       \* the run that is read next; 0 when no directory is open
    flat,       \* the records read so far: [at, rec]
    short,      \* a run could not be read
    nodes,      \* what is shown
    unused      \* blank records past the end of the directory

disk == <<records, refused, job, damaged, changes>>
vars == <<disk, calm, next, flat, short, nodes, unused>>

---------------------------------------------------------------------------
(* Records.                                                                *)

Blank == [first |-> 0, lfn |-> FALSE, body |-> <<>>]

IsFree(r) == r.first = 0
IsDeleted(r) == r.first = DeletedMark
IsBlank(r) == r = Blank

Sum(first, rest) == (first + rest) % Bytes
Rest(r) == IF r.body = <<>> THEN 0 ELSE r.body[1].rest

\* Of a fragment: the checksum and the part of the name it carries.
StoredSum(r) == IF r.body = <<>> THEN 0 ELSE r.body[1].sum
Chunk(r) == IF r.body = <<>> THEN <<>> ELSE r.body[1].chunk
IsLast(r) == (r.first \div LastBit) % 2 = 1

ShortEntry(f) == [first |-> f.first, lfn |-> FALSE, body |-> <<[rest |-> f.rest]>>]
Fragment(f, n) ==
    [first |-> IF n = f.names THEN LastBit + n ELSE n, lfn |-> TRUE,
     body |-> <<[sum |-> Sum(f.first, f.rest), chunk |-> <<f.id, n>>]>>]

\* What a driver writes for a file, and its name.
RecordsOf(f) == Append([i \in 1 .. f.names |-> Fragment(f, f.names + 1 - i)], ShortEntry(f))
LongName(f) == [i \in 1 .. f.names |-> <<f.id, i>>]

Erased(r) == [r EXCEPT !.first = DeletedMark]

---------------------------------------------------------------------------
(* What is shown of the records that were read.                            *)

If(condition, what) == IF condition THEN {what} ELSE {}
At(run) == [j \in DOMAIN run |-> run[j].at]

OtherNode(what, x) ==
    [what |-> what, at |-> <<x.at>>, live |-> FALSE, name |-> <<>>, recovered |-> {},
     found |-> {what}]
Orphan(x) == [OtherNode("orphan", x) EXCEPT !.name = <<Chunk(x.rec)>>]

\* Mutant: the characters of other alphabets are not tried.
RecoverFromAscii(rest, want) == {c \in FirstChar .. Bytes \div 2 - 1 : Sum(c, rest) = want}

\* recover_first_char
RecoverFirstChar(rest, want) == {c \in FirstChar .. Bytes - 1 : Sum(c, rest) = want}

\* Mutant: that the bit for the last is missing is not noticed.
FindingsWithoutLast(run, j, computed, deleted) ==
    LET r == run[j].rec
    IN  If(IsDeleted(r), "fragment deleted")
        \union If(~ IsDeleted(r) /\ j > 1 /\ IsLast(r), "spliced")
        \union If(StoredSum(r) # computed /\ ~ deleted, "foreign fragment")

FragmentFindings(run, j, computed, deleted) ==
    LET r == run[j].rec
    IN  If(IsDeleted(r), "fragment deleted")
        \union If(~ IsDeleted(r) /\ j = 1 /\ ~ IsLast(r), "no last fragment")
        \union If(~ IsDeleted(r) /\ j > 1 /\ IsLast(r), "spliced")
        \union If(StoredSum(r) # computed /\ ~ deleted, "foreign fragment")

\* entry_node: the short entry x with the fragments in front of it.
EntryNode(run, x, past) ==
    LET deleted == IsDeleted(x.rec)
        computed == Sum(x.rec.first, Rest(x.rec))
        belongs == run # <<>> => StoredSum(run[1].rec) = computed
    IN  [what |-> "entry", at |-> Append(At(run), x.at), live |-> ~ deleted,
         name |-> [j \in DOMAIN run |-> Chunk(Reverse(run)[j].rec)],
         recovered |-> IF deleted /\ ~ belongs
                       THEN RecoverFirstChar(Rest(x.rec), StoredSum(run[1].rec)) ELSE {},
         found |-> If(deleted, "deleted") \union If(past /\ ~ deleted, "past the end")
                   \union If(~ deleted /\ ~ belongs, "name of another")
                   \union UNION {FragmentFindings(run, j, computed, deleted) : j \in DOMAIN run}]

\* Mutant: what is pending waits for the next short entry.
StepOver(w, x) ==
    IF IsFree(x.rec)
    THEN [w EXCEPT !.ended = TRUE,
                   !.unused = IF IsBlank(x.rec) /\ w.ended THEN @ + 1 ELSE @,
                   !.nodes = @ \o (IF w.ended THEN <<>> ELSE <<OtherNode("end", x)>>)
                               \o (IF IsBlank(x.rec) THEN <<>>
                                   ELSE <<OtherNode("residue", x)>>)]
    ELSE IF x.rec.lfn THEN [w EXCEPT !.pending = Append(@, x)]
    ELSE [w EXCEPT !.pending = <<>>, !.nodes = Append(@, EntryNode(w.pending, x, w.ended))]

Orphans(pending) == [j \in DOMAIN pending |-> Orphan(pending[j])]

\* build_entries, one record.
Step(w, x) ==
    IF IsFree(x.rec)
    THEN [w EXCEPT !.pending = <<>>, !.ended = TRUE,
                   !.unused = IF IsBlank(x.rec) /\ w.ended THEN @ + 1 ELSE @,
                   !.nodes = @ \o Orphans(w.pending)
                               \o (IF w.ended THEN <<>> ELSE <<OtherNode("end", x)>>)
                               \o (IF IsBlank(x.rec) THEN <<>>
                                   ELSE <<OtherNode("residue", x)>>)]
    ELSE IF x.rec.lfn THEN [w EXCEPT !.pending = Append(@, x)]
    ELSE [w EXCEPT !.pending = <<>>, !.nodes = Append(@, EntryNode(w.pending, x, w.ended))]

Built == FoldLeft(Step, [pending |-> <<>>, ended |-> FALSE, unused |-> 0, nodes |-> <<>>], flat)

---------------------------------------------------------------------------
(* The driver.  A place of the directory is counted from 0 on.             *)

Places ==
    LET run(r) == [i \in 1 .. Runs[r].len |-> Runs[r].at + i - 1]
    IN  FlattenSeq([r \in DOMAIN Runs |-> run(r)])
Slots == DOMAIN Places
Rec(i) == records[Places[i]]
Past(i) == \E j \in 1 .. i - 1 : IsFree(Rec(j))

\* The fragments in front of a short entry that a driver takes for its name: numbered
\* down to one, the first with the bit for the last, all with the checksum of the entry.
Fragments(i) ==
    LET numbered(n) ==
            \A j \in 1 .. n :
                LET r == Rec(i - j)
                IN  /\ r.lfn /\ r.first = (IF j = n THEN LastBit + j ELSE j)
                    /\ StoredSum(r) = Sum(Rec(i).first, Rest(Rec(i)))
    IN  Max({n \in 0 .. i - 1 : numbered(n)})
Listed(i) == ~ Rec(i).lfn /\ ~ IsFree(Rec(i)) /\ ~ IsDeleted(Rec(i)) /\ ~ Past(i)
PlacesOf(i, n) == SubSeq(Places, i - n, i)
NameOf(i) == [j \in 1 .. Fragments(i) |-> Chunk(Rec(i - j))]

Changed == changes < MaxChanges /\ changes' = changes + 1
Unseen == calm' = (next = 0) /\ UNCHANGED <<next, flat, short, nodes, unused>>

\* The first slots that are free in a row.  Where the directory ended, it ends afterwards.
Fits(i, n) ==
    /\ i + n - 1 \in Slots
    /\ \A j \in i .. i + n - 1 : IsFree(Rec(j)) \/ IsDeleted(Rec(j)) \/ Past(j)
CreateFile ==
    /\ job = {} /\ Changed /\ Unseen
    /\ \E f \in {g \in Files : \A i \in Slots : Listed(i) => Rec(i) # ShortEntry(g)} :
           LET s == RecordsOf(f)
               fitting == {i \in Slots : Fits(i, Len(s))}
               i == Min(fitting)
               after == i + Len(s)
           IN  /\ fitting # {}
               /\ job' = {<<Places[i + j - 1], s[j]>> : j \in DOMAIN s}
                         \union IF after \in Slots /\ Past(after)
                                THEN {<<Places[after], Blank>>} ELSE {}
    /\ UNCHANGED <<records, refused, damaged>>

DeleteFile ==
    /\ job = {} /\ Changed /\ Unseen
    /\ \E i \in {j \in Slots : Listed(j)} :
           job' = {<<x, Erased(records[x])>> : x \in ToSet(PlacesOf(i, Fragments(i)))}
    /\ UNCHANGED <<records, refused, damaged>>

WriteRecord ==
    /\ Unseen
    /\ \E w \in job : job' = job \ {w} /\ records' = [records EXCEPT ![w[1]] = w[2]]
    /\ UNCHANGED <<refused, damaged, changes>>

\* A driver that dies forgets what it had to write.
DriverDies ==
    /\ job # {} /\ job' = {} /\ Unseen
    /\ UNCHANGED <<records, refused, damaged, changes>>

\* A record is lost, its first byte, its number or its checksum only, or it was scrubbed.
Lost(r) ==
    {Blank, [r EXCEPT !.first = 0], [Blank EXCEPT !.first = DeletedMark]}
    \union IF r.lfn /\ r.body # <<>>
           THEN {[r EXCEPT !.first = 1], [r EXCEPT !.body[1].sum = (@ + 1) % Bytes]} ELSE {}
LoseRecord ==
    /\ job = {} /\ Changed /\ Unseen /\ damaged' = TRUE
    /\ \E a \in {b \in DOMAIN records : ~ IsFree(records[b])} :
           \E r \in Lost(records[a]) : records' = [records EXCEPT ![a] = r]
    /\ UNCHANGED <<refused, job>>

Refuse ==
    /\ Changed /\ Unseen /\ \E a \in DOMAIN records : refused' = refused \union {a}
    /\ UNCHANGED <<records, job, damaged>>

---------------------------------------------------------------------------
(* The reader.                                                             *)

Init ==
    /\ records \in Residues /\ refused = {} /\ job = {} /\ damaged = FALSE /\ changes = 0
    /\ calm = TRUE /\ next = 0 /\ flat = <<>> /\ short = FALSE /\ nodes = <<>> /\ unused = 0

Open == next = 0 /\ next' = 1 /\ UNCHANGED <<disk, calm, flat, short, nodes, unused>>

\* A run is read in whole, or the directory ends there; then as many of its records are
\* taken as the limit leaves room for.
Least(m, n) == IF m < n THEN m ELSE n
Reading == next \in DOMAIN Runs /\ ~ short /\ Len(flat) < MaxDirEntries /\ nodes = <<>>
ReadRun ==
    /\ Reading
    /\ LET run == Runs[next]
           want == Least(run.len, MaxDirEntries)
           taken == Least(want, MaxDirEntries - Len(flat))
       IN  IF \E a \in refused : run.at <= a /\ a < run.at + want
           THEN short' = TRUE /\ UNCHANGED flat
           ELSE /\ flat' = flat \o [i \in 1 .. taken |->
                                       [at |-> run.at + i - 1, rec |-> records[run.at + i - 1]]]
                /\ UNCHANGED short
    /\ next' = next + 1
    /\ UNCHANGED <<disk, calm, nodes, unused>>

Show ==
    /\ next # 0 /\ ~ Reading /\ nodes = <<>> /\ flat # <<>>
    /\ nodes' = Built.nodes \o Orphans(Built.pending) /\ unused' = Built.unused
    /\ UNCHANGED <<disk, calm, next, flat, short>>

Close ==
    /\ next # 0 /\ ~ Reading /\ (nodes # <<>> \/ flat = <<>>)
    /\ next' = 0 /\ flat' = <<>> /\ short' = FALSE /\ nodes' = <<>> /\ unused' = 0 /\ calm' = TRUE
    /\ UNCHANGED disk

Next ==
    \/ CreateFile \/ DeleteFile \/ WriteRecord \/ DriverDies \/ LoseRecord \/ Refuse
    \/ Open \/ ReadRun \/ Show \/ Close

Spec == Init /\ [][Next]_vars

---------------------------------------------------------------------------
(* Properties.                                                             *)

\* "The three rules that matter, all of them about what not to hide" (fat/mod.rs:1629):
\* whatever is written meanwhile or was lost before, every record that was read and
\* is not blank is shown once, in the order of the directory, and the blank ones past
\* its end are counted.
EveryRecordOnce ==
    nodes # <<>> =>
        LET shown == SelectSeq(nodes, LAMBDA n : n.what # "end")
            rest == SelectSeq(flat, LAMBDA x : ~ IsBlank(x.rec))
            ends == {i \in DOMAIN flat : IsFree(flat[i].rec)}
            blank == {i \in ends : IsBlank(flat[i].rec)}
        IN  /\ FlattenSeq([i \in DOMAIN shown |-> shown[i].at]) = At(rest)
            /\ unused = Cardinality(IF ends = {} THEN {} ELSE blank \ {Min(ends)})

WholeRead == calm /\ nodes # <<>> /\ ~ damaged /\ Len(flat) = Least(Len(Places), MaxDirEntries)
WithinLimit(i) == i <= MaxDirEntries
\* Nothing stands in front of n fragments that passes for one more.
Alone(i, n) == i - n = 1 \/ ~ Rec(i - n - 1).lfn

\* The numbers of the fragments go down to one.  The code shows them and checks none,
\* so that a name of which a part is missing passes when the checksums happen to agree.
Numbered(node) ==
    \A j \in 1 .. Len(node.at) - 1 : records[node.at[j]].first % LastBit = Len(node.at) - j

\* Whoever stops half way and whatever stood there before, a live entry that is shown
\* without reserve, its fragments numbered, is a file that a driver lists, of the same
\* records and with the same long name; and all of those are, unless a fragment of another is in front.
FilesAsDriver ==
    WholeRead =>
        LET clean == {n \in ToSet(nodes) : n.what = "entry" /\ n.live /\ n.found = {} /\ Numbered(n)}
            files == {i \in Slots : Listed(i) /\ WithinLimit(i) /\ Alone(i, Fragments(i))}
        IN  {<<n.at, n.name>> : n \in clean}
                = {<<PlacesOf(i, Fragments(i)), NameOf(i)>> : i \in files}

\* A deleted file whose records are there is shown as one, with its long name and the
\* one character that made its checksum, whatever was created and deleted around it.
Deleted(i, f) ==
    LET s == RecordsOf(f)
    IN  /\ i >= Len(s) /\ Alone(i, f.names)
        /\ \A j \in DOMAIN s : Rec(i - Len(s) + j) = Erased(s[j])
DeletedRecovered ==
    WholeRead =>
        \A i \in {j \in Slots : WithinLimit(j)} : \A f \in Files :
            Deleted(i, f) =>
                \E n \in ToSet(nodes) :
                    /\ n.at = PlacesOf(i, f.names) /\ ~ n.live /\ n.name = LongName(f)
                    /\ n.recovered = If(f.names > 0 /\ f.first >= FirstChar, f.first)
=============================================================================
