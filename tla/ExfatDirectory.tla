--------------------------- MODULE ExfatDirectory ---------------------------
(***************************************************************************)
(* Showing an exFAT directory: its runs are read one after the other, then *)
(* the records are taken together to entry sets, deleted ones too.         *)
(* Meanwhile a driver creates and deletes files, record by record in any   *)
(* order, and may stop half way; records are lost and runs fail.           *)
(*                                                                         *)
(* A record says what its type byte says, its InUse bit apart; its body is *)
(* a sequence of one thing, empty when all the bytes are zero.  A checksum *)
(* is what it was computed from.                                           *)
(***************************************************************************)
EXTENDS Integers, SequencesExt

CONSTANTS
    Runs,           \* of the directory: [at, len], addresses and lengths in records
    MaxDirEntries,
    Files,          \* [id, names, first, len, valid, contiguous]: what a driver creates
    LastCluster, ClusterSize, MaxClusterChain,
    Residues,       \* directories to begin with
    MaxChanges      \* bound: files created or deleted, records lost, runs failing

ASSUME ExfatDirectoryAssumption ==
    /\ \A i \in DOMAIN Runs : Runs[i].at \in Nat /\ Runs[i].len \in Nat \ {0}
    /\ {MaxDirEntries, ClusterSize, MaxClusterChain} \subseteq Nat \ {0}
    /\ LastCluster \in Nat /\ MaxChanges \in Nat

VARIABLES
    records,    \* by address
    refused,    \* addresses the device does not read
    job,        \* what the driver still has to write: <<address, record>>
    damaged,    \* somebody wrote who is no driver
    changes,
    calm,       \* nobody wrote since the reader began
    next,       \* the run that is read next; 0 when no directory is open
    flat,       \* the records read so far
    short,      \* a run could not be read
    nodes,      \* what is shown: [what, live, at, found]
    zeroed      \* empty slots past the end of the directory

disk == <<records, refused, job, damaged, changes>>
vars == <<disk, calm, next, flat, short, nodes, zeroed>>

---------------------------------------------------------------------------
(* Records.                                                                *)

Zero == [kind |-> "zero", live |-> FALSE, body |-> <<>>]
IsSecondary(r) == r.kind \in {"stream", "name"}

\* Of a file entry everything but the sum itself is summed.
Summed(r) ==
    IF r.kind = "file" /\ r.body # <<>> THEN [r EXCEPT !.body = <<[count |-> @[1].count]>>] ELSE r

\* Mutant: the bit of the primary only is put back.
RestoredFirst(s) == [i \in DOMAIN s |-> IF i = 1 THEN [s[i] EXCEPT !.live = TRUE] ELSE s[i]]

Restored(s) == [i \in DOMAIN s |-> [s[i] EXCEPT !.live = TRUE]]
SetSum(s) == [i \in DOMAIN s |-> Summed(s[i])]

\* The set that a driver writes for a file.  It says that an allocation is possible.
Stream(f) ==
    [kind |-> "stream", live |-> TRUE,
     body |-> <<[names |-> f.names, hash |-> [i \in 1 .. f.names |-> f.id], first |-> f.first,
                 len |-> f.len, valid |-> f.valid, contiguous |-> f.contiguous]>>]
Name(f) == [kind |-> "name", live |-> TRUE, body |-> <<[id |-> f.id]>>]
EntrySet(f) ==
    LET primary(sum) ==
            [kind |-> "file", live |-> TRUE, body |-> <<[count |-> f.names + 1, sum |-> sum]>>]
        rest == <<Stream(f)>> \o [i \in 1 .. f.names |-> Name(f)]
    IN  <<primary(SetSum(<<primary(<<>>)>> \o rest))>> \o rest
EntrySets == [f \in Files |-> EntrySet(f)]

---------------------------------------------------------------------------
(* Places.                                                                 *)

Size == FoldLeft(LAMBDA n, run : n + run.len, 0, Runs)

Slots == 0 .. Size - 1

\* abs_of: where the records of the directory lie, counted from 0.
Places ==
    LET before(r) == FoldLeft(LAMBDA n, run : n + run.len, 0, SubSeq(Runs, 1, r - 1))
        holds(r, i) == before(r) <= i /\ i < before(r) + Runs[r].len
    IN  [i \in Slots |-> LET r == CHOOSE r \in DOMAIN Runs : holds(r, i)
                        IN  Runs[r].at + i - before(r)]

---------------------------------------------------------------------------
(* Clusters of a contiguous file: cluster_chain without the table.         *)

InHeap(c) == 2 <= c /\ c <= LastCluster
CeilDiv(m, n) == (m + n - 1) \div n

Available(first) == LastCluster + 1 - first

\* What a length comes to; what the limit on a chain cuts off is not told.
Claimed(len) ==
    LET n == CeilDiv(len, ClusterSize)
    IN  IF n > MaxClusterChain THEN MaxClusterChain ELSE IF n = 0 THEN 1 ELSE n
FitsHeap(first, len) == InHeap(first + Claimed(len) - 1)
Contiguous(first, len) ==
    first .. first + (IF FitsHeap(first, len) THEN Claimed(len) ELSE Available(first)) - 1

---------------------------------------------------------------------------
(* What is shown of the records that were read.                            *)

If(condition, what) == IF condition THEN {what} ELSE {}

Secondaries(declared, available) == IF declared < available THEN declared ELSE available

\* Mutant: two are not enough either.
TooFewAtTwo(declared) == declared <= 2

TooFew(declared) == declared < 2

Mixed(s) == \E i \in DOMAIN s : s[i].live # s[1].live

\* What the first stream says; a set without one says nothing.
Of(s, kind) == SelectSeq(Tail(s), LAMBDA r : r.kind = kind)
StreamOf(s) ==
    LET streams == Of(s, "stream")
    IN  IF streams = <<>> \/ streams[1].body = <<>>
        THEN [names |-> 0, hash |-> <<>>, first |-> 0, len |-> 0, valid |-> 0,
              contiguous |-> FALSE]
        ELSE streams[1].body[1]

\* As many names as the stream says, if there are.
NameHash(s) ==
    LET names == Of(s, "name")
    IN  [i \in 1 .. Min({StreamOf(s).names, Len(names)}) |->
            IF names[i].body = <<>> THEN 0 ELSE names[i].body[1].id]

Clusters(s) ==
    LET stream == StreamOf(s)
    IN  IF stream.contiguous /\ InHeap(stream.first) THEN Contiguous(stream.first, stream.len)
        ELSE {}

\* Only a deleted set may lack its bits, and then the sum is over what they were.
ChecksumFindings(s) ==
    LET sum == IF s[1].body = <<>> THEN <<>> ELSE s[1].body[1].sum
        sound == s[1].live /\ ~ Mixed(s)
        again == SetSum(IF sound THEN s ELSE Restored(s))
    IN  If(sound /\ sum # again, "set_checksum") \union If(Mixed(s), "mixed")
        \union If(~ s[1].live, IF sum = again THEN "intact" ELSE "overwritten")

StructureFindings(s, declared, available) ==
    LET stream == StreamOf(s)
        streams == Of(s, "stream")
    IN  If(declared > available, "truncated") \union If(TooFew(declared), "secondary_count")
        \union If(streams = <<>>, "no stream")
        \union If(streams # <<>> /\ Len(Of(s, "name")) # stream.names, "name_length")
        \union If(streams = <<>> \/ NameHash(s) # stream.hash, "name_hash")
        \union If(stream.valid > stream.len, "valid_data_length")
        \union If(stream.valid < stream.len, "never written")
        \union If(stream.first # 0 /\ ~ InHeap(stream.first), "first cluster")
        \union If(Clusters(s) # {} /\ ~ FitsHeap(stream.first, stream.len), "past the heap")

\* entry_set_node for the set that begins at k.
SetNode(k) ==
    LET declared == IF flat[k].body = <<>> THEN 0 ELSE flat[k].body[1].count
        available == Len(flat) - k
        s == SubSeq(flat, k, k + Secondaries(declared, available))
    IN  [what |-> "set", live |-> flat[k].live,
         at |-> [i \in DOMAIN s |-> Places[k + i - 2]], clusters |-> Clusters(s),
         found |-> ChecksumFindings(s) \union StructureFindings(s, declared, available)]

\* single_entry_node, and what takes no part in the walk.
OtherNode(what, k, found) ==
    [what |-> what, live |-> flat[k].live, at |-> <<Places[k - 1]>>,
     clusters |-> {}, found |-> found]
SingleNode(k) ==
    OtherNode("single", k,
              If(~ flat[k].live, "deleted") \union If(flat[k].body = <<>>, "nothing survives")
              \union If(IsSecondary(flat[k]), "on its own"))

Residue(node) == [node EXCEPT !.found = @ \union {"residue"}]

\* Mutant: the primary is not counted.
SecondariesOnly(node) == IF Len(node.at) = 1 THEN 1 ELSE Len(node.at) - 1

Consumed(node) == Len(node.at)

\* The loop of directory_node, from record k on.
Shown ==
    LET n == Len(flat)
        walk[i \in 0 .. n] ==
            IF i = 0 THEN [k |-> 1, ended |-> FALSE, nodes |-> <<>>, zeroed |-> 0]
            ELSE LET w == walk[i - 1]
                     k == w.k
                     node == IF flat[k].kind = "file" THEN SetNode(k) ELSE SingleNode(k)
                 IN  IF k > n THEN w
                     ELSE IF flat[k].kind # "zero"
                     THEN [w EXCEPT !.nodes = Append(@, IF w.ended THEN Residue(node) ELSE node),
                                    !.k = @ + Consumed(node)]
                     ELSE IF ~ w.ended
                     THEN [w EXCEPT !.nodes = Append(@, OtherNode("end", k, {})),
                                    !.k = @ + 1, !.ended = TRUE]
                     ELSE IF flat[k].body = <<>>
                     THEN [w EXCEPT !.k = @ + 1, !.zeroed = @ + 1]
                     ELSE [w EXCEPT !.nodes = Append(@, Residue(OtherNode("zeroed type", k, {}))),
                                    !.k = @ + 1]
    IN  walk[n]

---------------------------------------------------------------------------
(* The others.                                                             *)

Rec(i) == records[Places[i]]
Ends(i) == Rec(i).kind = "zero"

Past(i) == \E j \in 0 .. i - 1 : Ends(j)

\* The set that begins at record i, as a driver takes it.
Listed(i) ==
    /\ Rec(i).kind = "file" /\ Rec(i).live /\ Rec(i).body # <<>>
    /\ ~ Past(i)
    /\ LET n == Rec(i).body[1].count
           s == [j \in 1 .. n + 1 |-> Rec(i + j - 1)]
       IN  /\ i + n \in Slots /\ n >= 2
           /\ \A j \in 1 .. n + 1 : s[j].live
           /\ s[2].kind = "stream" /\ \A j \in 3 .. n + 1 : s[j].kind = "name"
           /\ SetSum(s) = Rec(i).body[1].sum
PlacesOf(i) == [j \in 1 .. Rec(i).body[1].count + 1 |-> Places[i + j - 1]]

Changed == changes < MaxChanges /\ changes' = changes + 1
Unseen == calm' = (next = 0) /\ UNCHANGED <<next, flat, short, nodes, zeroed>>

\* The first slots that are free in a row.  Where the directory ended, it ends afterwards.
Fits(i, n) == i + n - 1 \in Slots /\ \A j \in i .. i + n - 1 : ~ Rec(j).live \/ Past(j)
CreateFile ==
    /\ job = {} /\ Changed /\ Unseen
    /\ \E f \in Files :
           LET s == EntrySets[f]
               fitting == {j \in Slots : Fits(j, Len(s))}
               i == Min(fitting)
               after == i + Len(s)
           IN  /\ fitting # {}
               /\ job' = {<<Places[i + j - 1], s[j]>> : j \in DOMAIN s}
                         \union IF Past(after) /\ after \in Slots
                                THEN {<<Places[after], Zero>>} ELSE {}
    /\ UNCHANGED <<records, refused, damaged>>

\* Deleting takes the InUse bit from every record of a set.
DeleteFile ==
    /\ job = {} /\ Changed /\ Unseen
    /\ \E i \in {j \in Slots : Listed(j)} :
           /\ job' = {<<x, [records[x] EXCEPT !.live = FALSE]>> : x \in ToSet(PlacesOf(i))}
    /\ UNCHANGED <<records, refused, damaged>>

\* A driver that dies is one that writes no more.
WriteRecord ==
    /\ Unseen
    /\ \E w \in job : job' = job \ {w} /\ records' = [records EXCEPT ![w[1]] = w[2]]
    /\ UNCHANGED <<refused, damaged, changes>>

\* A record is lost, its type byte only, or its count.
Lost(r) ==
    {Zero, [r EXCEPT !.kind = "zero", !.live = FALSE], [r EXCEPT !.body = <<>>],
     [r EXCEPT !.live = ~ @]}
    \union IF r.kind = "file" /\ r.body # <<>>
           THEN {[r EXCEPT !.body[1].count = n] : n \in {0, 1, Size}} ELSE {}
    \union IF r.kind = "stream" /\ r.body # <<>>
           THEN {[r EXCEPT !.body[1].len = n * ClusterSize] : n \in {0, LastCluster}} ELSE {}

LoseRecord ==
    /\ job = {} /\ Changed /\ Unseen /\ damaged' = TRUE
    /\ \E x \in DOMAIN records :
           records[x].kind # "zero"
           /\ \E r \in Lost(records[x]) : records' = [records EXCEPT ![x] = r]
    /\ UNCHANGED <<refused, job>>

Refuse ==
    /\ Changed /\ Unseen /\ \E x \in DOMAIN records : refused' = refused \union {x}
    /\ UNCHANGED <<records, job, damaged>>

---------------------------------------------------------------------------
(* The reader.                                                             *)

Init ==
    /\ records \in Residues /\ refused = {} /\ job = {} /\ damaged = FALSE /\ changes = 0
    /\ calm = TRUE /\ next = 0 /\ flat = <<>> /\ short = FALSE /\ nodes = <<>> /\ zeroed = 0

Open == next = 0 /\ next' = 1 /\ UNCHANGED <<disk, calm, flat, short, nodes, zeroed>>

\* read_runs: a run that cannot be read is the last.
Limit == IF Size < MaxDirEntries THEN Size ELSE MaxDirEntries

Want(run) == IF run.len < Limit - Len(flat) THEN run.len ELSE Limit - Len(flat)

Reading == next # 0 /\ next <= Len(Runs) /\ ~ short /\ Len(flat) < Limit /\ nodes = <<>>
ReadRun ==
    LET run == Runs[next]
        want == Want(run)
    IN  /\ Reading
        /\ IF \E x \in refused : run.at <= x /\ x < run.at + want
           THEN short' = TRUE /\ UNCHANGED flat
           ELSE /\ flat' = flat \o [i \in 1 .. want |-> records[run.at + i - 1]]
                /\ UNCHANGED short
        /\ next' = next + 1
        /\ UNCHANGED <<disk, calm, nodes, zeroed>>

Show ==
    /\ next # 0 /\ ~ Reading /\ nodes = <<>> /\ flat # <<>>
    /\ nodes' = Shown.nodes /\ zeroed' = Shown.zeroed
    /\ UNCHANGED <<disk, calm, next, flat, short>>

Close ==
    /\ next # 0 /\ ~ Reading /\ (nodes # <<>> \/ flat = <<>>)
    /\ next' = 0 /\ flat' = <<>> /\ short' = FALSE /\ nodes' = <<>> /\ zeroed' = 0 /\ calm' = TRUE
    /\ UNCHANGED disk

Next ==
    \/ CreateFile \/ DeleteFile \/ WriteRecord \/ LoseRecord \/ Refuse
    \/ Open \/ ReadRun \/ Show \/ Close

Spec == Init /\ [][Next]_vars

---------------------------------------------------------------------------
(* Properties.                                                             *)

\* Every record that was read is shown once, in order and at its place, in a set or by
\* itself; those that are not are the empty ones past the end, and they are counted.
EveryRecordOnce ==
    nodes # <<>> =>
        LET shown == FlattenSeq([i \in DOMAIN nodes |-> nodes[i].at])
            empty(i) == flat[i] = Zero /\ Places[i - 1] \notin ToSet(shown)
            rest == SelectSeq([i \in DOMAIN flat |-> i], LAMBDA i : ~ empty(i))
        IN  /\ shown = [i \in DOMAIN rest |-> Places[rest[i] - 1]]
            /\ Len(rest) = Len(flat) - zeroed

\* That a part of a file was never written is told of sound files too.
Clean(node) == node.what = "set" /\ node.live /\ node.found \subseteq {"never written"}

\* Whoever stops half way, the files that are shown without reserve before the end are
\* those that a driver lists, as far as the directory is read.
WithinLimit(i) == i + Len(PlacesOf(i)) <= Limit
SlotOf(node) == CHOOSE i \in Slots : Places[i] = node.at[1]
FilesAsDriver ==
    calm /\ nodes # <<>> /\ ~ damaged /\ Len(flat) = Limit =>
        {nodes[i].at : i \in {j \in DOMAIN nodes : Clean(nodes[j]) /\ ~ Past(SlotOf(nodes[j]))}}
            = {PlacesOf(i) : i \in {j \in Slots : Listed(j) /\ WithinLimit(j)}}

\* A set whose bits alone were taken is found, as one set and as intact, wherever it lies and
\* whatever was created before and after it.
Deleted(i) ==
    \E f \in Files : \A j \in DOMAIN EntrySets[f] :
        i + j - 1 \in Slots /\ Rec(i + j - 1) = [EntrySets[f][j] EXCEPT !.live = FALSE]
DeletedRecovered ==
    calm /\ nodes # <<>> /\ ~ damaged /\ Len(flat) = Limit =>
        \A i \in {j \in Slots : Deleted(j) /\ WithinLimit(j)} :
            {w[1] : w \in job} \intersect ToSet(PlacesOf(i)) = {} =>
                \E j \in DOMAIN nodes : nodes[j].at = PlacesOf(i) /\ "intact" \in nodes[j].found

==========================================================================
