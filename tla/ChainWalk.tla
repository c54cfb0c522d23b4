----------------------------- MODULE ChainWalk -----------------------------
(***************************************************************************)
(* The three walks along links on the device: the cluster chain of a FAT   *)
(* file, that of an exFAT file (or its contiguous extent, with NoFatChain) *)
(* and the chain of extended boot records.                                 *)
(*                                                                         *)
(* A place is a cluster number or an LBA; `table` holds the link found at  *)
(* each place: a FAT entry, or lba_first of entry 1 of an EBR.  One action *)
(* is one turn of a loop, so that another process may write between two    *)
(* reads.                                                                  *)
(***************************************************************************)
EXTENDS Naturals, Sequences

CONSTANTS
    LastPlace,      \* the last cluster of the volume, the last LBA of the device
    ExtStart,       \* where the extended partition starts
    Limit,          \* MAX_CHAIN_CLUSTERS, MAX_CLUSTER_CHAIN, MAX_LOGICAL_PARTITIONS
    EndMark, BadMark,
    Lost,           \* a link the device refuses to read
    NoLength,       \* the record declares no length
    MaxWrites       \* bound: what another process writes during the walk

Place == 0 .. LastPlace
Number == 0 .. LastPlace + 1    \* the last stands for all beyond the volume
Link == Number \cup {EndMark, BadMark, Lost}
Kind == {"fat", "exfat", "run", "ebr"}

ASSUME SizesAssumption ==
    /\ LastPlace \in Nat /\ ExtStart \in Nat /\ Limit \in Nat \ {0} /\ MaxWrites \in Nat
ASSUME MarksAssumption ==
    /\ EndMark \notin Number /\ BadMark \notin Number /\ Lost \notin Number
    /\ NoLength \notin Nat
    /\ EndMark # BadMark /\ EndMark # Lost /\ BadMark # Lost

VARIABLES
    kind,       \* whose chain it is
    table,
    length,     \* exFAT: the declared length in clusters, or NoLength
    at,         \* the place to visit next
    listed,     \* what was visited: the result, and ChainGuard.seen
    end,        \* "running", or ChainEnd and its like
    mismatch,   \* exFAT: chain and declared length disagree
    writes

vars == <<kind, table, length, at, listed, end, mismatch, writes>>

---------------------------------------------------------------------------
\* cluster_in_range, cluster_in_heap; an EBR has to lie on the device.
InVolume(p) == p \in Place /\ (kind # "ebr" => p >= 2)

\* Mutant: one place too many.
GuardLate(p) ==
    IF Len(listed) > Limit THEN "limit"
    ELSE IF \E i \in DOMAIN listed : listed[i] = p THEN "loop" ELSE "continue"

\* ChainGuard::visit
Guard(p) ==
    IF Len(listed) >= Limit THEN "limit"
    ELSE IF \E i \in DOMAIN listed : listed[i] = p THEN "loop" ELSE "continue"

\* Mutant: a free entry is taken for the end of a chain.
ReasonOfFree(link) ==
    CASE link = BadMark -> "bad" [] link = Lost -> "unreadable" [] OTHER -> "eoc"

\* Why a walk ends at an entry that names no cluster.
ReasonOf(link) ==
    CASE link = EndMark -> "eoc" [] link = BadMark -> "bad"
      [] link = Lost -> "unreadable" [] OTHER -> "free"

\* Mutant: the turn is skipped, the loop goes on.
StopLater(reason) == UNCHANGED <<end, at, listed>>

Stop(reason) == end' = reason /\ UNCHANGED <<at, listed>>

List(p) == listed' = Append(listed, p)

GoTo(p) == at' = p /\ UNCHANGED end

EndAt(reason) == end' = reason /\ UNCHANGED at

\* One turn of follow_chain.
FatTurn ==
    /\ kind = "fat" /\ end = "running"
    /\ \/ ~InVolume(at) /\ Stop("range")
       \/ InVolume(at) /\ Guard(at) # "continue" /\ Stop(Guard(at))
       \/ /\ InVolume(at) /\ Guard(at) = "continue"
          /\ List(at)
          /\ \/ table[at] \in Number \ {0} /\ GoTo(table[at])
             \/ table[at] \notin Number \ {0} /\ EndAt(ReasonOf(table[at]))
    /\ UNCHANGED <<kind, table, length, mismatch, writes>>

Declared(n) == length # NoLength /\ length # n

\* One turn of cluster_chain.  A chain that was entered is compared with the
\* declared length, however it ended.
ExfatTurn ==
    /\ kind = "exfat" /\ end = "running"
    /\ \/ at = 0 /\ Stop("none") /\ UNCHANGED mismatch
       \/ at # 0 /\ ~InVolume(at) /\ Stop("range") /\ UNCHANGED mismatch
       \/ /\ InVolume(at) /\ Guard(at) # "continue" /\ Stop(Guard(at))
          /\ mismatch' = Declared(Len(listed))
       \/ /\ InVolume(at) /\ Guard(at) = "continue"
          /\ List(at)
          /\ \/ /\ table[at] \in Number /\ InVolume(table[at])
                /\ GoTo(table[at]) /\ UNCHANGED mismatch
             \/ /\ ~(table[at] \in Number /\ InVolume(table[at]))
                /\ EndAt(IF table[at] \in Number \ {0} THEN "range" ELSE ReasonOf(table[at]))
                /\ mismatch' = Declared(Len(listed'))
    /\ UNCHANGED <<kind, table, length, writes>>

Smaller(m, n) == IF m <= n THEN m ELSE n

\* Mutant: the end of the heap is not looked at.
ExtentAsDeclared(n) == Smaller(IF n = 0 THEN 1 ELSE n, Limit)

\* The clusters of an extent that declares n, as far as there are that many.
Extent(n) ==
    LET wanted == Smaller(IF n = 0 THEN 1 ELSE n, Limit)
    IN  Smaller(wanted, LastPlace + 1 - at)

\* cluster_chain, when NoFatChain is set.
RunTurn ==
    /\ kind = "run" /\ end = "running"
    /\ LET n == IF length = NoLength THEN 1 ELSE length
       IN  \/ at = 0 /\ Stop("none")
           \/ at # 0 /\ ~InVolume(at) /\ Stop("range")
           \/ /\ InVolume(at)
              /\ listed' = [i \in 1 .. Extent(n) |-> at + i - 1]
              /\ EndAt(IF at + Smaller(n, Limit) > LastPlace + 1 THEN "range" ELSE "eoc")
    /\ UNCHANGED <<kind, table, length, mismatch, writes>>

\* Mutant: the link is added to the record's own place.
NextEbrFromHere(link) == at + link

\* "relative to the start of the extended partition"
NextEbr(link) == ExtStart + link

\* One turn of walk_ebr_chain.  What cannot be read counts as zero.
EbrTurn ==
    /\ kind = "ebr" /\ end = "running"
    /\ \/ Guard(at) # "continue" /\ Stop(Guard(at))
       \/ Guard(at) = "continue" /\ ~InVolume(at) /\ Stop("range")
       \/ /\ Guard(at) = "continue" /\ InVolume(at)
          /\ List(at)
          /\ \/ table[at] \in Number \ {0} /\ GoTo(NextEbr(table[at]))
             \/ table[at] \notin Number \ {0} /\ EndAt("eoc")
    /\ UNCHANGED <<kind, table, length, mismatch, writes>>

\* Where links are that a walk may come to, and what they may be.
Linked == {p \in Place : p >= IF kind = "ebr" THEN ExtStart ELSE 2}
LinkHere == IF kind = "ebr" THEN Link \ {EndMark, BadMark} ELSE Link

\* Another process changes a link, or the device begins to refuse it.
Write ==
    /\ end = "running" /\ writes < MaxWrites
    /\ writes' = writes + 1
    /\ \E p \in Linked, link \in LinkHere : table' = [table EXCEPT ![p] = link]
    /\ UNCHANGED <<kind, length, at, listed, end, mismatch>>

---------------------------------------------------------------------------
Init ==
    /\ kind \in Kind
    /\ \E links \in [Linked -> LinkHere] :
           table = [p \in Place |-> IF p \in Linked THEN links[p] ELSE 0]
    /\ length \in (IF kind \in {"exfat", "run"} THEN Number \cup {NoLength} ELSE {NoLength})
    /\ at \in (IF kind = "ebr" THEN {ExtStart} ELSE Number)
    /\ listed = <<>> /\ end = "running" /\ mismatch = FALSE /\ writes = 0

Turn == FatTurn \/ ExfatTurn \/ RunTurn \/ EbrTurn

Next == Turn \/ Write

Spec == Init /\ [][Next]_vars

\* A walk is one call.
FairSpec == Spec /\ WF_vars(Turn)

---------------------------------------------------------------------------
(* Properties.                                                             *)

Reason == {"running", "none", "range", "limit", "loop", "eoc", "bad", "unreadable", "free"}

TypeOK ==
    /\ kind \in Kind /\ table \in [Place -> Link]
    /\ length \in Number \cup {NoLength}
    /\ at \in Nat /\ listed \in Seq(Nat) /\ end \in Reason
    /\ mismatch \in BOOLEAN /\ (mismatch => kind = "exfat" /\ length # NoLength)
    /\ writes \in Nat

\* "a corrupt disk will happily describe a cycle" (common.rs:82): a walk keeps
\* its promise whatever is on the device and whatever changes during it.
GW == INSTANCE GuardedWalk WITH done <- (end # "running")
ImplementsGuardedWalk == GW!Spec

\* What is listed lies in the volume: its bytes are the volume's.
ListedAreReal == \A i \in DOMAIN listed : InVolume(listed[i])

\* Where a link leads, by the formats' own definitions.
Leads(p, q) ==
    IF kind = "ebr" THEN table[p] \in Number \ {0} /\ q = ExtStart + table[p]
    ELSE table[p] \in Number /\ q = table[p]

Ends(p) == IF kind = "ebr" THEN table[p] = 0 ELSE table[p] = EndMark

\* A chain as somebody lays it out properly.
Encodes(first, chain) ==
    /\ chain # <<>> /\ chain[1] = first
    /\ \A i \in DOMAIN chain : InVolume(chain[i])
    /\ GW!NoRepeats(chain)
    /\ \A i \in 1 .. Len(chain) - 1 : Leads(chain[i], chain[i + 1])
    /\ Ends(chain[Len(chain)])

\* What was listed is a path along the links, and the walk ended for the reason
\* that is reported, if nobody wrote meanwhile.
Following == kind # "run" /\ writes = 0

ListedIsPath ==
    Following => \A i \in 1 .. Len(listed) - 1 : Leads(listed[i], listed[i + 1])

ReasonIsTrue ==
    Following /\ listed # <<>> =>
        LET last == listed[Len(listed)]
        IN  CASE end = "eoc" -> Ends(last) \/ (kind = "ebr" /\ table[last] \notin Number)
              [] end = "bad" -> table[last] = BadMark
              [] end = "unreadable" -> table[last] = Lost
              [] end = "free" -> table[last] = 0
              [] end = "loop" -> \E i \in DOMAIN listed : Leads(last, listed[i])
              [] end = "range" -> ~InVolume(at) \/ (kind = "exfat" /\ ~InVolume(table[last]))
              [] end = "limit" -> Len(listed) = Limit
              [] OTHER -> end = "running"

\* What may be a chain: longer ones have a place twice.
Orders == UNION {[1 .. n -> Place] : n \in 1 .. LastPlace + 1}

\* A chain that somebody laid out properly is listed in whole, in order, and
\* reported as ended, unless it is longer than the limit (follow_chain,
\* cluster_chain, walk_ebr_chain).
WholeChainListed ==
    Following /\ end # "running" /\ listed # <<>> =>
        \A chain \in Orders :
            Encodes(listed[1], chain) /\ Len(chain) <= Limit
                => listed = chain /\ end = "eoc"

\* Every walk ends.
WalkEnds == <>(end # "running")
===========================================================================
