---------------------------- MODULE WritePath ----------------------------
(***************************************************************************)
(* The path of a write: a scrub plan becomes staged edits in the Overlay,  *)
(* a commit journals the originals and rewrites the touched sectors        *)
(* through the FileSink, and everything is read back through the block     *)
(* cache that Session::open puts under the overlay.                        *)
(*                                                                         *)
(* The device is modelled byte by byte.  A ByteEdit {offset, old, new} is  *)
(* a pair of functions from the offsets it covers to bytes.  The program   *)
(* is one thread; what interleaves with it is the kernel writing pages     *)
(* back, another process writing to the device, the death of the process   *)
(* and the loss of power.                                                  *)
(***************************************************************************)
EXTENDS Naturals, Sequences, FiniteSets

CONSTANTS
    DeviceLen,      \* bytes on the device
    SectorSize,     \* granularity of a commit's read-modify-write
    BlockSize,      \* granularity of the cache (BLOCK_SIZE)
    Value,          \* what a byte may hold
    Image,          \* the device before the first session
    Plans,          \* scrub plans: sequences of edits' new bytes, [S -> Value]
    Absent,         \* cache: no copy of this byte
    Unreadable,     \* cache: the device refused this byte's block
    MaxAttempts,    \* bound: commits started per process
    MaxFaults,      \* bound: failed reads, writes, flushes and appends
    MaxForeign,     \* bound: writes by another process
    MaxSessions     \* bound: processes started one after another

Offset == 0 .. DeviceLen - 1

ASSUME ImageAssumption == Image \in [Offset -> Value]
ASSUME SentinelAssumption == Absent \notin Value /\ Unreadable \notin Value
                                /\ Absent # Unreadable
ASSUME BoundAssumption ==
    /\ MaxAttempts \in Nat /\ MaxFaults \in Nat /\ MaxForeign \in Nat /\ MaxSessions \in Nat

SectorOf(o) == o \div SectorSize
BlockOf(o) == o \div BlockSize
BytesOf(s) == {o \in Offset : SectorOf(o) = s}
BlocksOf(S) == {BlockOf(o) : o \in S}
Block == BlocksOf(Offset)

Patch == UNION {[S -> Value] : S \in SUBSET Offset}
Edit == [old : Patch, new : Patch]

ASSUME PlansAssumption == \A p \in Plans : p \in Seq(Patch)

VARIABLES
    disk,       \* what a read of the device returns
    stable,     \* what would survive a loss of power
    cached,     \* CachedSource: the copy of each byte, or Absent or Unreadable
    bytes,      \* Overlay.bytes
    staged,     \* Overlay.staged
    before,     \* stage_all's snapshot of bytes and staged
    plan,       \* the edits of the open scrub popup, or those left to stage,
                \* by their place in the plan
    popup,      \* App.popup: "none", "scrub" or "commit"
    permitted,  \* WriteState.permitted: --rw was given
    sink,       \* WriteState.sink is Some
    journal,    \* every record ever appended, oldest first
    file,       \* number of the journal file of the latest commit
    pc,         \* where the program is: "idle", "staging", "journal", "write", "flush"
    appended,   \* records of this commit appended so far
    todo,       \* sectors this commit has left to rewrite
    foreign,    \* history: bytes another process has written
    base,       \* history: the device when the latest commit began
    spent       \* what has been used of each bound

deviceVars == <<disk, stable>>
overlayVars == <<bytes, staged, before>>
gateVars == <<popup, permitted, sink>>
commitVars == <<journal, file, appended, todo, base>>
vars == <<deviceVars, cached, overlayVars, plan, gateVars, commitVars, pc, foreign, spent>>

Spend(what) == spent' = [spent EXCEPT ![what] = @ + 1]
CanFail == spent.faults < MaxFaults

---------------------------------------------------------------------------
(* Reading through the cache.  A read asks for blocks in ascending order,  *)
(* loads those it has no copy of, and stops at the first that is           *)
(* unreadable.  Which blocks the LRU gives up is left open (BlockCache).   *)

Missing(B) == {b \in B : \E o \in Offset : BlockOf(o) = b /\ cached[o] = Absent}

Refuses(b, bad) == b \in bad \/ \E o \in Offset : BlockOf(o) = b /\ cached[o] = Unreadable

Reached(B, bad) == {b \in B : \A c \in B : c < b => ~Refuses(c, bad)}

Loaded(B, bad) ==
    [o \in Offset |->
        IF cached[o] = Absent /\ BlockOf(o) \in Reached(B, bad)
        THEN IF BlockOf(o) \in bad THEN Unreadable ELSE disk[o]
        ELSE cached[o]]

Without(seen, gone) == [o \in Offset |-> IF BlockOf(o) \in gone THEN Absent ELSE seen[o]]

ReadFaults(B) == IF CanFail THEN SUBSET Missing(B) ELSE {{}}

\* The read of blocks B that finds `bad` unreadable and makes the LRU drop `gone`.
Read(B, bad, gone) ==
    /\ cached' = Without(Loaded(B, bad), gone)
    /\ spent' = IF bad = {} THEN spent ELSE [spent EXCEPT !.faults = @ + 1]

Readable(S, seen) == \A o \in S : seen[o] \in Value

\* What the parsers see: the overlay on top of the cached device.
View(seen) == [o \in Offset |-> IF o \in DOMAIN bytes THEN bytes[o] ELSE seen[o]]

---------------------------------------------------------------------------
(* The user looks at something: App reads it through session.src.         *)
Browse(B) ==
    /\ pc = "idle"
    /\ \E bad \in ReadFaults(B), gone \in SUBSET (Block \ B) : Read(B, bad, gone)
    /\ UNCHANGED <<deviceVars, overlayVars, plan, gateVars, commitVars, pc, foreign>>

\* The edits of plan p that would change something, based on what is seen.
EditsOf(p, seen) ==
    LET old(i) == [o \in DOMAIN p[i] |-> View(seen)[o]]
    IN  [i \in {i \in DOMAIN p : old(i) # p[i]} |-> [old |-> old(i), new |-> p[i]]]

PlanBytes(p) == UNION {DOMAIN p[i] : i \in DOMAIN p}

(* `S`, or another mode in the open popup: plan from the current view. A  *)
(* plan that cannot read its records, or changes nothing, opens no popup.  *)
Scrub(p) ==
    /\ pc = "idle" /\ popup \in {"none", "scrub"}
    /\ LET B == BlocksOf(PlanBytes(p))
       IN  \E bad \in ReadFaults(B), gone \in SUBSET (Block \ B) :
             LET seen == Loaded(B, bad)
             IN  /\ Read(B, bad, gone)
                 /\ IF Readable(PlanBytes(p), seen) /\ DOMAIN EditsOf(p, seen) # {}
                    THEN popup' = "scrub" /\ plan' = EditsOf(p, seen)
                    ELSE UNCHANGED <<popup, plan>>
    /\ UNCHANGED <<deviceVars, overlayVars, permitted, sink, commitVars, pc, foreign>>

Cancel ==   \* Esc in either popup
    /\ pc = "idle" /\ popup # "none"
    /\ popup' = "none" /\ plan' = <<>>
    /\ UNCHANGED <<deviceVars, cached, overlayVars, permitted, sink, commitVars, pc,
                   foreign, spent>>

(* Enter in the scrub popup: Overlay::stage_all, one `stage` per step.     *)
StageAll ==
    /\ pc = "idle" /\ popup = "scrub"
    /\ popup' = "none" /\ pc' = "staging"
    /\ before' = [bytes |-> bytes, staged |-> staged]
    /\ UNCHANGED <<deviceVars, cached, bytes, staged, plan, permitted, sink, commitVars,
                   foreign, spent>>

Forget(snapshot) == snapshot' = [bytes |-> <<>>, staged |-> <<>>]

InBounds(e) == DOMAIN e.new = DOMAIN e.old /\ DOMAIN e.new \subseteq Offset

BasisHolds(e, seen) == Readable(DOMAIN e.old, seen) /\ \A o \in DOMAIN e.old : seen[o] = e.old[o]

\* Mutant: overlapping edits are let in.
OverlapsNever(e) == FALSE

Overlaps(e) == DOMAIN e.new \cap DOMAIN bytes # {}

\* One edit is accepted; `seen` is the device underneath the overlay.
Accept(e) ==
    /\ bytes' = [o \in DOMAIN bytes \cup DOMAIN e.new |->
                    IF o \in DOMAIN e.new THEN e.new[o] ELSE bytes[o]]
    /\ staged' = Append(staged, e)
    /\ UNCHANGED <<before, pc>>

\* Mutant: stage_all returns the error without the rollback.
RefuseWithoutRollback ==
    plan' = <<>> /\ pc' = "idle" /\ Forget(before) /\ UNCHANGED <<bytes, staged>>

\* One edit is refused: everything stage_all did is rolled back.
Refuse ==
    /\ bytes' = before.bytes
    /\ staged' = before.staged
    /\ plan' = <<>> /\ pc' = "idle"
    /\ Forget(before)

IsNext(i) == i \in DOMAIN plan /\ \A j \in DOMAIN plan : i <= j

Stage ==
    /\ pc = "staging"
    /\ \E i \in DOMAIN plan :
         /\ IsNext(i)
         /\ LET e == plan[i]
                B == BlocksOf(DOMAIN e.old)
            IN  IF ~InBounds(e)
                THEN Refuse /\ UNCHANGED <<cached, spent>>
                ELSE \E bad \in ReadFaults(B), gone \in SUBSET (Block \ B) :
                       /\ Read(B, bad, gone)
                       /\ IF BasisHolds(e, Loaded(B, bad)) /\ ~Overlaps(e)
                          THEN /\ Accept(e)
                               /\ plan' = [j \in DOMAIN plan \ {i} |-> plan[j]]
                          ELSE Refuse
    /\ UNCHANGED <<deviceVars, gateVars, commitVars, foreign>>

StageDone ==
    /\ pc = "staging" /\ DOMAIN plan = {}
    /\ pc' = "idle" /\ Forget(before)
    /\ UNCHANGED <<deviceVars, cached, bytes, staged, plan, gateVars, commitVars, foreign,
                   spent>>

Revert ==   \* :revert
    /\ pc = "idle" /\ popup = "none"
    /\ bytes' = <<>> /\ staged' = <<>>
    /\ UNCHANGED <<deviceVars, cached, before, plan, gateVars, commitVars, pc, foreign, spent>>

---------------------------------------------------------------------------
(* The gates: --rw permits :arm, :arm opens the write handle, and the      *)
(* commit popup asks for the device's name.                                *)
\* Mutant: :arm does not ask for --rw.
ArmUnpermitted ==
    /\ pc = "idle" /\ popup = "none"
    /\ ~sink
    /\ sink' = TRUE
    /\ UNCHANGED <<deviceVars, cached, overlayVars, plan, popup, permitted, commitVars, pc,
                   foreign, spent>>

Arm ==
    /\ pc = "idle" /\ popup = "none"
    /\ permitted /\ ~sink
    /\ sink' = TRUE
    /\ UNCHANGED <<deviceVars, cached, overlayVars, plan, popup, permitted, commitVars, pc,
                   foreign, spent>>

Disarm ==
    /\ pc = "idle" /\ popup = "none"
    /\ sink' = FALSE
    /\ UNCHANGED <<deviceVars, cached, overlayVars, plan, popup, permitted, commitVars, pc,
                   foreign, spent>>

AskCommit ==    \* :commit
    /\ pc = "idle" /\ popup = "none"
    /\ sink /\ bytes # <<>>
    /\ popup' = "commit"
    /\ UNCHANGED <<deviceVars, cached, overlayVars, plan, permitted, sink, commitVars, pc,
                   foreign, spent>>

(* The exact device name and Enter: Session::commit opens a journal file.  *)
Confirm ==
    /\ pc = "idle" /\ popup = "commit"
    /\ sink /\ staged # <<>>
    /\ popup' = "none"
    /\ \/ /\ spent.attempts < MaxAttempts
          /\ file' = file + 1 /\ appended' = 0 /\ base' = disk
          /\ pc' = "journal"
          /\ Spend("attempts")
       \/ /\ CanFail        \* the journal cannot be created
          /\ Spend("faults")
          /\ UNCHANGED <<file, appended, base, pc>>
    /\ UNCHANGED <<deviceVars, cached, overlayVars, plan, permitted, sink, journal, todo,
                   foreign>>

\* The commit gives up: the edits stay staged, what was written stays written.
Fail == pc' = "idle" /\ todo' = {} /\ Spend("faults")

RecordOf(e) == [file |-> file, edit |-> e]

\* Journal::append, flushed to stable storage before it returns.
AppendRecord ==
    /\ pc = "journal" /\ appended < Len(staged)
    /\ LET record == RecordOf(staged[appended + 1])
       IN  \/ /\ journal' = Append(journal, record)
              /\ appended' = appended + 1
              /\ UNCHANGED <<pc, todo, spent>>
           \/ /\ CanFail    \* the write or the fsync fails; the line may be there
              /\ journal' \in {journal, Append(journal, record)}
              /\ Fail
              /\ UNCHANGED appended
    /\ UNCHANGED <<deviceVars, cached, overlayVars, plan, gateVars, file, base, foreign>>

\* Mutant: the last record is not waited for.
StartWritingEarly ==
    /\ pc = "journal" /\ appended + 1 >= Len(staged)
    /\ todo' = {SectorOf(o) : o \in DOMAIN bytes}
    /\ pc' = "write"
    /\ UNCHANGED <<deviceVars, cached, overlayVars, plan, gateVars, journal, file, appended,
                   base, foreign, spent>>

\* Overlay::commit begins: the sectors its bytes fall in.
StartWriting ==
    /\ pc = "journal" /\ appended = Len(staged)
    /\ todo' = {SectorOf(o) : o \in DOMAIN bytes}
    /\ pc' = "write"
    /\ UNCHANGED <<deviceVars, cached, overlayVars, plan, gateVars, journal, file, appended,
                   base, foreign, spent>>

\* Mutant: the rest of the sector is not read back.
PatchedZeros(s, seen) ==
    [o \in BytesOf(s) |-> IF o \in DOMAIN bytes THEN bytes[o] ELSE 0]

\* The image of sector s that goes to the sink: the cache's copy, patched.
Patched(s, seen) ==
    [o \in BytesOf(s) |-> IF o \in DOMAIN bytes THEN bytes[o] ELSE seen[o]]

\* How far write_at got before it failed.
Prefixes(s) == {{o \in BytesOf(s) : o < k} : k \in BytesOf(s)}

Put(S, image) == disk' = [o \in Offset |-> IF o \in S THEN image[o] ELSE disk[o]]

\* Mutant: the sector written stays on the list.
RewriteSectorForever(s, seen) ==
    /\ Readable(BytesOf(s), seen)
    /\ Put(BytesOf(s), Patched(s, seen))
    /\ UNCHANGED <<pc, todo, spent>>

\* The sector is read back, patched and written: whole, in part, or not at all
\* because its other bytes are unknown.
RewriteSector(s, seen) ==
    \/ /\ Readable(BytesOf(s), seen)
       /\ Put(BytesOf(s), Patched(s, seen))
       /\ todo' = todo \ {s}
       /\ UNCHANGED <<pc, spent>>
    \/ /\ Readable(BytesOf(s), seen) /\ CanFail
       /\ \E S \in Prefixes(s) : Put(S, Patched(s, seen))
       /\ Fail

SectorUnreadable(s, seen, bad) ==
    /\ ~Readable(BytesOf(s), seen)
    /\ pc' = "idle" /\ todo' = {}
    /\ spent' = IF bad = {} THEN spent ELSE [spent EXCEPT !.faults = @ + 1]
    /\ UNCHANGED disk

WriteSector ==
    /\ pc = "write"
    /\ \E s \in todo :
         /\ \A t \in todo : s <= t
         /\ LET B == BlocksOf(BytesOf(s))
            IN  \E bad \in ReadFaults(B), gone \in SUBSET (Block \ B) :
                  LET seen == Loaded(B, bad)
                  IN  /\ cached' = Without(seen, gone)
                      /\ RewriteSector(s, seen) \/ SectorUnreadable(s, seen, bad)
    /\ UNCHANGED <<stable, overlayVars, plan, gateVars, journal, file, appended, base, foreign>>

\* Mutant: the commit ends without sync_all.
FlushUnsynced ==
    /\ pc = "write" /\ todo = {}
    /\ bytes' = <<>> /\ staged' = <<>>
    /\ pc' = "idle"
    /\ UNCHANGED <<todo, spent, stable>>
    /\ UNCHANGED <<disk, cached, before, plan, gateVars, journal, file, appended, base, foreign>>

\* sync_all; then the session drops the overlay, its edits being on the device.
Flush ==
    /\ pc = "write" /\ todo = {}
    /\ \/ /\ stable' = disk
          /\ bytes' = <<>> /\ staged' = <<>>
          /\ pc' = "idle"
          /\ UNCHANGED <<todo, spent>>
       \/ /\ CanFail
          /\ Fail
          /\ UNCHANGED <<stable, bytes, staged>>
    /\ UNCHANGED <<disk, cached, before, plan, gateVars, journal, file, appended, base, foreign>>

---------------------------------------------------------------------------
(* The environment.                                                        *)
Writeback(s) ==     \* the kernel writes a dirty sector back when it likes
    /\ stable' = [o \in Offset |-> IF SectorOf(o) = s THEN disk[o] ELSE stable[o]]
    /\ UNCHANGED <<disk, cached, overlayVars, plan, gateVars, commitVars, pc, foreign, spent>>

ForeignWrite(o, v) ==   \* another process has the device open
    /\ spent.foreign < MaxForeign
    /\ Spend("foreign")
    /\ disk' = [disk EXCEPT ![o] = v]
    /\ foreign' = foreign \cup {o}
    /\ UNCHANGED <<stable, cached, overlayVars, plan, gateVars, commitVars, pc>>

NewProcess ==
    /\ spent.sessions < MaxSessions
    /\ spent' = [spent EXCEPT !.sessions = @ + 1, !.attempts = 0]
    /\ cached' = [o \in Offset |-> Absent]
    /\ bytes' = <<>> /\ staged' = <<>> /\ Forget(before)
    /\ plan' = <<>> /\ popup' = "none"
    /\ permitted' \in BOOLEAN /\ sink' = FALSE
    /\ pc' = "idle" /\ appended' = 0 /\ todo' = {}
    /\ UNCHANGED <<journal, file, base, foreign>>

\* The process ends, by a key or by a signal, and Session::open starts anew.
Restart == NewProcess /\ UNCHANGED deviceVars

\* Power fails: what the kernel had not written back is gone.
PowerLoss == NewProcess /\ disk' = stable /\ UNCHANGED stable

---------------------------------------------------------------------------
Init ==
    /\ disk = Image /\ stable = Image
    /\ cached = [o \in Offset |-> Absent]
    /\ bytes = <<>> /\ staged = <<>>
    /\ before = [bytes |-> <<>>, staged |-> <<>>]
    /\ plan = <<>> /\ popup = "none"
    /\ permitted \in BOOLEAN /\ sink = FALSE
    /\ journal = <<>> /\ file = 0 /\ appended = 0
    /\ pc = "idle" /\ todo = {}
    /\ foreign = {} /\ base = Image
    /\ spent = [attempts |-> 0, faults |-> 0, foreign |-> 0, sessions |-> 1]

\* What the program does without waiting for a key.
Program == Stage \/ StageDone \/ AppendRecord \/ StartWriting \/ WriteSector \/ Flush

User ==
    \/ \E b \in Block : Browse({b})
    \/ \E p \in Plans : Scrub(p)
    \/ Cancel \/ StageAll \/ Revert \/ Arm \/ Disarm \/ AskCommit \/ Confirm

Environment ==
    \/ \E o \in Offset : Writeback(SectorOf(o))
    \/ \E o \in Offset, v \in Value : ForeignWrite(o, v)
    \/ Restart \/ PowerLoss

Next == Program \/ User \/ Environment

Spec == Init /\ [][Next]_vars

\* Once a key has started it, a call runs to its end: it waits for nobody.
FairSpec == Spec /\ WF_vars(Program)

---------------------------------------------------------------------------
(* Properties.                                                             *)

Record == [file : Nat, edit : Edit]
Cell == Value \cup {Absent, Unreadable}
Spent == [{"attempts", "faults", "foreign", "sessions"} -> Nat]
Overlay == [bytes : Patch, staged : Seq(Edit)]
IsPlan(p) == DOMAIN p \subseteq Nat /\ p \in [DOMAIN p -> Edit]

TypeOK ==
    /\ disk \in [Offset -> Value] /\ stable \in [Offset -> Value]
    /\ cached \in [Offset -> Cell]
    /\ bytes \in Patch /\ staged \in Seq(Edit) /\ before \in Overlay
    /\ IsPlan(plan) /\ popup \in {"none", "scrub", "commit"}
    /\ permitted \in BOOLEAN /\ sink \in BOOLEAN
    /\ journal \in Seq(Record) /\ file \in Nat /\ appended \in Nat
    /\ pc \in {"idle", "staging", "journal", "write"}
    /\ todo \subseteq {SectorOf(o) : o \in Offset}
    /\ foreign \subseteq Offset /\ base \in [Offset -> Value]
    /\ spent \in Spent

\* The overlay's two tables agree: the bytes a commit would write are exactly
\* the new bytes of the staged edits the journal will record, and no two
\* staged edits share a byte (overlay.rs stage, stage_all, revert).
OverlayMatchesStaged ==
    /\ DOMAIN bytes = UNION {DOMAIN staged[i].new : i \in DOMAIN staged}
    /\ \A i \in DOMAIN staged : \A o \in DOMAIN staged[i].new : bytes[o] = staged[i].new[o]
    /\ \A i, j \in DOMAIN staged :
           i # j => DOMAIN staged[i].new \cap DOMAIN staged[j].new = {}

\* Undoing every journal, newest record first, gives back the device as it was
\* before the first session, from any point a crash or a loss of power can
\* leave it in, failed, retried and repeated commits included; only bytes
\* another process wrote are exempt (session.rs commit, journal.rs read_undo).
Log == [i \in DOMAIN journal |-> journal[i].edit]
UL == INSTANCE UndoLog WITH dev <- disk, log <- Log
UndoRestoresImage ==
    \A image \in {disk, stable} : \A o \in Offset \ foreign : UL!Undone(image)[o] = Image[o]

\* The write path implements the undo log.
ImplementsUndoLog == UL!Spec

SameProcess == spent.sessions' = spent.sessions

\* stage_all leaves every edit of the plan staged or none of them.
StageAllIsAtomic ==
    [][pc = "staging" /\ pc' = "idle" /\ SameProcess =>
           DOMAIN plan = {} \/ (staged' = before.staged /\ bytes' = before.bytes)]_vars

\* A commit lets go of a staged edit only when its bytes are on stable storage:
\* a commit that fails half way keeps all of them for a retry.
DroppedOnlyWhenDurable ==
    [][SameProcess /\ pc \in {"journal", "write"} =>
           \A i \in DOMAIN staged :
               \/ i \in DOMAIN staged' /\ staged'[i] = staged[i]
               \/ \A o \in DOMAIN staged[i].new \ foreign' : stable'[o] = staged[i].new[o]]_vars

\* The program changes the device only in a process started with --rw that
\* holds the write handle.
WritesOnlyArmed ==
    [][disk' # disk /\ SameProcess /\ foreign' = foreign /\ spent'.foreign = spent.foreign
           => permitted /\ sink]_vars

\* A sector is rewritten for the sake of its staged bytes only; the others
\* survive, but for those another process wrote since the sector was read
\* (overlay.rs:171).  Holds for the first commit of a process.
SectorBytesSurvive ==
    [][SameProcess =>
           \A o \in Offset \ foreign' : disk'[o] # disk[o] => o \in DOMAIN bytes]_vars

\* Staging and committing return: no call waits for anything but itself.
CallsReturn == pc # "idle" ~> pc = "idle"
==========================================================================
