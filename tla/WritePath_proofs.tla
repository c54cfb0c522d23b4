------------------------- MODULE WritePath_proofs -------------------------
(***************************************************************************)
(* What holds of the write path on every device, with every plan and any   *)
(* number of commits, faults, foreign writes and processes: the overlay is *)
(* what is staged, the journal leads back to the first image, and a step   *)
(* of a staging or a commit does what it promises or nothing.              *)
(***************************************************************************)
EXTENDS WritePath, WellFoundedInduction, TLAPS

---------------------------------------------------------------------------
(* Helpers: patches, overlays and the cache.                               *)

\* A patch is a function from some offsets to bytes.
LEMMA PatchIs ==
    \A f : f \in Patch <=> (DOMAIN f \subseteq Offset /\ f \in [DOMAIN f -> Value])
<1>1. ASSUME NEW f, f \in Patch
      PROVE  DOMAIN f \subseteq Offset /\ f \in [DOMAIN f -> Value]
  <2>1. PICK S \in SUBSET Offset : f \in [S -> Value]  BY <1>1 DEF Patch
  <2> QED  BY <2>1
<1>2. ASSUME NEW f, DOMAIN f \subseteq Offset, f \in [DOMAIN f -> Value]
      PROVE  f \in Patch
  <2>1. [DOMAIN f -> Value] \in {[S -> Value] : S \in SUBSET Offset}  BY <1>2
  <2> QED  BY <1>2, <2>1 DEF Patch
<1> QED  BY <1>1, <1>2

\* The empty overlay is a patch.
LEMMA EmptyPatch == <<>> \in Patch
<1>1. <<>> \in [{} -> Value] /\ DOMAIN <<>> = {}  OBVIOUS
<1> QED  BY <1>1, PatchIs

\* Reading and evicting keep the cache a map of cells.
LEMMA CacheType ==
    ASSUME cached \in [Offset -> Cell], disk \in [Offset -> Value], NEW B, NEW bad, NEW gone
    PROVE  /\ Loaded(B, bad) \in [Offset -> Cell]
           /\ Without(Loaded(B, bad), gone) \in [Offset -> Cell]
BY DEF Loaded, Without, Cell

\* Counting a use of a bound keeps the counters counters.
LEMMA SpentType ==
    ASSUME spent \in Spent, NEW what \in {"attempts", "faults", "foreign", "sessions"}
    PROVE  [spent EXCEPT ![what] = @ + 1] \in Spent
<1>1. spent[what] + 1 \in Nat  BY DEF Spent
<1> QED  BY <1>1 DEF Spent

---------------------------------------------------------------------------
(* Type correctness.                                                       *)

LEMMA InitType == Init => TypeOK
<1> SUFFICES ASSUME Init PROVE TypeOK  OBVIOUS
<1>1. [bytes |-> <<>>, staged |-> <<>>] \in Overlay  BY EmptyPatch DEF Overlay
<1>2. IsPlan(<<>>)  BY DEF IsPlan
<1>3. spent \in Spent  BY DEF Init, Spent
<1>4. disk \in [Offset -> Value] /\ stable \in [Offset -> Value] /\ base \in [Offset -> Value]
      BY ImageAssumption DEF Init
<1>5. cached \in [Offset -> Cell]  BY DEF Init, Cell
<1>6. staged \in Seq(Edit) /\ journal \in Seq(Record) /\ bytes \in Patch  BY EmptyPatch DEF Init
<1>7. /\ popup \in {"none", "scrub", "commit"} /\ permitted \in BOOLEAN /\ sink \in BOOLEAN
      /\ pc \in {"idle", "staging", "journal", "write"}
      /\ file \in Nat /\ appended \in Nat /\ foreign \subseteq Offset
      /\ todo \subseteq {SectorOf(o) : o \in Offset}
      BY DEF Init
<1>8. before \in Overlay /\ IsPlan(plan)  BY <1>1, <1>2 DEF Init
<1> QED  BY <1>3, <1>4, <1>5, <1>6, <1>7, <1>8 DEF TypeOK

\* A read of the device keeps the cache and the counters typed.
LEMMA ReadType ==
    ASSUME TypeOK, NEW B, NEW bad, NEW gone, Read(B, bad, gone)
    PROVE  cached' \in [Offset -> Cell] /\ spent' \in Spent
<1>1. cached \in [Offset -> Cell] /\ disk \in [Offset -> Value] /\ spent \in Spent
      BY DEF TypeOK
<1>2. cached' \in [Offset -> Cell]  BY <1>1, CacheType DEF Read
<1>3. spent' \in Spent  BY <1>1, SpentType DEF Read
<1> QED  BY <1>2, <1>3

\* What Scrub puts into the popup is a plan of edits.
LEMMA EditsType ==
    ASSUME bytes \in Patch, NEW p \in Plans, NEW seen \in [Offset -> Cell],
           Readable(PlanBytes(p), seen)
    PROVE  IsPlan(EditsOf(p, seen))
<1> DEFINE old(i) == [o \in DOMAIN p[i] |-> View(seen)[o]]
           I == {i \in DOMAIN p : old(i) # p[i]}
<1>1. p \in Seq(Patch)  BY PlansAssumption
<1>2. DOMAIN p \subseteq Nat /\ \A i \in DOMAIN p : p[i] \in Patch  BY <1>1
<1>3. ASSUME NEW i \in DOMAIN p PROVE old(i) \in Patch
  <2>1. DOMAIN p[i] \subseteq Offset /\ DOMAIN p[i] \subseteq PlanBytes(p)
        BY <1>2, PatchIs DEF PlanBytes
  <2>2. \A o \in DOMAIN bytes : bytes[o] \in Value  BY PatchIs
  <2>3. \A o \in DOMAIN p[i] : View(seen)[o] \in Value
        BY <2>1, <2>2 DEF View, Readable
  <2>4. old(i) \in [DOMAIN p[i] -> Value]  BY <2>3
  <2> QED  BY <2>1, <2>4, PatchIs
<1>4. \A i \in I : [old |-> old(i), new |-> p[i]] \in Edit  BY <1>2, <1>3 DEF Edit
<1>5. EditsOf(p, seen) = [i \in I |-> [old |-> old(i), new |-> p[i]]]  BY DEF EditsOf
<1>6. IsPlan([i \in I |-> [old |-> old(i), new |-> p[i]]])  BY <1>2, <1>4 DEF IsPlan
<1> QED  BY <1>5, <1>6

\* A new process starts with everything it keeps in memory in its initial state.
LEMMA NewProcessType ==
    ASSUME TypeOK, NewProcess, disk' \in [Offset -> Value], stable' \in [Offset -> Value]
    PROVE  TypeOK'
<1>1. spent' \in Spent
  <2>1. spent.sessions + 1 \in Nat  BY DEF TypeOK, Spent
  <2> QED  BY <2>1 DEF NewProcess, TypeOK, Spent
<1>2. cached' \in [Offset -> Cell]  BY DEF NewProcess, Cell
<1>3. bytes' \in Patch /\ staged' \in Seq(Edit) /\ before' \in Overlay
      BY EmptyPatch DEF NewProcess, Forget, Overlay
<1>4. IsPlan(plan')  BY DEF NewProcess, IsPlan
<1> QED  BY <1>1, <1>2, <1>3, <1>4 DEF NewProcess, TypeOK

\* Every step of the program, the user and the environment keeps the types.
LEMMA StepType == TypeOK /\ [Next]_vars => TypeOK'
<1> SUFFICES ASSUME TypeOK, [Next]_vars PROVE TypeOK'  OBVIOUS
<1> USE DEF deviceVars, overlayVars, gateVars, commitVars
<1>1. CASE UNCHANGED vars  BY <1>1 DEF vars, TypeOK, IsPlan
<1>2. ASSUME NEW B, Browse(B) PROVE TypeOK'
  <2>1. PICK bad, gone : Read(B, bad, gone)  BY <1>2 DEF Browse
  <2> QED  BY <1>2, <2>1, ReadType DEF Browse, TypeOK, IsPlan
<1>3. ASSUME NEW p \in Plans, Scrub(p) PROVE TypeOK'
  <2> DEFINE B == BlocksOf(PlanBytes(p))
  <2>1. PICK bad, gone :
          /\ Read(B, bad, gone)
          /\ IF Readable(PlanBytes(p), Loaded(B, bad)) /\ DOMAIN EditsOf(p, Loaded(B, bad)) # {}
             THEN popup' = "scrub" /\ plan' = EditsOf(p, Loaded(B, bad))
             ELSE UNCHANGED <<popup, plan>>
        BY <1>3 DEF Scrub
  <2>2. Loaded(B, bad) \in [Offset -> Cell]  BY CacheType DEF TypeOK
  <2>3. IsPlan(plan') /\ popup' \in {"none", "scrub", "commit"}
    <3>1. CASE Readable(PlanBytes(p), Loaded(B, bad)) /\ plan' = EditsOf(p, Loaded(B, bad))
               /\ popup' = "scrub"
          BY <3>1, <2>2, EditsType DEF TypeOK
    <3>2. CASE UNCHANGED <<popup, plan>>  BY <3>2 DEF TypeOK, IsPlan
    <3> QED  BY <2>1, <3>1, <3>2
  <2>4. cached' \in [Offset -> Cell] /\ spent' \in Spent  BY <2>1, ReadType
  <2> QED  BY <1>3, <2>3, <2>4 DEF Scrub, TypeOK
<1>4. CASE Cancel
  <2>1. IsPlan(<<>>)  BY DEF IsPlan
  <2> QED  BY <1>4, <2>1 DEF Cancel, TypeOK, IsPlan
<1>5. CASE StageAll
  <2>1. before' \in Overlay  BY <1>5 DEF StageAll, TypeOK, Overlay
  <2> QED  BY <1>5, <2>1 DEF StageAll, TypeOK, IsPlan
<1>6. CASE Stage
  <2>1. PICK i \in DOMAIN plan :
          LET e == plan[i]
              B == BlocksOf(DOMAIN e.old)
          IN  IF ~InBounds(e)
              THEN Refuse /\ UNCHANGED <<cached, spent>>
              ELSE \E bad \in ReadFaults(B), gone \in SUBSET (Block \ B) :
                     /\ Read(B, bad, gone)
                     /\ IF BasisHolds(e, Loaded(B, bad)) /\ ~Overlaps(e)
                        THEN Accept(e) /\ plan' = [j \in DOMAIN plan \ {i} |-> plan[j]]
                        ELSE Refuse
        BY <1>6 DEF Stage
  <2>2. plan[i] \in Edit  BY DEF TypeOK, IsPlan
  <2>3. cached' \in [Offset -> Cell] /\ spent' \in Spent
    <3>1. CASE UNCHANGED <<cached, spent>>  BY <3>1 DEF TypeOK
    <3>2. ASSUME NEW B, NEW bad, NEW gone, Read(B, bad, gone)
          PROVE  cached' \in [Offset -> Cell] /\ spent' \in Spent
          BY <3>2, ReadType
    <3> QED  BY <2>1, <3>1, <3>2
  <2>4. \/ Refuse
        \/ Accept(plan[i]) /\ plan' = [j \in DOMAIN plan \ {i} |-> plan[j]]
        BY <2>1
  <2>5. /\ bytes' \in Patch /\ staged' \in Seq(Edit) /\ before' \in Overlay
        /\ IsPlan(plan') /\ pc' \in {"idle", "staging", "journal", "write"}
    <3>1. CASE Refuse
      <4>1. before.bytes \in Patch /\ before.staged \in Seq(Edit)  BY DEF TypeOK, Overlay
      <4>2. before' \in Overlay  BY <3>1, EmptyPatch DEF Refuse, Forget, Overlay
      <4> QED  BY <3>1, <4>1, <4>2 DEF Refuse, IsPlan
    <3>2. CASE Accept(plan[i]) /\ plan' = [j \in DOMAIN plan \ {i} |-> plan[j]]
      <4>1. bytes' \in Patch
        <5>1. bytes \in Patch /\ plan[i].new \in Patch  BY <2>2 DEF TypeOK, Edit
        <5> QED  BY <3>2, <5>1, PatchIs DEF Accept
      <4>2. staged' \in Seq(Edit)  BY <2>2, <3>2 DEF Accept, TypeOK
      <4>3. IsPlan(plan')  BY <3>2 DEF TypeOK, IsPlan
      <4> QED  BY <3>2, <4>1, <4>2, <4>3 DEF Accept, TypeOK
    <3> QED  BY <2>4, <3>1, <3>2
  <2> QED  BY <1>6, <2>3, <2>5 DEF Stage, TypeOK
<1>7. CASE StageDone
  <2>1. before' \in Overlay  BY <1>7, EmptyPatch DEF StageDone, Forget, Overlay
  <2> QED  BY <1>7, <2>1 DEF StageDone, TypeOK, IsPlan
<1>8. CASE Revert
  BY <1>8, EmptyPatch DEF Revert, TypeOK, IsPlan
<1>9. CASE Arm
  BY <1>9 DEF Arm, TypeOK, IsPlan
<1>10. CASE Disarm
  BY <1>10 DEF Disarm, TypeOK, IsPlan
<1>11. CASE AskCommit
  BY <1>11 DEF AskCommit, TypeOK, IsPlan
<1>12. CASE Confirm
  <2>1. spent' \in Spent  BY <1>12, SpentType DEF Confirm, Spend, TypeOK
  <2> QED  BY <1>12, <2>1 DEF Confirm, TypeOK, IsPlan
<1>13. CASE AppendRecord
  <2>1. spent' \in Spent  BY <1>13, SpentType DEF AppendRecord, Fail, Spend, TypeOK
  <2>2. staged[appended + 1] \in Edit  BY <1>13 DEF AppendRecord, TypeOK
  <2>3. RecordOf(staged[appended + 1]) \in Record  BY <2>2 DEF RecordOf, Record, TypeOK
  <2>4. journal' \in Seq(Record)
    <3>1. journal \in Seq(Record)  BY DEF TypeOK
    <3>2. Append(journal, RecordOf(staged[appended + 1])) \in Seq(Record)
          BY <2>3, <3>1
    <3> QED  BY <1>13, <3>1, <3>2 DEF AppendRecord
  <2> QED  BY <1>13, <2>1, <2>4 DEF AppendRecord, Fail, TypeOK, IsPlan
<1>14. CASE StartWriting
  <2>1. DOMAIN bytes \subseteq Offset  BY PatchIs DEF TypeOK
  <2> QED  BY <1>14, <2>1 DEF StartWriting, TypeOK, IsPlan
<1>15. CASE WriteSector
  <2>1. PICK s, bad, gone :
          /\ s \in todo
          /\ cached' = Without(Loaded(BlocksOf(BytesOf(s)), bad), gone)
          /\ \/ RewriteSector(s, Loaded(BlocksOf(BytesOf(s)), bad))
             \/ SectorUnreadable(s, Loaded(BlocksOf(BytesOf(s)), bad), bad)
        BY <1>15 DEF WriteSector
  <2> DEFINE seen == Loaded(BlocksOf(BytesOf(s)), bad)
  <2>2. cached' \in [Offset -> Cell]  BY <2>1, CacheType DEF TypeOK
  <2>3. spent' \in Spent
        BY <2>1, SpentType DEF RewriteSector, SectorUnreadable, Fail, Spend, TypeOK
  <2>4. disk' \in [Offset -> Value]
    <3>1. Readable(BytesOf(s), seen) =>
             \A o \in BytesOf(s) : Patched(s, seen)[o] \in Value
          BY PatchIs DEF Patched, Readable, TypeOK
    <3>2. ASSUME NEW S, S \subseteq BytesOf(s), Readable(BytesOf(s), seen),
                 Put(S, Patched(s, seen))
          PROVE  disk' \in [Offset -> Value]
          BY <3>1, <3>2 DEF Put, TypeOK
    <3>3. \A S \in Prefixes(s) : S \subseteq BytesOf(s)  BY DEF Prefixes
    <3>4. CASE UNCHANGED disk  BY <3>4 DEF TypeOK
    <3> QED  BY <2>1, <3>2, <3>3, <3>4 DEF RewriteSector, SectorUnreadable
  <2>5. todo' \subseteq {SectorOf(o) : o \in Offset} /\ pc' \in {"idle", "staging", "journal", "write"}
        BY <2>1 DEF RewriteSector, SectorUnreadable, Fail, TypeOK
  <2> QED  BY <1>15, <2>2, <2>3, <2>4, <2>5 DEF WriteSector, TypeOK, IsPlan
<1>16. CASE Flush
  <2>1. spent' \in Spent  BY <1>16, SpentType DEF Flush, Fail, Spend, TypeOK
  <2>2. stable' \in [Offset -> Value] /\ bytes' \in Patch /\ staged' \in Seq(Edit)
    <3>1. <<>> \in Seq(Edit)  OBVIOUS
    <3>2. \/ stable' = disk /\ bytes' = <<>> /\ staged' = <<>>
          \/ UNCHANGED <<stable, bytes, staged>>
          BY <1>16 DEF Flush
    <3> QED  BY <3>1, <3>2, EmptyPatch DEF TypeOK
  <2>3. todo' \subseteq {SectorOf(o) : o \in Offset} /\ pc' \in {"idle", "staging", "journal", "write"}
    <3>1. todo' = {} /\ pc' = "idle"  BY <1>16 DEF Flush, Fail
    <3> QED  BY <3>1
  <2> QED  BY <1>16, <2>1, <2>2, <2>3 DEF Flush, TypeOK, IsPlan
<1>17. ASSUME NEW s, Writeback(s) PROVE TypeOK'
  BY <1>17 DEF Writeback, TypeOK, IsPlan
<1>18. ASSUME NEW o \in Offset, NEW v \in Value, ForeignWrite(o, v) PROVE TypeOK'
  <2>1. spent' \in Spent  BY <1>18, SpentType DEF ForeignWrite, Spend, TypeOK
  <2>2. disk' \in [Offset -> Value]  BY <1>18 DEF ForeignWrite, TypeOK
  <2>3. foreign' \subseteq Offset  BY <1>18 DEF ForeignWrite, TypeOK
  <2> QED  BY <1>18, <2>1, <2>2, <2>3 DEF ForeignWrite, TypeOK, IsPlan
<1>19. CASE Restart
  BY <1>19, NewProcessType DEF Restart, TypeOK
<1>20. CASE PowerLoss
  BY <1>20, NewProcessType DEF PowerLoss, TypeOK
<1> QED  BY <1>1, <1>2, <1>3, <1>4, <1>5, <1>6, <1>7, <1>8, <1>9, <1>10, <1>11, <1>12,
            <1>13, <1>14, <1>15, <1>16, <1>17, <1>18, <1>19, <1>20
         DEF Next, Program, User, Environment

\* Every variable keeps its type, whatever the plans, the device and the bounds.
THEOREM TypeCorrect == Spec => []TypeOK
BY InitType, StepType, PTL DEF Spec

---------------------------------------------------------------------------
(* The overlay: what is staged is what would be written.                   *)

Matches(ov) ==
    /\ DOMAIN ov.bytes = UNION {DOMAIN ov.staged[i].new : i \in DOMAIN ov.staged}
    /\ \A i \in DOMAIN ov.staged : /\ DOMAIN ov.staged[i].old = DOMAIN ov.staged[i].new
                                   /\ \A o \in DOMAIN ov.staged[i].new :
                                          ov.bytes[o] = ov.staged[i].new[o]
    /\ \A i, j \in DOMAIN ov.staged :
           i # j => DOMAIN ov.staged[i].new \cap DOMAIN ov.staged[j].new = {}

OverlayInv == Matches([bytes |-> bytes, staged |-> staged]) /\ Matches(before)

LEMMA EmptyMatches == Matches([bytes |-> <<>>, staged |-> <<>>])
BY DEF Matches

\* Accepting an edit that overlaps nothing keeps the two tables in agreement.
LEMMA AcceptMatches ==
    ASSUME TypeOK, OverlayInv, NEW e \in Edit, InBounds(e), ~Overlaps(e), Accept(e)
    PROVE  Matches([bytes |-> bytes, staged |-> staged])'
<1> DEFINE n == Len(staged) + 1
<1>1. /\ DOMAIN staged' = DOMAIN staged \cup {n} /\ n \notin DOMAIN staged
      /\ \A i \in DOMAIN staged : staged'[i] = staged[i]
      /\ staged'[n] = e
  <2>1. staged \in Seq(Edit)  BY DEF TypeOK
  <2>2. staged' = Append(staged, e)  BY DEF Accept
  <2> QED  BY <2>1, <2>2
<1>2. DOMAIN bytes' = DOMAIN bytes \cup DOMAIN e.new  BY DEF Accept
<1>3. /\ \A o \in DOMAIN e.new : bytes'[o] = e.new[o]
      /\ \A o \in DOMAIN bytes : bytes'[o] = bytes[o]
      BY DEF Accept, Overlaps
<1>4. \A i \in DOMAIN staged : DOMAIN staged[i].new \subseteq DOMAIN bytes
      BY DEF OverlayInv, Matches
<1>5. DOMAIN bytes' = UNION {DOMAIN staged'[i].new : i \in DOMAIN staged'}
      BY <1>1, <1>2 DEF OverlayInv, Matches
<1>6. ASSUME NEW i \in DOMAIN staged'
      PROVE  /\ DOMAIN staged'[i].old = DOMAIN staged'[i].new
             /\ \A o \in DOMAIN staged'[i].new : bytes'[o] = staged'[i].new[o]
      BY <1>1, <1>3, <1>4 DEF OverlayInv, Matches, InBounds
<1>7. ASSUME NEW i \in DOMAIN staged', NEW j \in DOMAIN staged', i # j
      PROVE  DOMAIN staged'[i].new \cap DOMAIN staged'[j].new = {}
      BY <1>1, <1>4, <1>7 DEF OverlayInv, Matches, Overlaps
<1> QED  BY <1>5, <1>6, <1>7 DEF Matches

LEMMA OverlayInit == Init => OverlayInv
BY EmptyMatches DEF Init, OverlayInv

LEMMA OverlayStep == TypeOK /\ OverlayInv /\ [Next]_vars => OverlayInv'
<1> SUFFICES ASSUME TypeOK, OverlayInv, [Next]_vars PROVE OverlayInv'  OBVIOUS
<1>1. CASE UNCHANGED overlayVars
      BY <1>1 DEF overlayVars, OverlayInv, Matches
<1>2. CASE StageAll
      BY <1>2 DEF StageAll, OverlayInv, Matches
<1>3. CASE Stage
  <2>1. PICK i \in DOMAIN plan :
          \/ Refuse
          \/ Accept(plan[i]) /\ InBounds(plan[i]) /\ ~Overlaps(plan[i])
        BY <1>3 DEF Stage
  <2>2. CASE Refuse
    <3>1. before \in Overlay  BY DEF TypeOK
    <3>2. before = [bytes |-> before.bytes, staged |-> before.staged]  BY <3>1 DEF Overlay
    <3>3. Matches([bytes |-> before.bytes, staged |-> before.staged])
          BY <3>2 DEF OverlayInv
    <3>4. Matches([bytes |-> bytes, staged |-> staged])'
          BY <2>2, <3>3 DEF Refuse, Matches
    <3>5. Matches(before)'  BY <2>2, EmptyMatches DEF Refuse, Forget, Matches
    <3> QED  BY <3>4, <3>5 DEF OverlayInv
  <2>3. CASE Accept(plan[i]) /\ InBounds(plan[i]) /\ ~Overlaps(plan[i])
    <3>1. plan[i] \in Edit  BY DEF TypeOK, IsPlan
    <3>2. Matches([bytes |-> bytes, staged |-> staged])'  BY <2>3, <3>1, AcceptMatches
    <3>3. Matches(before)'  BY <2>3 DEF Accept, OverlayInv, Matches
    <3> QED  BY <3>2, <3>3 DEF OverlayInv
  <2> QED  BY <2>1, <2>2, <2>3
<1>4. CASE StageDone
  <2>1. Matches(before)'  BY <1>4, EmptyMatches DEF StageDone, Forget, Matches
  <2> QED  BY <1>4, <2>1 DEF StageDone, OverlayInv, Matches
<1>5. CASE Revert \/ Flush
  <2>1. UNCHANGED overlayVars \/ (bytes' = <<>> /\ staged' = <<>> /\ UNCHANGED before)
        BY <1>5 DEF Revert, Flush, overlayVars
  <2>2. CASE bytes' = <<>> /\ staged' = <<>> /\ UNCHANGED before
    <3>1. Matches([bytes |-> bytes, staged |-> staged])'  BY <2>2, EmptyMatches DEF Matches
    <3> QED  BY <2>2, <3>1 DEF OverlayInv, Matches
  <2> QED  BY <1>1, <2>1, <2>2
<1>6. CASE NewProcess
  <2>1. bytes' = <<>> /\ staged' = <<>> /\ before' = [bytes |-> <<>>, staged |-> <<>>]
        BY <1>6 DEF NewProcess, Forget
  <2> QED  BY <2>1, EmptyMatches DEF OverlayInv, Matches
<1>7. UNCHANGED overlayVars \/ StageAll \/ Stage \/ StageDone \/ Revert \/ Flush \/ NewProcess
      BY DEF vars, overlayVars, Next, Program, User, Environment, Browse, Scrub, Cancel, Arm,
             Disarm, AskCommit, Confirm, AppendRecord, StartWriting, WriteSector, Writeback,
             ForeignWrite, Restart, PowerLoss
<1> QED  BY <1>1, <1>2, <1>3, <1>4, <1>5, <1>6, <1>7

\* The bytes a commit would write are exactly those of the staged edits.
THEOREM OverlayCorrect == Spec => []OverlayMatchesStaged
<1>1. OverlayInv => OverlayMatchesStaged  BY DEF OverlayInv, Matches, OverlayMatchesStaged
<1> QED  BY <1>1, TypeCorrect, OverlayInit, OverlayStep, PTL DEF Spec

---------------------------------------------------------------------------
(* The journal is enough: undoing it leads back to the first image, from   *)
(* every state a crash can leave, and the write path implements UndoLog.   *)

Journaled(o) == \E i \in DOMAIN journal : o \in DOMAIN journal[i].edit.old

\* Record i is the oldest of byte o.
OldestOf(i, o) == /\ i \in DOMAIN journal
                  /\ o \in DOMAIN journal[i].edit.old
                  /\ \A j \in 1 .. i - 1 : o \notin DOMAIN journal[j].edit.old

\* Once a commit writes, and until it ends, all it writes is in the journal.
CommitInv ==
    /\ pc = "journal" =>
          /\ appended <= Len(staged)
          /\ \A k \in 1 .. appended : \E i \in DOMAIN journal : journal[i].edit = staged[k]
    /\ pc = "write" =>
          \A k \in DOMAIN staged : \E i \in DOMAIN journal : journal[i].edit = staged[k]

OriginalBasis(edits, o) ==
    \A k \in DOMAIN edits : o \in DOMAIN edits[k].old => edits[k].old[o] = Image[o]

\* A byte no journal mentions is as it was at first, on the device, on stable
\* storage, in the cache and in whatever is staged ...
UntouchedInv ==
    \A o \in Offset \ foreign : ~Journaled(o) =>
        /\ disk[o] = Image[o] /\ stable[o] = Image[o]
        /\ cached[o] \in {Image[o], Absent, Unreadable}
        /\ OriginalBasis(staged, o)
        /\ OriginalBasis(before.staged, o)

\* ... and of a byte that is journaled, the oldest record holds that image.
OldestInv ==
    \A o \in Offset \ foreign : \A i \in DOMAIN journal :
        OldestOf(i, o) => journal[i].edit.old[o] = Image[o]

---------------------------------------------------------------------------
(* The log and its oldest records.                                         *)

\* A byte somebody recorded has an oldest record.
LEMMA OldestExists ==
    ASSUME TypeOK, NEW o, Journaled(o)
    PROVE  \E i \in DOMAIN journal : OldestOf(i, o)
<1> DEFINE T == {i \in DOMAIN journal : o \in DOMAIN journal[i].edit.old}
<1>1. DOMAIN journal = 1 .. Len(journal) /\ Len(journal) \in Nat  BY DEF TypeOK
<1>2. T \subseteq Nat /\ T # {}  BY <1>1 DEF Journaled
<1>3. PICK i \in T : \A j \in T : ~ (<<j, i>> \in OpToRel(<, Nat))
      BY <1>2, WFMin, NatLessThanWellFounded
<1>4. \A j \in T : ~(j < i)  BY <1>2, <1>3 DEF OpToRel
<1> QED  BY <1>1, <1>4 DEF OldestOf

\* The undo log reads the journal's edits.
LEMMA LogIs ==
    /\ DOMAIN Log = DOMAIN journal
    /\ \A i \in DOMAIN journal : Log[i] = journal[i].edit
    /\ \A o : UL!Recorded(o) <=> Journaled(o)
BY DEF UL!Recorded, Log, Journaled

LEMMA OldestIs ==
    ASSUME TypeOK, NEW o, Journaled(o)
    PROVE  OldestOf(UL!Oldest(o), o)
<1> DEFINE Is(i) == o \in DOMAIN Log[i].old /\ \A j \in 1 .. i - 1 : o \notin DOMAIN Log[j].old
<1>1. DOMAIN journal = 1 .. Len(journal) /\ Len(journal) \in Nat  BY DEF TypeOK
<1>2. PICK i \in DOMAIN journal : OldestOf(i, o)  BY OldestExists
<1>3. i \in DOMAIN Log /\ Is(i)
  <2>1. \A j \in 1 .. i - 1 : j \in DOMAIN journal  BY <1>1
  <2> QED  BY <1>2, <2>1, LogIs DEF OldestOf
<1>4. UL!Oldest(o) = CHOOSE k \in DOMAIN Log : Is(k)  BY DEF UL!Oldest
<1>5. UL!Oldest(o) \in DOMAIN Log /\ Is(UL!Oldest(o))  BY <1>3, <1>4
<1>6. \A j \in 1 .. UL!Oldest(o) - 1 : j \in DOMAIN journal  BY <1>1, <1>5, LogIs
<1> QED  BY <1>5, <1>6, LogIs DEF OldestOf

---------------------------------------------------------------------------
(* A commit writes only what it has journaled.                             *)

LEMMA CommitInit == Init => CommitInv
BY DEF Init, CommitInv

LEMMA CommitStep == TypeOK /\ CommitInv /\ [Next]_vars => CommitInv'
<1> SUFFICES ASSUME TypeOK, CommitInv, [Next]_vars PROVE CommitInv'  OBVIOUS
<1>1. CASE pc' \notin {"journal", "write"}  BY <1>1 DEF CommitInv
<1>2. CASE UNCHANGED <<pc, staged, journal, appended>>  BY <1>2 DEF CommitInv
<1>3. CASE Confirm /\ pc' = "journal"
  <2>1. appended' = 0 /\ Len(staged') \in Nat  BY <1>3 DEF Confirm, TypeOK
  <2> QED  BY <1>3, <2>1 DEF CommitInv
<1>4. CASE AppendRecord /\ pc' = "journal"
  <2> DEFINE record == RecordOf(staged[appended + 1])
  <2>1. /\ pc = "journal" /\ appended < Len(staged) /\ appended' = appended + 1
        /\ journal' = Append(journal, record) /\ UNCHANGED staged
        BY <1>4 DEF AppendRecord, Fail, overlayVars
  <2>2. /\ \A i \in DOMAIN journal : i \in DOMAIN journal' /\ journal'[i] = journal[i]
        /\ Len(journal) + 1 \in DOMAIN journal' /\ journal'[Len(journal) + 1] = record
        BY <2>1 DEF TypeOK
  <2>3. ASSUME NEW k \in 1 .. appended'
        PROVE  \E i \in DOMAIN journal' : journal'[i].edit = staged'[k]
    <3>1. CASE k = appended + 1  BY <2>1, <2>2, <3>1 DEF RecordOf
    <3>2. CASE k \in 1 .. appended  BY <2>1, <2>2, <3>2 DEF CommitInv
    <3> QED  BY <2>1, <3>1, <3>2 DEF TypeOK
  <2>4. appended' <= Len(staged')  BY <2>1 DEF TypeOK
  <2> QED  BY <1>4, <2>3, <2>4 DEF CommitInv
<1>5. CASE StartWriting
  <2>1. /\ pc = "journal" /\ appended = Len(staged) /\ pc' = "write"
        /\ UNCHANGED <<staged, journal>>
        BY <1>5 DEF StartWriting, overlayVars
  <2>2. DOMAIN staged = 1 .. appended  BY <2>1 DEF TypeOK
  <2> QED  BY <2>1, <2>2 DEF CommitInv
<1>6. CASE WriteSector /\ pc' = pc
      BY <1>2, <1>6 DEF WriteSector, overlayVars
<1>7. \/ pc' \notin {"journal", "write"} \/ UNCHANGED <<pc, staged, journal, appended>>
      \/ (Confirm /\ pc' = "journal") \/ (AppendRecord /\ pc' = "journal") \/ StartWriting
      \/ (WriteSector /\ pc' = pc)
  <2>1. CASE UNCHANGED vars
        BY <2>1 DEF vars, overlayVars, commitVars
  <2>2. CASE Stage \/ StageDone \/ Flush \/ WriteSector
        BY <2>2 DEF Stage, StageDone, Flush, Fail, Refuse, Accept, WriteSector,
                    RewriteSector, SectorUnreadable
  <2>3. CASE AppendRecord \/ Confirm \/ StartWriting
        BY <2>3 DEF AppendRecord, Confirm, Fail, overlayVars
  <2>4. CASE User
        BY <2>3, <2>4 DEF User, Browse, Scrub, Cancel, StageAll, Revert, Arm, Disarm, AskCommit
  <2>5. CASE Environment
        BY <2>5 DEF Environment, Writeback, ForeignWrite, Restart, PowerLoss, NewProcess,
                    overlayVars, commitVars
  <2> QED  BY <2>1, <2>2, <2>3, <2>4, <2>5 DEF Next, Program
<1> QED  BY <1>1, <1>2, <1>3, <1>4, <1>5, <1>6, <1>7

---------------------------------------------------------------------------
(* Bytes nobody journaled stay as they were.                               *)

Clean(o) == o \in Offset \ foreign /\ ~Journaled(o)

\* A read of the device shows a clean byte's first value or nothing.
LEMMA CleanRead ==
    ASSUME TypeOK, UntouchedInv, NEW B, NEW bad, NEW gone, NEW o, Clean(o)
    PROVE  /\ Loaded(B, bad)[o] \in {Image[o], Absent, Unreadable}
           /\ Without(Loaded(B, bad), gone)[o] \in {Image[o], Absent, Unreadable}
BY DEF UntouchedInv, Clean, Loaded, Without

\* The journal and the set of foreign bytes only grow.
LEMMA Growth ==
    ASSUME TypeOK, [Next]_vars
    PROVE  /\ foreign \subseteq foreign'
           /\ \/ journal' = journal
              \/ /\ AppendRecord
                 /\ journal' = Append(journal, RecordOf(staged[appended + 1]))
<1>1. CASE UNCHANGED vars  BY <1>1 DEF vars, commitVars
<1>2. CASE Program
      BY <1>2 DEF Program, Stage, StageDone, AppendRecord, StartWriting, WriteSector, Flush,
                  commitVars
<1>3. CASE User
      BY <1>3 DEF User, Browse, Scrub, Cancel, StageAll, Revert, Arm, Disarm, AskCommit, Confirm,
                  commitVars
<1>4. CASE Environment
      BY <1>4 DEF Environment, Writeback, ForeignWrite, Restart, PowerLoss, NewProcess,
                  commitVars
<1> QED  BY <1>1, <1>2, <1>3, <1>4 DEF Next

LEMMA CleanBefore ==
    ASSUME TypeOK, [Next]_vars, NEW o, Clean(o)'
    PROVE  Clean(o)
<1>1. Offset' = Offset /\ foreign \subseteq foreign'  BY Growth DEF Offset
<1>2. Journaled(o) => Journaled(o)'
  <2>1. CASE journal' = journal  BY <2>1 DEF Journaled
  <2>2. ASSUME NEW r, journal' = Append(journal, r) PROVE Journaled(o) => Journaled(o)'
    <3>1. \A i \in DOMAIN journal : i \in DOMAIN journal' /\ journal'[i] = journal[i]
          BY <2>2 DEF TypeOK
    <3> QED  BY <3>1 DEF Journaled
  <2> QED  BY <2>1, <2>2, Growth
<1> QED  BY <1>1, <1>2 DEF Clean

\* What a commit writes to a clean byte is the byte's first value.
LEMMA CleanWrite ==
    ASSUME TypeOK, OverlayInv, CommitInv, UntouchedInv, WriteSector, NEW o, Clean(o)
    PROVE  disk'[o] = Image[o]
<1>1. PICK s, bad, gone :
          /\ s \in todo
          /\ \/ RewriteSector(s, Loaded(BlocksOf(BytesOf(s)), bad))
             \/ SectorUnreadable(s, Loaded(BlocksOf(BytesOf(s)), bad), bad)
      BY DEF WriteSector
<1> DEFINE seen == Loaded(BlocksOf(BytesOf(s)), bad)
<1>2. disk[o] = Image[o] /\ o \in Offset  BY DEF UntouchedInv, Clean
<1>3. o \notin DOMAIN bytes
  <2> SUFFICES ASSUME o \in DOMAIN bytes PROVE FALSE  OBVIOUS
  <2>1. PICK k \in DOMAIN staged : o \in DOMAIN staged[k].old
        BY DEF OverlayInv, Matches
  <2>2. PICK i \in DOMAIN journal : journal[i].edit = staged[k]
        BY DEF CommitInv, WriteSector
  <2> QED  BY <2>1, <2>2 DEF Clean, Journaled
<1>4. Readable(BytesOf(s), seen) /\ o \in BytesOf(s) => Patched(s, seen)[o] = Image[o]
  <2>1. seen[o] \in {Image[o], Absent, Unreadable}  BY CleanRead
  <2> QED  BY <1>3, <2>1, SentinelAssumption DEF Readable, Patched
<1>5. ASSUME NEW S, S \subseteq BytesOf(s), Readable(BytesOf(s), seen), Put(S, Patched(s, seen))
      PROVE  disk'[o] = Image[o]
      BY <1>2, <1>4, <1>5 DEF Put
<1>6. \A S \in Prefixes(s) : S \subseteq BytesOf(s)  BY DEF Prefixes
<1>7. CASE RewriteSector(s, seen)  BY <1>5, <1>6, <1>7 DEF RewriteSector
<1>8. CASE SectorUnreadable(s, seen, bad)  BY <1>2, <1>8 DEF SectorUnreadable
<1> QED  BY <1>1, <1>7, <1>8

LEMMA CleanDevice ==
    ASSUME TypeOK, OverlayInv, CommitInv, UntouchedInv, [Next]_vars, NEW o, Clean(o), Clean(o)'
    PROVE  disk'[o] = Image[o] /\ stable'[o] = Image[o]
<1>1. disk[o] = Image[o] /\ stable[o] = Image[o] /\ o \in Offset  BY DEF UntouchedInv, Clean
<1>2. CASE WriteSector  BY <1>1, <1>2, CleanWrite DEF WriteSector
<1>3. ASSUME NEW x \in Offset, NEW v \in Value, ForeignWrite(x, v)
      PROVE  disk'[o] = Image[o] /\ stable'[o] = Image[o]
  <2>1. x # o  BY <1>3 DEF ForeignWrite, Clean
  <2> QED  BY <1>1, <1>3, <2>1 DEF ForeignWrite, TypeOK
<1>4. ASSUME NEW s, Writeback(s)
      PROVE  disk'[o] = Image[o] /\ stable'[o] = Image[o]
      BY <1>1, <1>4 DEF Writeback
<1>5. CASE Flush  BY <1>1, <1>5 DEF Flush
<1>6. CASE Restart \/ PowerLoss  BY <1>1, <1>6 DEF Restart, PowerLoss, deviceVars
<1>7. CASE UNCHANGED deviceVars  BY <1>1, <1>7 DEF deviceVars
<1> QED  BY <1>2, <1>3, <1>4, <1>5, <1>6, <1>7
         DEF vars, deviceVars, Next, Program, User, Environment, Browse, Scrub, Cancel, StageAll,
             Stage, StageDone, Revert, Arm, Disarm, AskCommit, Confirm, AppendRecord, StartWriting

LEMMA CleanCache ==
    ASSUME TypeOK, UntouchedInv, [Next]_vars, NEW o, Clean(o)
    PROVE  cached'[o] \in {Image[o], Absent, Unreadable}
<1>1. ASSUME NEW B, NEW bad, NEW gone, cached' = Without(Loaded(B, bad), gone)
      PROVE  cached'[o] \in {Image[o], Absent, Unreadable}
      BY <1>1, CleanRead
<1>2. CASE UNCHANGED cached  BY <1>2 DEF UntouchedInv, Clean
<1>3. CASE NewProcess  BY <1>3 DEF NewProcess, Clean
<1>4. CASE Stage  BY <1>1, <1>2, <1>4 DEF Stage, Read
<1>5. CASE WriteSector  BY <1>1, <1>5 DEF WriteSector
<1>6. ASSUME NEW B, Browse(B) PROVE cached'[o] \in {Image[o], Absent, Unreadable}
      BY <1>1, <1>6 DEF Browse, Read
<1>7. ASSUME NEW p \in Plans, Scrub(p) PROVE cached'[o] \in {Image[o], Absent, Unreadable}
      BY <1>1, <1>7 DEF Scrub, Read
<1>8. CASE Restart \/ PowerLoss  BY <1>3, <1>8 DEF Restart, PowerLoss
<1> QED  BY <1>2, <1>4, <1>5, <1>6, <1>7, <1>8
         DEF vars, Next, Program, User, Environment, Cancel, StageAll, StageDone, Revert, Arm,
             Disarm, AskCommit, Confirm, AppendRecord, StartWriting, Flush, Writeback, ForeignWrite

LEMMA CleanBasis ==
    ASSUME TypeOK, UntouchedInv, [Next]_vars, NEW o, Clean(o)
    PROVE  OriginalBasis(staged, o)' /\ OriginalBasis(before.staged, o)'
<1>0. OriginalBasis(staged, o) /\ OriginalBasis(before.staged, o)  BY DEF UntouchedInv, Clean
<1>1. CASE UNCHANGED <<staged, before>>  BY <1>0, <1>1 DEF OriginalBasis
<1>2. CASE StageAll  BY <1>0, <1>2 DEF StageAll, OriginalBasis
<1>3. CASE Stage
  <2>1. PICK i \in DOMAIN plan :
          \/ Refuse
          \/ \E B, bad : Accept(plan[i]) /\ BasisHolds(plan[i], Loaded(B, bad))
        BY <1>3 DEF Stage
  <2>2. CASE Refuse
    <3>1. staged' = before.staged /\ before'.staged = <<>>  BY <2>2 DEF Refuse, Forget
    <3> QED  BY <1>0, <3>1 DEF OriginalBasis
  <2>3. ASSUME NEW B, NEW bad, Accept(plan[i]), BasisHolds(plan[i], Loaded(B, bad))
        PROVE  OriginalBasis(staged, o)' /\ OriginalBasis(before.staged, o)'
    <3>1. o \in DOMAIN plan[i].old => plan[i].old[o] = Image[o]
      <4>1. Loaded(B, bad)[o] \in {Image[o], Absent, Unreadable}  BY CleanRead
      <4> QED  BY <2>3, <4>1, SentinelAssumption DEF BasisHolds, Readable
    <3>2. staged' = Append(staged, plan[i]) /\ UNCHANGED before  BY <2>3 DEF Accept
    <3>3. \A k \in DOMAIN staged' : staged'[k] = plan[i] \/ (k \in DOMAIN staged /\ staged'[k] = staged[k])
      <4>1. staged \in Seq(Edit)  BY DEF TypeOK
      <4>2. DOMAIN staged' = DOMAIN staged \cup {Len(staged) + 1}  BY <3>2, <4>1
      <4>3. staged'[Len(staged) + 1] = plan[i]  BY <3>2, <4>1
      <4>4. \A k \in DOMAIN staged : staged'[k] = staged[k]  BY <3>2, <4>1
      <4> QED  BY <4>2, <4>3, <4>4
    <3> QED  BY <1>0, <3>1, <3>2, <3>3 DEF OriginalBasis
  <2> QED  BY <2>1, <2>2, <2>3
<1>4. CASE StageDone  BY <1>0, <1>4 DEF StageDone, Forget, OriginalBasis
<1>5. CASE Revert \/ Flush  BY <1>0, <1>5 DEF Revert, Flush, OriginalBasis
<1>6. CASE Restart \/ PowerLoss
      BY <1>6 DEF Restart, PowerLoss, NewProcess, Forget, OriginalBasis
<1> QED  BY <1>1, <1>2, <1>3, <1>4, <1>5, <1>6
         DEF vars, overlayVars, Next, Program, User, Environment, Browse, Scrub, Cancel, Arm,
             Disarm, AskCommit, Confirm, AppendRecord, StartWriting, WriteSector, Writeback,
             ForeignWrite

LEMMA UntouchedInit == Init => UntouchedInv
BY DEF Init, UntouchedInv, OriginalBasis

LEMMA UntouchedStep ==
    TypeOK /\ OverlayInv /\ CommitInv /\ UntouchedInv /\ [Next]_vars => UntouchedInv'
<1> SUFFICES ASSUME TypeOK, OverlayInv, CommitInv, UntouchedInv, [Next]_vars,
                    NEW o \in Offset, Clean(o)'
             PROVE  /\ disk'[o] = Image[o] /\ stable'[o] = Image[o]
                    /\ cached'[o] \in {Image[o], Absent, Unreadable}
                    /\ OriginalBasis(staged, o)' /\ OriginalBasis(before.staged, o)'
    BY DEF UntouchedInv, Clean
<1>1. Clean(o)  BY CleanBefore
<1> QED  BY <1>1, CleanDevice, CleanCache, CleanBasis

LEMMA OldestInit == Init => OldestInv
BY DEF Init, OldestInv

LEMMA OldestStep ==
    TypeOK /\ CommitInv /\ UntouchedInv /\ OldestInv /\ [Next]_vars => OldestInv'
<1> SUFFICES ASSUME TypeOK, UntouchedInv, OldestInv, [Next]_vars,
                    NEW o \in Offset \ foreign', NEW i \in DOMAIN journal', OldestOf(i, o)'
             PROVE  journal'[i].edit.old[o] = Image[o]
    BY DEF OldestInv
<1>1. o \notin foreign  BY Growth
<1>2. CASE journal' = journal  BY <1>1, <1>2 DEF OldestInv, OldestOf
<1>3. CASE /\ AppendRecord
           /\ journal' = Append(journal, RecordOf(staged[appended + 1]))
  <2>1. /\ \A j \in DOMAIN journal : journal'[j] = journal[j]
        /\ DOMAIN journal = 1 .. Len(journal) /\ Len(journal) \in Nat
        /\ i \in DOMAIN journal \/ i = Len(journal) + 1
        /\ journal'[Len(journal) + 1].edit = staged[appended + 1]
        BY <1>3 DEF TypeOK, RecordOf
  <2>2. CASE i \in DOMAIN journal
    <3>1. \A j \in 1 .. i - 1 : j \in DOMAIN journal  BY <2>1, <2>2
    <3>2. OldestOf(i, o)  BY <2>1, <2>2, <3>1 DEF OldestOf
    <3> QED  BY <1>1, <2>1, <2>2, <3>2 DEF OldestInv
  <2>3. CASE i = Len(journal) + 1
    <3>1. ~Journaled(o)  BY <2>1, <2>3 DEF OldestOf, Journaled
    <3>2. OriginalBasis(staged, o)  BY <1>1, <3>1 DEF UntouchedInv
    <3>3. appended + 1 \in DOMAIN staged  BY <1>3 DEF AppendRecord, TypeOK
    <3> QED  BY <2>1, <2>3, <3>2, <3>3 DEF OldestOf, OriginalBasis
  <2> QED  BY <2>1, <2>2, <2>3
<1> QED  BY <1>2, <1>3, Growth

---------------------------------------------------------------------------
Inv == TypeOK /\ OverlayInv /\ CommitInv /\ UntouchedInv /\ OldestInv

LEMMA InvHolds == Spec => []Inv
<1>1. Init => Inv
      BY InitType, OverlayInit, CommitInit, UntouchedInit, OldestInit DEF Inv
<1>2. Inv /\ [Next]_vars => Inv'
      BY StepType, OverlayStep, CommitStep, UntouchedStep, OldestStep DEF Inv
<1> QED  BY <1>1, <1>2, PTL DEF Spec

\* Undoing every journal gives back the first image, whatever happened.
THEOREM UndoCorrect == Spec => []UndoRestoresImage
<1>1. Inv => UndoRestoresImage
  <2> SUFFICES ASSUME Inv, NEW image \in {disk, stable}, NEW o \in Offset \ foreign
               PROVE  UL!Undone(image)[o] = Image[o]
      BY DEF UndoRestoresImage
  <2>1. CASE Journaled(o)
    <3>1. OldestOf(UL!Oldest(o), o)  BY <2>1, OldestIs DEF Inv
    <3>2. Log[UL!Oldest(o)].old[o] = Image[o]  BY <3>1, LogIs DEF OldestOf, OldestInv, Inv
    <3> QED  BY <2>1, <3>2, LogIs DEF UL!Undone
  <2>2. CASE ~Journaled(o)
    <3>1. image[o] = Image[o]  BY <2>2 DEF UntouchedInv, Inv
    <3> QED  BY <2>2, <3>1, LogIs DEF UL!Undone
  <2> QED  BY <2>1, <2>2
<1> QED  BY <1>1, InvHolds, PTL

---------------------------------------------------------------------------
\* The write path implements the undo log: every step records what the device
\* still holds, or changes the device only where it is recorded.
THEOREM Refinement == Spec => ImplementsUndoLog
<1>1. Init => UL!Init  BY ImageAssumption DEF Init, UL!Init, Log
<1>2. Inv /\ Inv' /\ [Next]_vars => [UL!Next]_(UL!vars)
  <2> SUFFICES ASSUME Inv, Inv', [Next]_vars PROVE [UL!Next]_(UL!vars)  OBVIOUS
  <2>1. TypeOK /\ TypeOK'  BY DEF Inv
  <2>2. CASE journal' = journal
    <3>1. Log' = Log  BY <2>2 DEF Log
    <3>2. disk' \in [Offset -> Value]  BY <2>1 DEF TypeOK
    <3>3. foreign \subseteq foreign'  BY <2>1, Growth
    <3>4. ASSUME NEW o \in Offset \ foreign', disk'[o] # disk[o]
          PROVE  UL!Recorded(o)
      <4> SUFFICES ASSUME ~Journaled(o) PROVE FALSE  BY LogIs
      <4>1. ~Journaled(o)'  BY <2>2 DEF Journaled
      <4>2. disk[o] = Image[o]  BY <3>3 DEF Inv, UntouchedInv
      <4>3. disk'[o] = Image[o]  BY <4>1 DEF Inv, UntouchedInv
      <4> QED  BY <3>4, <4>2, <4>3
    <3>5. UL!Change  BY <3>1, <3>2, <3>3, <3>4 DEF UL!Change
    <3> QED  BY <3>5 DEF UL!Next
  <2>3. CASE /\ AppendRecord
             /\ journal' = Append(journal, RecordOf(staged[appended + 1]))
    <3> DEFINE e == staged[appended + 1]
    <3>1. journal \in Seq(Record) /\ appended + 1 \in DOMAIN staged
          BY <2>1, <2>3 DEF AppendRecord, TypeOK
    <3>2. /\ Len(journal) \in Nat /\ Log = [i \in 1 .. Len(journal) |-> journal[i].edit]
          /\ Log \in Seq(Edit) /\ Len(Log) = Len(journal)
      <4>1. DOMAIN journal = 1 .. Len(journal) /\ Len(journal) \in Nat  BY <3>1
      <4>2. Log = [i \in 1 .. Len(journal) |-> journal[i].edit]  BY <4>1 DEF Log
      <4>3. \A i \in 1 .. Len(journal) : journal[i].edit \in Edit
        <5>1. \A i \in 1 .. Len(journal) : journal[i] \in Record  BY <3>1, <4>1
        <5> QED  BY <5>1 DEF Record
      <4>4. Log \in [1 .. Len(journal) -> Edit]  BY <4>2, <4>3
      <4> QED  BY <4>1, <4>2, <4>4
    <3>3. Log' = Append(Log, e)
      <4>1. /\ DOMAIN journal' = 1 .. Len(journal) + 1
            /\ \A i \in 1 .. Len(journal) : journal'[i] = journal[i]
            /\ journal'[Len(journal) + 1].edit = e
            BY <2>3, <3>1 DEF RecordOf
      <4>2. Log' = [i \in 1 .. Len(journal) + 1 |-> journal'[i].edit]  BY <4>1 DEF Log
      <4> QED  BY <3>2, <4>1, <4>2
    <3>4. Len(Log') = Len(Log) + 1 /\ Log'[Len(Log')] = e  BY <3>2, <3>3
    <3>5. ASSUME NEW o \in DOMAIN e.old \ foreign, ~UL!Recorded(o)
          PROVE  e.old[o] = disk[o]
      <4>1. ~Journaled(o)  BY <3>5, LogIs
      <4>2. o \in Offset
        <5>1. e \in Edit  BY <2>1, <3>1 DEF TypeOK
        <5> QED  BY <5>1, PatchIs DEF Edit
      <4>3. disk[o] = Image[o] /\ OriginalBasis(staged, o)
            BY <3>5, <4>1, <4>2 DEF Inv, UntouchedInv
      <4> QED  BY <3>1, <3>5, <4>3 DEF OriginalBasis
    <3>6. UNCHANGED <<disk, foreign>>  BY <2>3 DEF AppendRecord, deviceVars
    <3>7. UL!Record  BY <3>3, <3>4, <3>5, <3>6 DEF UL!Record
    <3> QED  BY <3>7 DEF UL!Next
  <2> QED  BY <2>1, <2>2, <2>3, Growth
<1> QED  BY <1>1, <1>2, InvHolds, PTL DEF Spec, UL!Spec, ImplementsUndoLog

---------------------------------------------------------------------------
(* What a step of a staging or a commit never does, on every device: the   *)
(* action properties of WritePath.                                         *)

\* A commit is only on its way with the write handle open, which takes --rw.
ArmedInv ==
    /\ sink => permitted
    /\ pc \in {"journal", "write"} => sink

\* What a commit has got off its list is on the device.
WrittenInv ==
    pc = "write" =>
        \A o \in DOMAIN bytes \ foreign : SectorOf(o) \notin todo => disk[o] = bytes[o]

---------------------------------------------------------------------------
(* Both are inductive.                                                     *)

LEMMA ArmedStep == TypeOK /\ ArmedInv /\ [Next]_vars => ArmedInv'
<1> SUFFICES ASSUME TypeOK, ArmedInv, [Next]_vars PROVE ArmedInv'  OBVIOUS
<1>1. CASE UNCHANGED <<permitted, sink>> /\ (pc' \in {"journal", "write"} => pc = pc' \/ sink)
      BY <1>1 DEF ArmedInv
<1>2. CASE Arm \/ Disarm
      BY <1>2 DEF Arm, Disarm, ArmedInv
<1>3. CASE NewProcess
      BY <1>3 DEF NewProcess, ArmedInv
<1>4. CASE UNCHANGED vars \/ Program
      BY <1>1, <1>4 DEF vars, gateVars, Program, Stage, StageDone, Accept, Refuse, AppendRecord,
                        StartWriting, WriteSector, RewriteSector, SectorUnreadable, Fail, Flush,
                        ArmedInv
<1>5. CASE User
  <2>1. \/ Arm \/ Disarm
        \/ UNCHANGED <<permitted, sink>> /\ (UNCHANGED pc \/ sink \/ pc' = "staging")
        BY <1>5 DEF User, Browse, Scrub, Cancel, StageAll, Revert, AskCommit, Confirm, gateVars
  <2> QED  BY <1>1, <1>2, <2>1
<1>6. CASE Environment
  <2>1. NewProcess \/ UNCHANGED <<permitted, sink, pc>>
        BY <1>6 DEF Environment, Writeback, ForeignWrite, Restart, PowerLoss, gateVars
  <2> QED  BY <1>1, <1>3, <2>1
<1> QED  BY <1>4, <1>5, <1>6 DEF Next

\* A sector that is written whole holds the staged bytes.
LEMMA RewriteKeepsWritten ==
    ASSUME TypeOK, WrittenInv, pc = "write", NEW s, NEW seen,
           Put(BytesOf(s), Patched(s, seen)), todo' = todo \ {s},
           UNCHANGED <<bytes, foreign>>
    PROVE  WrittenInv'
<1> SUFFICES ASSUME NEW o \in DOMAIN bytes \ foreign, SectorOf(o) \notin todo \ {s}
             PROVE  disk'[o] = bytes[o]
    BY DEF WrittenInv
<1>1. o \in Offset  BY DEF TypeOK, Patch
<1>2. CASE o \in BytesOf(s)  BY <1>1, <1>2 DEF Put, Patched
<1>3. CASE o \notin BytesOf(s)
      BY <1>1, <1>3 DEF Put, BytesOf, WrittenInv
<1> QED  BY <1>2, <1>3

LEMMA WrittenStep == TypeOK /\ WrittenInv /\ [Next]_vars => WrittenInv'
<1> SUFFICES ASSUME TypeOK, WrittenInv, [Next]_vars PROVE WrittenInv'  OBVIOUS
<1>1. CASE pc' # "write"  BY <1>1 DEF WrittenInv
<1>2. CASE UNCHANGED <<pc, bytes, todo, disk, foreign>>  BY <1>2 DEF WrittenInv
<1>3. CASE StartWriting
  <2>1. todo' = {SectorOf(o) : o \in DOMAIN bytes} /\ UNCHANGED bytes
        BY <1>3 DEF StartWriting, overlayVars
  <2> QED  BY <2>1 DEF WrittenInv
<1>4. CASE WriteSector /\ pc' = "write"
  <2>1. PICK s \in todo : \E B, bad : \/ RewriteSector(s, Loaded(B, bad))
                                      \/ SectorUnreadable(s, Loaded(B, bad), bad)
        BY <1>4 DEF WriteSector
  <2>2. PICK B, bad : \/ RewriteSector(s, Loaded(B, bad))
                      \/ SectorUnreadable(s, Loaded(B, bad), bad)
        BY <2>1
  <2>3. /\ Put(BytesOf(s), Patched(s, Loaded(B, bad))) /\ todo' = todo \ {s}
        /\ pc = "write" /\ UNCHANGED <<bytes, foreign>>
        BY <1>4, <2>2 DEF WriteSector, RewriteSector, SectorUnreadable, Fail, overlayVars
  <2> QED  BY <2>3, RewriteKeepsWritten
<1>5. ASSUME NEW o \in Offset, NEW v \in Value, ForeignWrite(o, v) PROVE WrittenInv'
  <2>1. /\ \A b \in Offset \ {o} : disk'[b] = disk[b]
        /\ foreign' = foreign \cup {o} /\ UNCHANGED <<pc, bytes, todo>>
        BY <1>5 DEF ForeignWrite, TypeOK, overlayVars, commitVars
  <2>2. DOMAIN bytes \subseteq Offset  BY DEF TypeOK, Patch
  <2> QED  BY <2>1, <2>2 DEF WrittenInv
<1>6. CASE UNCHANGED vars  BY <1>2, <1>6 DEF vars, deviceVars, overlayVars, commitVars
<1>7. CASE Stage \/ StageDone \/ AppendRecord \/ Flush
      BY <1>1, <1>7 DEF Stage, StageDone, Accept, Refuse, AppendRecord, Fail, Flush, overlayVars
<1>8. CASE User
      BY <1>1, <1>8 DEF User, Browse, Scrub, Cancel, StageAll, Revert, Arm, Disarm, AskCommit,
                        Confirm
<1>9. CASE Environment
  <2>1. \/ UNCHANGED <<pc, bytes, todo, disk, foreign>> \/ pc' = "idle"
        \/ \E o \in Offset, v \in Value : ForeignWrite(o, v)
        BY <1>9 DEF Environment, Writeback, Restart, PowerLoss, NewProcess, overlayVars,
                    commitVars
  <2> QED  BY <1>1, <1>2, <1>5, <2>1
<1> QED  BY <1>1, <1>3, <1>4, <1>6, <1>7, <1>8, <1>9 DEF Next, Program

CommitStepInv == TypeOK /\ OverlayInv /\ ArmedInv /\ WrittenInv

LEMMA CommitStepInvHolds == Spec => []CommitStepInv
<1>1. Init => CommitStepInv
      BY InitType, OverlayInit DEF CommitStepInv, ArmedInv, WrittenInv, Init
<1>2. CommitStepInv /\ [Next]_vars => CommitStepInv'
      BY StepType, OverlayStep, ArmedStep, WrittenStep DEF CommitStepInv
<1> QED  BY <1>1, <1>2, PTL DEF Spec

---------------------------------------------------------------------------
\* A new process is another one.
LEMMA NewProcessCounts == TypeOK /\ NewProcess => spent'.sessions # spent.sessions
<1> SUFFICES ASSUME TypeOK, NewProcess PROVE spent'.sessions # spent.sessions  OBVIOUS
<1> DEFINE counted == [spent EXCEPT !.sessions = spent.sessions + 1]
<1>1. spent \in Spent  BY DEF TypeOK
<1>2. DOMAIN counted = {"attempts", "faults", "foreign", "sessions"}
      /\ counted["sessions"] = spent["sessions"] + 1
      BY <1>1 DEF Spent
<1>3. spent' = [counted EXCEPT !["attempts"] = 0]  BY DEF NewProcess
<1> HIDE DEF counted
<1>4. spent'["sessions"] = spent["sessions"] + 1  BY <1>2, <1>3
<1>5. spent["sessions"] \in Nat  BY <1>1 DEF Spent
<1> QED  BY <1>4, <1>5

---------------------------------------------------------------------------
(* The action properties.                                                  *)

\* The device changes, by the program's own hand, only with --rw and an open handle.
THEOREM Gated == Spec => WritesOnlyArmed
<1>1. CommitStepInv /\ [Next]_vars =>
        [disk' # disk /\ SameProcess /\ foreign' = foreign /\ spent'.foreign = spent.foreign
             => permitted /\ sink]_vars
  <2> SUFFICES ASSUME CommitStepInv, Next, disk' # disk, SameProcess,
                      spent'.foreign = spent.foreign
               PROVE  permitted /\ sink
      OBVIOUS
  <2>1. ~NewProcess  BY NewProcessCounts DEF SameProcess, CommitStepInv
  <2>2. ASSUME NEW o, NEW v, ForeignWrite(o, v) PROVE FALSE
        BY <2>2 DEF ForeignWrite, Spend, CommitStepInv, TypeOK, Spent
  <2>3. ~User  BY DEF User, Browse, Scrub, Cancel, StageAll, Revert, Arm, Disarm, AskCommit,
                      Confirm, deviceVars
  <2>4. ~Environment
        BY <2>1, <2>2 DEF Environment, Writeback, Restart, PowerLoss
  <2>5. pc = "write"
        BY <2>3, <2>4 DEF Next, Program, Stage, StageDone, AppendRecord, StartWriting,
                          WriteSector, Flush, deviceVars
  <2> QED  BY <2>5 DEF CommitStepInv, ArmedInv
<1> QED  BY <1>1, CommitStepInvHolds, PTL DEF Spec, WritesOnlyArmed

\* A plan is staged as a whole or not at all.
THEOREM AllOrNothing == Spec => StageAllIsAtomic
<1>1. CommitStepInv /\ [Next]_vars =>
        [pc = "staging" /\ pc' = "idle" /\ SameProcess =>
             DOMAIN plan = {} \/ (staged' = before.staged /\ bytes' = before.bytes)]_vars
  <2> SUFFICES ASSUME CommitStepInv, Next, pc = "staging", pc' = "idle", SameProcess
               PROVE  DOMAIN plan = {} \/ (staged' = before.staged /\ bytes' = before.bytes)
      OBVIOUS
  <2>1. ~NewProcess  BY NewProcessCounts DEF SameProcess, CommitStepInv
  <2>2. ~Environment
        BY <2>1 DEF Environment, Writeback, ForeignWrite, Restart, PowerLoss
  <2>3. ~User  BY DEF User, Browse, Scrub, Cancel, StageAll, Revert, Arm, Disarm, AskCommit,
                      Confirm
  <2>4. Stage \/ StageDone
        BY <2>2, <2>3 DEF Next, Program, AppendRecord, StartWriting, WriteSector, Flush
  <2>5. CASE Stage  BY <2>5 DEF Stage, Refuse, Accept
  <2>6. CASE StageDone  BY <2>6 DEF StageDone
  <2> QED  BY <2>4, <2>5, <2>6
<1> QED  BY <1>1, CommitStepInvHolds, PTL DEF Spec, StageAllIsAtomic

\* A commit keeps an edit staged until its bytes are on stable storage.
THEOREM KeptUntilDurable == Spec => DroppedOnlyWhenDurable
<1> DEFINE Durable ==
        \A i \in DOMAIN staged :
            \/ i \in DOMAIN staged' /\ staged'[i] = staged[i]
            \/ \A o \in DOMAIN staged[i].new \ foreign' : stable'[o] = staged[i].new[o]
<1>1. CommitStepInv /\ [Next]_vars =>
        [SameProcess /\ pc \in {"journal", "write"} => Durable]_vars
  <2> SUFFICES ASSUME CommitStepInv, Next, SameProcess, pc \in {"journal", "write"}
               PROVE  Durable
      OBVIOUS
  <2>1. ~NewProcess  BY NewProcessCounts DEF SameProcess, CommitStepInv
  <2>2. CASE UNCHANGED staged  BY <2>2
  <2>3. CASE Flush /\ ~UNCHANGED staged
    <3>1. stable' = disk /\ pc = "write" /\ todo = {} /\ UNCHANGED foreign
          BY <2>3 DEF Flush
    <3>2. ASSUME NEW i \in DOMAIN staged, NEW o \in DOMAIN staged[i].new \ foreign'
          PROVE  stable'[o] = staged[i].new[o]
      <4>1. o \in DOMAIN bytes /\ bytes[o] = staged[i].new[o]
            BY DEF CommitStepInv, OverlayInv, Matches
      <4> QED  BY <3>1, <4>1 DEF CommitStepInv, WrittenInv
    <3> QED  BY <3>2
  <2>4. Flush \/ UNCHANGED staged
        BY <2>1 DEF Next, Program, User, Environment, Stage, StageDone, AppendRecord,
                    StartWriting, WriteSector, Browse, Scrub, Cancel, StageAll, Revert, Arm,
                    Disarm, AskCommit, Confirm, Writeback, ForeignWrite, Restart, PowerLoss,
                    overlayVars
  <2> QED  BY <2>2, <2>3, <2>4
<1> QED  BY <1>1, CommitStepInvHolds, PTL DEF Spec, DroppedOnlyWhenDurable
===========================================================================
