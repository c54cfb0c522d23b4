--------------------------- MODULE Navigator_proofs ---------------------------
(***************************************************************************)
(* Theorems of Navigator: the rows on the screen are those of the tree as  *)
(* it is, no tree is older than the bytes seen through the overlay, and,   *)
(* as long as the sector size is not changed, going back leads to the      *)
(* region that was left.                                                   *)
(***************************************************************************)
EXTENDS Navigator, FiniteSetTheorems, TLAPS

\* What a tree shows is what is seen now.
Current(r, v) == r.root.is = "tree" => r.root.view = v

Inv == TypeOK /\ RowsCurrent /\ TreesCurrent

\* The part of it that Enter and Rebuild see to.
Agree == /\ regions \in Seq(Regions) /\ (HasRegions => region \in DOMAIN regions)
         /\ RowsCurrent /\ TreesCurrent

---------------------------------------------------------------------------
(* What discovery finds.                                                   *)

LEMMA FindsFinite == IsFiniteSet(Finds)
<1>1. IsFiniteSet({0} \cup Targets)
  <2>1. {0} \cup Targets \in SUBSET (0 .. LastBase) BY NavigatorAssumption DEF Targets, Pointed, Base
  <2>2. IsFiniteSet(0 .. LastBase) BY FS_Interval, NavigatorAssumption
  <2> QED BY <2>1, <2>2, FS_Subset
<1>2. Cardinality(Format) \in Nat BY FS_CardinalityType, NavigatorAssumption
<1>3. IsFiniteSet(1 .. Cardinality(Format)) BY <1>2, FS_Interval
<1>4. IsFiniteSet(({0} \cup Targets) \X (1 .. Cardinality(Format))) BY <1>1, <1>3, FS_Product
<1>5. Finds \in SUBSET (({0} \cup Targets) \X (1 .. Cardinality(Format))) BY DEF Finds
<1> QED BY <1>4, <1>5, FS_Subset

\* A find is an offset and the number of a candidate there.
LEMMA FindType ==
    ASSUME NEW p \in Finds
    PROVE  /\ p[1] \in Base /\ p[2] \in Nat /\ p = <<p[1], p[2]>>
           /\ p[2] \in DOMAIN CandidatesAt(p[1])
<1>1. p \in ({0} \cup Targets) \X (1 .. Cardinality(Format)) /\ p[2] \in Wanted(p[1])
  BY DEF Finds
<1>2. Cardinality(Format) \in Nat BY FS_CardinalityType, NavigatorAssumption
<1>3. {0} \cup Targets \subseteq Base BY NavigatorAssumption DEF Targets, Pointed, Base
<1> QED BY <1>1, <1>2, <1>3 DEF Wanted

\* No two finds have the same place in the order.
LEMMA PlaceOfFind ==
    /\ Cardinality(Finds) \in Nat
    /\ \A p \in Finds : Cardinality(UpTo(p)) \in 1 .. Cardinality(Finds)
    /\ \A p, q \in Finds : Cardinality(UpTo(p)) = Cardinality(UpTo(q)) => p = q
<1> DEFINE size == Cardinality(Finds)
<1>1. size \in Nat BY FindsFinite, FS_CardinalityType
<1>2. ASSUME NEW p \in Finds
      PROVE  /\ UpTo(p) \in SUBSET Finds /\ IsFiniteSet(UpTo(p))
             /\ Cardinality(UpTo(p)) \in 1 .. size
  <2>1. UpTo(p) \in SUBSET Finds BY DEF UpTo
  <2>2. p \in UpTo(p)
    <3>1. p[1] \in Base /\ p[2] \in Nat BY FindType
    <3> QED BY <3>1 DEF UpTo, Base
  <2>3. IsFiniteSet(UpTo(p)) /\ Cardinality(UpTo(p)) <= size
    BY <2>1, FindsFinite, FS_Subset
  <2>4. Cardinality(UpTo(p)) \in Nat BY <2>3, FS_CardinalityType
  <2>5. Cardinality(UpTo(p)) # 0 BY <2>2, <2>3, FS_EmptySet
  <2> QED BY <2>1, <2>3, <2>4, <2>5, <1>1
<1>3. ASSUME NEW p \in Finds, NEW q \in Finds, p # q, UpTo(p) \subseteq UpTo(q), q \notin UpTo(p)
      PROVE  Cardinality(UpTo(p)) # Cardinality(UpTo(q))
  <2>1. q \in UpTo(q)
    <3>1. q[1] \in Base /\ q[2] \in Nat BY FindType
    <3> QED BY <3>1 DEF UpTo, Base
  <2>2. UpTo(p) \in SUBSET UpTo(q) /\ IsFiniteSet(UpTo(q)) BY <1>2, <1>3
  <2>3. Cardinality(UpTo(q)) = Cardinality(UpTo(p)) => UpTo(q) = UpTo(p)
    BY <2>2, FS_Subset
  <2> QED BY <2>1, <2>3, <1>3
<1>4. ASSUME NEW p \in Finds, NEW q \in Finds, p # q
      PROVE  Cardinality(UpTo(p)) # Cardinality(UpTo(q))
  <2>1. /\ p[1] \in Int /\ p[2] \in Int /\ q[1] \in Int /\ q[2] \in Int
        /\ ~ (p[1] = q[1] /\ p[2] = q[2])
    <3>1. /\ p[1] \in Base /\ p[2] \in Nat /\ p = <<p[1], p[2]>>
          /\ q[1] \in Base /\ q[2] \in Nat /\ q = <<q[1], q[2]>>
      BY FindType
    <3> QED BY <3>1, <1>4 DEF Base
  <2>2. \A r \in Finds : r[1] \in Int /\ r[2] \in Int BY FindType DEF Base
  <2>3. CASE p[1] < q[1] \/ (p[1] = q[1] /\ p[2] < q[2])
    <3>1. UpTo(p) \subseteq UpTo(q) BY <2>1, <2>2, <2>3 DEF UpTo
    <3>2. q \notin UpTo(p) BY <2>1, <2>3 DEF UpTo
    <3> QED BY <3>1, <3>2, <1>3, <1>4
  <2>4. CASE q[1] < p[1] \/ (p[1] = q[1] /\ q[2] < p[2])
    <3>1. UpTo(q) \subseteq UpTo(p) BY <2>1, <2>2, <2>4 DEF UpTo
    <3>2. p \notin UpTo(q) BY <2>1, <2>4 DEF UpTo
    <3> QED BY <3>1, <3>2, <1>3, <1>4
  <2> QED BY <2>1, <2>3, <2>4
<1> QED BY <1>1, <1>2, <1>4

\* So every place in the order is taken, and every find has its place.
LEMMA FindIsFound ==
    ASSUME NEW k \in 1 .. Cardinality(Finds)
    PROVE  Find(k) \in Finds
<1> DEFINE rank == [p \in Finds |-> Cardinality(UpTo(p))]
           size == Cardinality(Finds)
<1>1. rank \in Injection(Finds, 1 .. size)
  <2>1. rank \in [Finds -> 1 .. size] BY PlaceOfFind
  <2>2. \A p, q \in Finds : rank[p] = rank[q] => p = q BY PlaceOfFind
  <2> QED BY <2>1, <2>2 DEF Injection, IsInjective
<1>2. IsFiniteSet(1 .. size) /\ Cardinality(1 .. size) = size BY PlaceOfFind, FS_Interval
<1>3. rank \in Surjection(Finds, 1 .. size) BY <1>1, <1>2, FindsFinite, FS_Injection
<1>4. \E p \in Finds : Cardinality(UpTo(p)) = k
  <2>1. \E p \in Finds : rank[p] = k BY <1>3 DEF Surjection
  <2> QED BY <2>1
<1> QED BY <1>4 DEF Find

LEMMA FindAtPlace ==
    ASSUME NEW p \in Finds
    PROVE  Find(Cardinality(UpTo(p))) = p
<1>1. \A q \in Finds : Cardinality(UpTo(q)) = Cardinality(UpTo(p)) <=> q = p BY PlaceOfFind
<1> QED BY <1>1 DEF Find

LEMMA RegionType ==
    ASSUME NEW f \in Format, NEW b \in Base
    PROVE  /\ Region(f, b) \in Regions
           /\ \A v : Current(Region(f, b), v)
<1>1. 0 \in 0 .. MaxViews BY NavigatorAssumption
<1> QED BY <1>1 DEF Region, Unparsed, Regions, Roots, Current

LEMMA ParsedType ==
    ASSUME NEW r \in Regions, NEW v \in 0 .. MaxViews
    PROVE  /\ Parsed(r, v) \in Regions
           /\ Parsed(r, v).format = r.format /\ Parsed(r, v).base = r.base
           /\ Current(r, v) => Current(Parsed(r, v), v)
BY DEF Parsed, Regions, Roots, Current

LEMMA CandidateFormat ==
    ASSUME NEW b \in Base, NEW i \in DOMAIN CandidatesAt(b)
    PROVE  CandidatesAt(b)[i].format \in Format
<1> DEFINE scored == [format : Format, score : 0 .. 100]
           found == CandidatesAt(b)
<1>1. found \in Seq(scored) BY NavigatorAssumption DEF CandidatesAt
<1>2. \A x \in scored : x.format \in Format OBVIOUS
<1> HIDE DEF scored, found
<1>3. ASSUME NEW j \in DOMAIN found PROVE found[j] \in scored BY <1>1
<1>4. found = CandidatesAt(b) BY DEF found
<1> QED BY <1>2, <1>3, <1>4

LEMMA DiscoveredType ==
    ASSUME view \in 0 .. MaxViews
    PROVE  /\ Discovered \in Seq(Regions)
           /\ \A i \in DOMAIN Discovered : Current(Discovered[i], view)
<1>1. Cardinality(Finds) \in Nat BY FindsFinite, FS_CardinalityType
<1>2. ASSUME NEW k \in 1 .. Cardinality(Finds)
      PROVE  Discovered[k] \in Regions /\ Current(Discovered[k], view)
  <2> DEFINE p == Find(k)
             r == Region(CandidatesAt(p[1])[p[2]].format, p[1])
  <2>1. p[1] \in Base /\ CandidatesAt(p[1])[p[2]].format \in Format
    BY FindIsFound, FindType, CandidateFormat
  <2>2. r \in Regions /\ Current(r, view) BY <2>1, RegionType
  <2>3. Parsed(r, view) \in Regions /\ Current(Parsed(r, view), view) BY <2>2, ParsedType
  <2>4. Discovered[k] = IF p[1] = 0 THEN Parsed(r, view) ELSE r BY DEF Discovered
  <2> QED BY <2>2, <2>3, <2>4
<1>3. DOMAIN Discovered = 1 .. Cardinality(Finds) BY DEF Discovered
<1>4. Discovered \in [1 .. Cardinality(Finds) -> Regions]
  BY <1>2 DEF Discovered
<1> QED BY <1>1, <1>2, <1>3, <1>4

---------------------------------------------------------------------------
(* Entering a region and building the rows anew.                           *)

\* What every action hands to Enter or Rebuild.
Sound(found, v) == found \in Seq(Regions) /\ \A i \in DOMAIN found : Current(found[i], v)

LEMMA EnterKeeps ==
    ASSUME Inv, NEW found, NEW i, NEW wanted, Enter(found, i, wanted),
           Sound(found, view), UNCHANGED <<shown, view>>,
           i \in DOMAIN found \/ found = <<>> \/ found = regions
    PROVE  Agree'
<1>1. CASE i \in DOMAIN found
  <2>1. /\ regions' = [found EXCEPT ![i] = Parsed(@, view)] /\ region' = i
        /\ rowset' = RowsOf(regions'[i], opened', shown)
    BY <1>1 DEF Enter
  <2>2. found[i] \in Regions /\ Current(found[i], view) BY <1>1 DEF Sound
  <2>3. Parsed(found[i], view) \in Regions /\ Current(Parsed(found[i], view), view)
    BY <2>2, ParsedType DEF Inv, TypeOK
  <2>4. regions' \in Seq(Regions) /\ DOMAIN regions' = DOMAIN found
    BY <2>1, <2>3, <1>1 DEF Sound
  <2>5. \A j \in DOMAIN regions' : Current(regions'[j], view)
    BY <2>1, <2>3, <2>4 DEF Sound
  <2>6. RowsCurrent' BY <2>1 DEF RowsCurrent, HasRegions
  <2>7. TreesCurrent' BY <2>5 DEF TreesCurrent, Current
  <2> QED BY <2>1, <2>4, <2>6, <2>7, <1>1 DEF Agree
<1>2. CASE i \notin DOMAIN found /\ found = <<>>
  <2>1. regions' = <<>> BY <1>2 DEF Enter
  <2> QED BY <2>1 DEF Agree, HasRegions, RowsCurrent, TreesCurrent
<1>3. CASE i \notin DOMAIN found /\ found = regions
  <2>1. UNCHANGED <<regions, region, opened, rowset>> BY <1>3 DEF Enter
  <2>2. RowsCurrent' BY <2>1 DEF Inv, RowsCurrent, HasRegions
  <2>3. TreesCurrent' BY <2>1 DEF Inv, TreesCurrent
  <2> QED BY <2>1, <2>2, <2>3 DEF Agree, Inv, TypeOK, HasRegions
<1> QED BY <1>1, <1>2, <1>3

LEMMA RebuildKeeps ==
    ASSUME NEW found, Rebuild(found), Sound(found, view'), view' \in 0 .. MaxViews,
           UNCHANGED region, found # <<>> => region \in DOMAIN found
    PROVE  Agree'
<1>1. CASE found = <<>>
  <2>1. regions' = <<>> BY <1>1 DEF Rebuild
  <2> QED BY <2>1 DEF Agree, HasRegions, RowsCurrent, TreesCurrent
<1>2. CASE found # <<>>
  <2>1. /\ regions' = [found EXCEPT ![region] = Parsed(@, view')]
        /\ rowset' = RowsOf(regions'[region], opened', shown')
    BY <1>2 DEF Rebuild
  <2>2. found[region] \in Regions /\ Current(found[region], view') BY <1>2 DEF Sound
  <2>3. Parsed(found[region], view') \in Regions /\ Current(Parsed(found[region], view'), view')
    BY <2>2, ParsedType
  <2>4. regions' \in Seq(Regions) /\ DOMAIN regions' = DOMAIN found
    BY <2>1, <2>3, <1>2 DEF Sound
  <2>5. \A j \in DOMAIN regions' : Current(regions'[j], view')
    BY <2>1, <2>3, <2>4 DEF Sound
  <2>6. RowsCurrent' BY <2>1 DEF RowsCurrent, HasRegions
  <2>7. TreesCurrent' BY <2>5 DEF TreesCurrent, Current
  <2> QED BY <2>4, <2>6, <2>7, <1>2 DEF Agree
<1> QED BY <1>1, <1>2

\* The regions as they are, and with one more.
LEMMA RegionsSound ==
    ASSUME Inv
    PROVE  Sound(regions, view)
BY DEF Inv, TypeOK, TreesCurrent, Sound, Current, Regions

LEMMA InterpretKeeps ==
    ASSUME Inv, NEW f \in Format, NEW b \in Base, Interpret(f, b), UNCHANGED <<shown, view>>
    PROVE  Agree'
<1> DEFINE found == InterpretAs(f, b)
<1>1. Sound(regions, view) BY RegionsSound
<1>2. Region(f, b) \in Regions /\ Current(Region(f, b), view) BY RegionType
<1>3. Sound(found, view) /\ Len(found) \in DOMAIN found
  BY <1>1, <1>2 DEF Sound, InterpretAs
<1>4. Enter(found, Len(found), 1) BY DEF Interpret
<1> QED BY <1>3, <1>4, EnterKeeps

---------------------------------------------------------------------------
(* The theorems.                                                           *)

LEMMA InvInit == Init => Inv
<1> SUFFICES ASSUME Init PROVE Inv OBVIOUS
<1>1. 0 \in 0 .. MaxViews BY NavigatorAssumption
<1>2. view \in 0 .. MaxViews BY <1>1 DEF Init
<1>3. /\ regions = Discovered /\ region = 1
      /\ rowset = IF regions = <<>> THEN <<>> ELSE RowsOf(regions[1], opened, shown)
  BY DEF Init
<1>4. regions \in Seq(Regions) /\ \A i \in DOMAIN regions : Current(regions[i], view)
  BY <1>2, <1>3, DiscoveredType
<1>5. HasRegions => region \in DOMAIN regions BY <1>3, <1>4 DEF HasRegions
<1>6. popup \in Base \cup {NoBase} /\ sector \in SectorSizes /\ quit = "no" BY DEF Init
<1>7. RowsCurrent BY <1>3 DEF RowsCurrent, HasRegions
<1>8. TreesCurrent BY <1>4 DEF TreesCurrent, Current
<1> QED BY <1>2, <1>4, <1>5, <1>6, <1>7, <1>8 DEF Inv, TypeOK

LEMMA GotoKeeps ==
    ASSUME Inv, NEW b \in Base, Goto(b)
    PROVE  Agree' /\ popup' \in Base \cup {NoBase}
<1>1. UNCHANGED <<shown, view>> BY DEF Goto, edits
<1> DEFINE known == {i \in DOMAIN regions : regions[i].base = b}
           c == CandidatesAt(b)
<1>2. CASE known # {} /\ Enter(regions, CHOOSE i \in known : \A j \in known : i <= j, 1)
           /\ UNCHANGED popup
  <2> DEFINE i == CHOOSE i \in known : \A j \in known : i <= j
  <2>1. Sound(regions, view) BY RegionsSound
  <2>2. Enter(regions, i, 1) BY <1>2
  <2>3. Agree'
    <3> HIDE DEF i
    <3> QED BY <2>1, <2>2, <1>1, EnterKeeps 
  <2> QED BY <2>3, <1>2 DEF Inv, TypeOK
<1>3. CASE UNCHANGED <<regions, look>> /\ popup' \in {popup, b}
  <2>1. UNCHANGED <<regions, region, opened, rowset, view, shown>> BY <1>1, <1>3 DEF look
  <2>2. RowsCurrent' /\ TreesCurrent' BY <2>1 DEF Inv, RowsCurrent, TreesCurrent, HasRegions
  <2> QED BY <2>1, <2>2, <1>3 DEF Inv, TypeOK, Agree, HasRegions
<1>4. CASE c # <<>> /\ Interpret(c[1].format, b) /\ UNCHANGED popup
  <2>1. CandidatesAt(b) \in Seq([format : Format, score : 0 .. 100])
    BY NavigatorAssumption DEF CandidatesAt
  <2>2. 1 \in DOMAIN CandidatesAt(b)
    <3> HIDE DEF c
    <3>1. c = CandidatesAt(b) BY DEF c
    <3> QED BY <3>1, <2>1, <1>4
  <2>3. c[1].format \in Format BY <2>2, CandidateFormat
  <2>4. Agree' BY <2>3, <1>1, <1>4, InterpretKeeps 
  <2> QED BY <2>4, <1>4 DEF Inv, TypeOK
<1> QED BY <1>2, <1>3, <1>4 DEF Goto

\* An action that keeps regions, expansion, rows and what is seen.
LEMMA Untouched ==
    ASSUME Inv, UNCHANGED <<regions, region, opened, rowset, view, shown>>
    PROVE  Agree'
<1>1. RowsCurrent' /\ TreesCurrent' BY DEF Inv, RowsCurrent, TreesCurrent, HasRegions
<1> QED BY <1>1 DEF Inv, TypeOK, Agree, HasRegions

LEMMA SeenAnewKeeps ==
    ASSUME Inv, SeenAnew
    PROVE  Agree' /\ view' \in 0 .. MaxViews
<1> DEFINE found == Dropped(regions)
<1>1. view' \in 0 .. MaxViews BY NavigatorAssumption DEF SeenAnew, Inv, TypeOK
<1>2. Unparsed \in Roots
  <2>1. 0 \in 0 .. MaxViews BY NavigatorAssumption
  <2> QED BY <2>1 DEF Unparsed, Roots
<1>3. ASSUME NEW i \in DOMAIN regions
      PROVE  found[i] \in Regions /\ Current(found[i], view')
  <2>1. regions[i] \in Regions BY DEF Inv, TypeOK
  <2>2. found[i] = [regions[i] EXCEPT !.root = Unparsed] BY DEF Dropped
  <2>3. found[i] \in Regions /\ found[i].root = Unparsed BY <1>2, <2>1, <2>2 DEF Regions
  <2> QED BY <2>3 DEF Current, Unparsed
<1>4. DOMAIN found = DOMAIN regions /\ found \in Seq(Regions)
  <2>1. Len(regions) \in Nat /\ DOMAIN regions = 1 .. Len(regions) BY DEF Inv, TypeOK
  <2>2. found \in [1 .. Len(regions) -> Regions] BY <2>1, <1>3 DEF Dropped
  <2> QED BY <2>1, <2>2
<1>5. Sound(found, view')
  <2> HIDE DEF found
  <2> QED BY <1>3, <1>4 DEF Sound
<1>6. found # <<>> => region \in DOMAIN found
  <2>1. regions = <<>> => found = <<>> BY <1>4 DEF Inv, TypeOK
  <2> QED BY <2>1, <1>4 DEF Inv, TypeOK, HasRegions
<1>7. Rebuild(found) /\ UNCHANGED region BY DEF SeenAnew, Reparse
<1> HIDE DEF found
<1> QED BY <1>1, <1>5, <1>6, <1>7, RebuildKeeps

\* A node that is opened is read, and read from what is seen now.
LEMMA ResolvedSound ==
    ASSUME Inv, HasRegions, NEW n
    PROVE  Sound([regions EXCEPT ![region] = ResolvedAlong(@, n)], view)
<1> DEFINE r == regions[region]
           along == (Tree[r.format].above[n] \cup {n}) \cap Tree[r.format].lazy
           root == [r.root EXCEPT !.resolved = @ \cup along]
           s == ResolvedAlong(r, n)
<1>1. region \in DOMAIN regions /\ r \in Regions /\ Current(r, view)
  BY RegionsSound DEF Inv, TypeOK, Sound
<1>2. along \subseteq Resolvable BY <1>1 DEF Resolvable, Regions
<1>3. r.root \in Roots BY <1>1 DEF Regions
<1>4. root \in Roots /\ root.is = r.root.is /\ root.view = r.root.view
  <2> HIDE DEF along, r
  <2> QED BY <1>2, <1>3 DEF Roots
<1>5. s \in Regions /\ s.root = root
  <2>1. s = [r EXCEPT !.root = root] BY DEF ResolvedAlong
  <2> HIDE DEF s, root, r
  <2> QED BY <2>1, <1>1, <1>4 DEF Regions
<1>6. Current(s, view) BY <1>1, <1>4, <1>5 DEF Current
<1>7. Sound([regions EXCEPT ![region] = s], view)
  <2> HIDE DEF s
  <2> QED BY <1>1, <1>5, <1>6, RegionsSound DEF Sound
<1> QED BY <1>7

LEMMA InvNext == Inv /\ [Next]_vars => Inv'
<1> SUFFICES ASSUME Inv, [Next]_vars PROVE Inv' OBVIOUS
<1>1. ASSUME Agree', popup' \in Base \cup {NoBase}, sector' \in SectorSizes, view' \in 0 .. MaxViews,
             quit' \in {"no", "key", "command", "forced"}
      PROVE  Inv'
  BY <1>1 DEF Agree, Inv, TypeOK
<1>2. /\ popup \in Base \cup {NoBase} /\ sector \in SectorSizes /\ view \in 0 .. MaxViews
      /\ quit \in {"no", "key", "command", "forced"}
  BY DEF Inv, TypeOK
<1>3. Sound(regions, view) BY RegionsSound
<1>4. CASE Move
  BY <1>1, <1>2, <1>4, Untouched DEF Move, edits
<1>5. CASE ToggleExpand
  <2>1. UNCHANGED <<region, shown, popup, sector, view, quit>> BY <1>5 DEF ToggleExpand, edits
  <2>2. HasRegions => region \in DOMAIN regions BY DEF Inv, TypeOK
  <2>3. CASE Rebuild(regions)
    <3>1. Agree' BY <1>2, <1>3, <2>1, <2>2, <2>3, RebuildKeeps DEF HasRegions
    <3> QED BY <3>1, <2>1, <1>1, <1>2
  <2>4. CASE Rebuild([regions EXCEPT ![region] = ResolvedAlong(@, Here)])
    <3> DEFINE found == [regions EXCEPT ![region] = ResolvedAlong(@, Here)]
    <3>1. HasRegions BY <1>5 DEF ToggleExpand
    <3>2. Sound(found, view) BY <3>1, ResolvedSound
    <3>3. DOMAIN found = DOMAIN regions OBVIOUS
    <3> HIDE DEF found
    <3>4. Rebuild(found) BY <2>4 DEF found
    <3>5. Agree' BY <1>2, <2>1, <2>2, <3>1, <3>2, <3>3, <3>4, RebuildKeeps
    <3> QED BY <3>5, <2>1, <1>1, <1>2
  <2> QED BY <1>5, <2>3, <2>4 DEF ToggleExpand
<1>6. CASE CollapseOrUp
  <2>1. UNCHANGED <<region, shown, popup, sector, view, quit>> BY <1>6 DEF CollapseOrUp, edits
  <2>2. HasRegions => region \in DOMAIN regions BY DEF Inv, TypeOK
  <2>3. CASE Rebuild(regions)
    <3>1. Agree' BY <1>2, <1>3, <2>1, <2>2, <2>3, RebuildKeeps DEF HasRegions
    <3> QED BY <3>1, <2>1, <1>1, <1>2
  <2>4. CASE UNCHANGED <<regions, opened, rowset>>
    BY <2>1, <2>4, <1>1, <1>2, Untouched
  <2> QED BY <1>6, <2>3, <2>4 DEF CollapseOrUp
<1>7. CASE Filter
  <2>1. Rebuild(regions) /\ UNCHANGED <<region, popup, sector, view, quit>>
    BY <1>7 DEF Filter, edits
  <2>2. HasRegions => region \in DOMAIN regions BY DEF Inv, TypeOK
  <2>3. Agree' BY <1>2, <1>3, <2>1, <2>2, RebuildKeeps DEF HasRegions
  <2> QED BY <2>1, <2>3, <1>1, <1>2
<1>8. CASE NextRegion
  <2>1. UNCHANGED <<shown, popup, sector, view, quit>> BY <1>8 DEF NextRegion, edits
  <2>2. PICK i \in DOMAIN regions : Enter(regions, i, 1) BY <1>8 DEF NextRegion
  <2>3. Agree' BY <1>3, <2>1, <2>2, EnterKeeps
  <2> QED BY <2>1, <2>3, <1>1, <1>2
<1>9. CASE FollowLink
  <2>1. Goto(Link[HereFormat][Here]) /\ Link[HereFormat][Here] \in Base
    BY <1>9 DEF FollowLink
  <2> QED BY <2>1, <1>1, <1>2, GotoKeeps DEF Goto, edits
<1>10. CASE GotoCommand
  <2>1. PICK b \in Base : Goto(b) BY <1>10 DEF GotoCommand
  <2> QED BY <2>1, <1>1, <1>2, GotoKeeps DEF Goto, edits
<1>11. CASE Choose
  <2>1. popup \in Base BY <1>11 DEF Choose, Inv, TypeOK
  <2>2. PICK i \in DOMAIN CandidatesAt(popup) : Interpret(CandidatesAt(popup)[i].format, popup)
    BY <1>11 DEF Choose
  <2>3. CandidatesAt(popup)[i].format \in Format BY <2>1, CandidateFormat
  <2>4. popup' = NoBase /\ UNCHANGED <<shown, sector, view, quit>> BY <1>11 DEF Choose, edits
  <2>5. Agree' BY <2>1, <2>2, <2>3, <2>4, InterpretKeeps
  <2> QED BY <2>4, <2>5, <1>1, <1>2
<1>12. CASE Dismiss
  BY <1>1, <1>2, <1>12, Untouched DEF Dismiss, edits, look
<1>13. CASE As
  <2>1. UNCHANGED <<shown, popup, sector, view, quit>> BY <1>13 DEF As, edits
  <2>2. PICK f \in Format, b \in Base : Interpret(f, b) BY <1>13 DEF As
  <2>3. Agree' BY <2>1, <2>2, InterpretKeeps
  <2> QED BY <2>1, <2>3, <1>1, <1>2
<1>14. CASE JumpBack
  <2>1. UNCHANGED <<shown, popup, sector, view, quit>> BY <1>14 DEF JumpBack, edits
  <2>2. Enter(regions, Last(back).region, Last(back).row) BY <1>14 DEF JumpBack
  <2>3. Agree' BY <1>3, <2>1, <2>2, EnterKeeps
  <2> QED BY <2>1, <2>3, <1>1, <1>2
<1>15. CASE JumpForward
  <2>1. UNCHANGED <<shown, popup, sector, view, quit>> BY <1>15 DEF JumpForward, edits
  <2>2. Enter(regions, Last(forward).region, Last(forward).row) BY <1>15 DEF JumpForward
  <2>3. Agree' BY <1>3, <2>1, <2>2, EnterKeeps
  <2> QED BY <2>1, <2>3, <1>1, <1>2
<1>16. CASE Stage
  <2>1. SeenAnew BY <1>16 DEF Stage
  <2> QED BY <2>1, <1>1, <1>2, SeenAnewKeeps DEF SeenAnew
<1>17. CASE Revert
  <2>1. SeenAnew BY <1>17 DEF Revert
  <2> QED BY <2>1, <1>1, <1>2, SeenAnewKeeps DEF SeenAnew
<1>18. CASE Commit
  <2>1. SeenAnew BY <1>18 DEF Commit
  <2> QED BY <2>1, <1>1, <1>2, SeenAnewKeeps DEF SeenAnew
<1>19. CASE Resize
  <2>1. PICK s \in Resizes : /\ sector' = s /\ UNCHANGED <<shown, jumps, popup, edits, quit>>
                            /\ Enter(Discovered, 1, 1)
    BY <1>19 DEF Resize
  <2>2. Sound(Discovered, view) BY <1>2, DiscoveredType DEF Sound
  <2>3. 1 \in DOMAIN Discovered \/ Discovered = <<>> BY <2>2 DEF Sound
  <2>4. UNCHANGED <<shown, view>> BY <2>1 DEF edits
  <2>5. Agree' BY <2>1, <2>2, <2>3, <2>4, EnterKeeps
  <2> QED BY <2>1, <2>5, <1>1, <1>2, NavigatorAssumption DEF edits
<1>20. CASE Quit
  BY <1>1, <1>2, <1>20, Untouched DEF Quit, edits, look
<1>21. CASE UNCHANGED vars
  BY <1>1, <1>2, <1>21, Untouched DEF vars, edits, look
<1> QED BY <1>4, <1>5, <1>6, <1>7, <1>8, <1>9, <1>10, <1>11, <1>12, <1>13, <1>14, <1>15, <1>16,
           <1>17, <1>18, <1>19, <1>20, <1>21 DEF Next

\* What is on the screen belongs to a region that is there, and the trees are well made.
THEOREM TypeCorrect == Spec => []TypeOK
<1>1. Init => Inv BY InvInit
<1>2. Inv /\ [Next]_vars => Inv' BY InvNext
<1> QED BY <1>1, <1>2, PTL DEF Spec, Inv

\* No key leaves rows of another tree, expansion, filter or region on the screen
\* (App::rebuild, App::enter_region).
THEOREM AlwaysCurrentRows == Spec => []RowsCurrent
<1>1. Init => Inv BY InvInit
<1>2. Inv /\ [Next]_vars => Inv' BY InvNext
<1> QED BY <1>1, <1>2, PTL DEF Spec, Inv

\* No key leaves a tree of other bytes than those seen through the overlay (app.rs:416).
THEOREM AlwaysCurrentTrees == Spec => []TreesCurrent
<1>1. Init => Inv BY InvInit
<1>2. Inv /\ [Next]_vars => Inv' BY InvNext
<1> QED BY <1>1, <1>2, PTL DEF Spec, Inv

---------------------------------------------------------------------------
(* Findings.                                                               *)

\* The places of P up to i.
Before(P, i) == {j \in P : j <= i}

\* Whatever is at one of the places is in what they leave, at its rank among them.
LEMMA SelectedShown ==
    ASSUME NEW n \in Nat, NEW P \in SUBSET (1 .. n), NEW seq, NEW i \in P
    PROVE  \E k \in DOMAIN Only(seq, P) : Only(seq, P)[k] = seq[i]
<1> DEFINE rank(h) == Cardinality(Before(P, h))
<1>1. IsFiniteSet(P)
  <2>1. IsFiniteSet(1 .. n) BY FS_Interval
  <2> QED BY <2>1, FS_Subset
<1>2. ASSUME NEW h \in P
      PROVE  /\ h \in Nat /\ h \in Before(P, h) /\ Before(P, h) \in SUBSET P
             /\ IsFiniteSet(Before(P, h)) /\ rank(h) \in 1 .. Cardinality(P)
  <2>1. h \in Nat /\ h \in Before(P, h) /\ Before(P, h) \in SUBSET P BY DEF Before
  <2>2. IsFiniteSet(Before(P, h)) /\ rank(h) <= Cardinality(P) BY <1>1, <2>1, FS_Subset
  <2>3. rank(h) \in Nat /\ rank(h) # 0 /\ Cardinality(P) \in Nat
    BY <1>1, <2>1, <2>2, FS_CardinalityType, FS_EmptySet
  <2> QED BY <2>1, <2>2, <2>3
<1>3. ASSUME NEW g \in P, NEW h \in P, g < h PROVE rank(g) # rank(h)
  <2>1. g \in Nat /\ h \in Nat BY <1>2
  <2>2. \A j \in P : j \in Nat BY <1>2
  <2>3. Before(P, g) \in SUBSET Before(P, h)
    <3> SUFFICES ASSUME NEW j \in Before(P, g) PROVE j \in Before(P, h) OBVIOUS
    <3>1. j \in P /\ j <= g BY DEF Before
    <3>2. j <= h BY <1>3, <2>1, <2>2, <3>1
    <3> QED BY <3>1, <3>2 DEF Before
  <2>4. h \notin Before(P, g) BY <1>3, <2>1 DEF Before
  <2>5. rank(g) = rank(h) => Before(P, g) = Before(P, h) BY <1>2, <2>3, FS_Subset
  <2> QED BY <1>2, <2>4, <2>5
<1>4. ASSUME NEW h \in P, rank(h) = rank(i) PROVE h = i
  <2>1. ~ (h < i) /\ ~ (i < h) BY <1>3, <1>4
  <2> QED BY <1>2, <2>1
<1>5. Nth(P, rank(i)) = i
  <2>1. \A h \in P : Cardinality({j \in P : j <= h}) = rank(i) <=> h = i BY <1>4 DEF Before
  <2> HIDE DEF rank
  <2> QED BY <2>1 DEF Nth
<1>6. rank(i) \in 1 .. Cardinality(P) BY <1>2
<1> HIDE DEF rank
<1>7. rank(i) \in DOMAIN Only(seq, P) BY <1>6 DEF Only
<1>8. Only(seq, P)[rank(i)] = seq[i] BY <1>5, <1>6 DEF Only
<1> QED BY <1>7, <1>8

\* What is noticed, or lies above it and is read, is kept by every filter.
LEMMA FindingKept ==
    ASSUME NEW f \in Format, NEW n \in Noticed(f), NEW resolved, NEW how,
           Tree[f].above[n] \cap Tree[f].lazy \subseteq resolved,
           NEW m \in Tree[f].above[n] \cup {n}
    PROVE  Kept(f, m, resolved, how)
<1>1. n \in Node(f) /\ n \in Tree[f].anomalies BY TreesAssumption DEF Node, Noticed
<1>2. n \in {m} \cup Children(f, m) BY <1>1 DEF Children
<1>3. m \in Tree[f].gaps => m \in Tree[f].anomalies BY <1>1, TreesAssumption DEF Node
<1>4. ~ Empty(f, m, resolved) BY <1>2 DEF Empty, Noticed
<1>5. (Tree[f].above[n] \ Tree[f].above[m]) \cap Tree[f].lazy \subseteq resolved OBVIOUS
<1> QED BY <1>1, <1>2, <1>3, <1>4, <1>5 DEF Kept

LEMMA FindingsFollow == Inv => FindingsShown
<1> SUFFICES ASSUME Inv, HasRegions,
                    NEW n \in Noticed(regions[region].format),
                    Tree[regions[region].format].above[n] \subseteq opened,
                    Tree[regions[region].format].above[n] \cap Tree[regions[region].format].lazy
                        \subseteq regions[region].root.resolved
             PROVE  \E i \in DOMAIN rowset : rowset[i] = n
  BY DEF FindingsShown
<1> DEFINE f == regions[region].format
           order == Tree[f].order
           resolved == regions[region].root.resolved
           visible(m) ==
               /\ Tree[f].above[m] \subseteq opened
               /\ Tree[f].above[m] \cap Tree[f].lazy \subseteq resolved
               /\ \A k \in (Tree[f].above[m] \cup {m}) \ {RootNode(f)} : Kept(f, k, resolved, shown)
           P == {i \in DOMAIN order : visible(order[i])}
<1>1. f \in Format
  <2>1. regions[region] \in Regions BY DEF Inv, TypeOK
  <2> QED BY <2>1 DEF Regions
<1>2. rowset = Only(order, P) BY DEF Inv, RowsCurrent, RowsOf
<1>3. Len(order) \in Nat /\ DOMAIN order = 1 .. Len(order)
  <2>1. order \in Seq(Node(f)) BY <1>1, TreesAssumption DEF Node
  <2> HIDE DEF order, f
  <2> QED BY <2>1
<1>4. \E i \in DOMAIN order : order[i] = n
  <2>1. n \in DOMAIN Tree[f].above BY <1>1, TreesAssumption DEF Noticed
  <2>2. {order[i] : i \in DOMAIN order} = DOMAIN Tree[f].above BY <1>1, TreesAssumption
  <2> QED BY <2>1, <2>2
<1>5. PICK i \in DOMAIN order : order[i] = n BY <1>4
<1>6. visible(n) BY <1>1, FindingKept
<1>7. i \in P BY <1>5, <1>6
<1>8. P \in SUBSET (1 .. Len(order)) BY <1>3
<1> HIDE DEF P, order
<1>9. \E k \in DOMAIN Only(order, P) : Only(order, P)[k] = order[i]
  BY <1>3, <1>7, <1>8, SelectedShown
<1> QED BY <1>2, <1>5, <1>9

\* Whatever is opened, filtered, staged or parsed again, a node with a finding, and any
\* other anomaly that is not blank, has its row as soon as what is above it is open and
\* read: no filter hides it, nor what is above it, in any tree (rows.rs: keep,
\* subtree_has_anomaly; node.rs: is_empty_for_filter).
THEOREM AlwaysFindings == Spec => []FindingsShown
<1>1. Init => Inv BY InvInit
<1>2. Inv /\ [Next]_vars => Inv' BY InvNext
<1>3. Inv => FindingsShown BY FindingsFollow
<1> QED BY <1>1, <1>2, <1>3, PTL DEF Spec

---------------------------------------------------------------------------
(* Jumps.  Regions are added at the end and never taken away, so that an   *)
(* entry of the jump stack goes on naming the region it was made for.      *)

Same(r, q) == r.format = q.format /\ r.base = q.base
Grown(found) == \A i \in DOMAIN regions : i \in DOMAIN found /\ Same(found[i], regions[i])

Names(found, e) ==
    e.what[1] # NoBase =>
        /\ e.region \in DOMAIN found
        /\ found[e.region].format = e.what[1] /\ found[e.region].base = e.what[2]

Sequence(s) == s \in Seq({s[i] : i \in DOMAIN s})
AllName(found, s) == Sequence(s) /\ \A i \in DOMAIN s : Names(found, s[i])
JumpInv == AllName(regions, back) /\ AllName(regions, forward)

LEMMA EnterGrows ==
    ASSUME Inv, NEW found \in Seq(Regions), NEW i, NEW wanted, Enter(found, i, wanted), Grown(found)
    PROVE  Grown(regions')
<1>1. CASE i \in DOMAIN found
  <2>1. regions' = [found EXCEPT ![i] = Parsed(@, view)] BY <1>1 DEF Enter
  <2>2. found[i] \in Regions BY <1>1
  <2>3. Same(Parsed(found[i], view), found[i]) BY <2>2, ParsedType DEF Same, Inv, TypeOK
  <2>4. \A j \in DOMAIN found : j \in DOMAIN regions' /\ Same(regions'[j], found[j])
    BY <2>1, <2>3 DEF Same
  <2> QED BY <2>4 DEF Grown, Same
<1>2. CASE i \notin DOMAIN found
  BY <1>2 DEF Enter
<1> QED BY <1>1, <1>2

LEMMA RebuildGrows ==
    ASSUME Inv, NEW found \in Seq(Regions), Rebuild(found), Grown(found),
           view' \in 0 .. MaxViews, found # <<>> => region \in DOMAIN found
    PROVE  Grown(regions')
<1>1. CASE found = <<>>
  BY <1>1 DEF Rebuild
<1>2. CASE found # <<>>
  <2>1. regions' = [found EXCEPT ![region] = Parsed(@, view')] BY <1>2 DEF Rebuild
  <2>2. found[region] \in Regions BY <1>2
  <2>3. Same(Parsed(found[region], view'), found[region]) BY <2>2, ParsedType DEF Same
  <2>4. \A j \in DOMAIN found : j \in DOMAIN regions' /\ Same(regions'[j], found[j])
    BY <2>1, <2>3 DEF Same
  <2> QED BY <2>4 DEF Grown, Same
<1> QED BY <1>1, <1>2

LEMMA InterpretGrows ==
    ASSUME Inv, NEW f \in Format, NEW b \in Base, Interpret(f, b)
    PROVE  Grown(regions')
<1> DEFINE found == InterpretAs(f, b)
<1>1. Region(f, b) \in Regions BY RegionType
<1>2. found \in Seq(Regions) /\ \A i \in DOMAIN regions : i \in DOMAIN found /\ found[i] = regions[i]
  BY <1>1 DEF InterpretAs, Inv, TypeOK
<1>3. Enter(found, Len(found), 1) BY DEF Interpret
<1>4. Grown(found) BY <1>2 DEF Grown, Same
<1> HIDE DEF found
<1> QED BY <1>2, <1>3, <1>4, EnterGrows

LEMMA GotoGrows ==
    ASSUME Inv, NEW b \in Base, Goto(b)
    PROVE  Grown(regions')
<1> DEFINE known == {i \in DOMAIN regions : regions[i].base = b}
           c == CandidatesAt(b)
           i == CHOOSE i \in known : \A j \in known : i <= j
<1>1. regions \in Seq(Regions) /\ Grown(regions) BY DEF Inv, TypeOK, Grown, Same
<1>2. CASE Enter(regions, i, 1)
  <2> HIDE DEF i
  <2> QED BY <1>1, <1>2, EnterGrows
<1>3. CASE UNCHANGED regions
  BY <1>1, <1>3
<1>4. CASE c # <<>> /\ Interpret(c[1].format, b)
  <2>1. CandidatesAt(b) \in Seq([format : Format, score : 0 .. 100])
    BY NavigatorAssumption DEF CandidatesAt
  <2>2. 1 \in DOMAIN CandidatesAt(b)
    <3> HIDE DEF c
    <3>1. c = CandidatesAt(b) BY DEF c
    <3> QED BY <3>1, <2>1, <1>4
  <2>3. c[1].format \in Format BY <2>2, CandidateFormat
  <2> QED BY <2>3, <1>4, InterpretGrows
<1> QED BY <1>2, <1>3, <1>4 DEF Goto

LEMMA AlwaysGrows ==
    ASSUME Inv, [Next]_vars, ~ Resize
    PROVE  Grown(regions')
<1>1. /\ regions \in Seq(Regions) /\ Grown(regions) /\ (HasRegions => region \in DOMAIN regions)
      /\ view \in 0 .. MaxViews
  BY DEF Inv, TypeOK, Grown, Same
<1>2. CASE UNCHANGED regions
  BY <1>1, <1>2
<1>3. CASE Rebuild(regions) /\ UNCHANGED view
  BY <1>1, <1>3, RebuildGrows DEF HasRegions
<1>4. CASE ToggleExpand /\ Rebuild([regions EXCEPT ![region] = ResolvedAlong(@, Here)])
  <2> DEFINE found == [regions EXCEPT ![region] = ResolvedAlong(@, Here)]
  <2>1. HasRegions /\ UNCHANGED view BY <1>4 DEF ToggleExpand, edits
  <2>2. found \in Seq(Regions) BY <2>1, ResolvedSound DEF Sound
  <2>3. regions[region] \in Regions BY <1>1, <2>1
  <2>4. Same(ResolvedAlong(regions[region], Here), regions[region])
    BY <2>3 DEF Same, ResolvedAlong, Regions
  <2>5. Grown(found) BY <1>1, <2>1, <2>4 DEF Grown, Same
  <2>6. DOMAIN found = DOMAIN regions OBVIOUS
  <2>7. Rebuild(found) BY <1>4
  <2> HIDE DEF found
  <2> QED BY <1>1, <2>1, <2>2, <2>5, <2>6, <2>7, RebuildGrows
<1>5. ASSUME NEW i, NEW wanted, Enter(regions, i, wanted) PROVE Grown(regions')
  BY <1>1, <1>5, EnterGrows
<1>6. CASE \E b \in Base : Goto(b)
  BY <1>6, GotoGrows
<1>7. CASE \E f \in Format, b \in Base : Interpret(f, b)
  BY <1>7, InterpretGrows
<1>8. CASE SeenAnew
  <2> DEFINE found == Dropped(regions)
  <2>1. view' \in 0 .. MaxViews /\ Rebuild(found)
    BY <1>8, <1>1, NavigatorAssumption DEF SeenAnew, Reparse
  <2>2. ASSUME NEW j \in DOMAIN regions
        PROVE  found[j] \in Regions /\ Same(found[j], regions[j])
    <3>1. regions[j] \in Regions BY <1>1
    <3>2. found[j] = [regions[j] EXCEPT !.root = Unparsed] BY DEF Dropped
    <3>3. Unparsed \in Roots
      <4>1. 0 \in 0 .. MaxViews BY NavigatorAssumption
      <4> QED BY <4>1 DEF Unparsed, Roots
    <3> QED BY <3>1, <3>2, <3>3 DEF Regions, Same
  <2>3. DOMAIN found = DOMAIN regions BY DEF Dropped
  <2>4. found \in Seq(Regions)
    <3>1. Len(regions) \in Nat /\ DOMAIN regions = 1 .. Len(regions) BY <1>1
    <3>2. found \in [1 .. Len(regions) -> Regions] BY <3>1, <2>2 DEF Dropped
    <3> QED BY <3>1, <3>2
  <2> HIDE DEF found
  <2>5. Grown(found) BY <2>2, <2>3 DEF Grown
  <2>6. found # <<>> => region \in DOMAIN found
    <3>1. regions = <<>> => found = <<>> BY <1>1, <2>3, <2>4
    <3> QED BY <3>1, <1>1, <2>3 DEF HasRegions
  <2> QED BY <2>1, <2>4, <2>5, <2>6, RebuildGrows
<1>9. CASE Choose
  <2>1. popup \in Base BY <1>9 DEF Choose, Inv, TypeOK
  <2>2. PICK k \in DOMAIN CandidatesAt(popup) : Interpret(CandidatesAt(popup)[k].format, popup)
    BY <1>9 DEF Choose
  <2> QED BY <2>1, <2>2, CandidateFormat, InterpretGrows
<1>10. CASE Move BY <1>2, <1>10 DEF Move
<1>11. CASE ToggleExpand BY <1>3, <1>4, <1>11 DEF ToggleExpand, edits
<1>12. CASE CollapseOrUp BY <1>2, <1>3, <1>12 DEF CollapseOrUp, edits
<1>13. CASE Filter BY <1>3, <1>13 DEF Filter, edits
<1>14. CASE NextRegion BY <1>5, <1>14 DEF NextRegion
<1>15. CASE FollowLink BY <1>6, <1>15 DEF FollowLink
<1>16. CASE GotoCommand BY <1>6, <1>16 DEF GotoCommand
<1>17. CASE Dismiss BY <1>2, <1>17 DEF Dismiss
<1>18. CASE As BY <1>7, <1>18 DEF As
<1>19. CASE JumpBack BY <1>5, <1>19 DEF JumpBack
<1>20. CASE JumpForward BY <1>5, <1>20 DEF JumpForward
<1>21. CASE Stage \/ Revert \/ Commit BY <1>8, <1>21 DEF Stage, Revert, Commit
<1>22. CASE Quit \/ UNCHANGED vars BY <1>2, <1>22 DEF Quit, vars
<1> QED BY <1>9, <1>10, <1>11, <1>12, <1>13, <1>14, <1>15, <1>16, <1>17, <1>18, <1>19, <1>20,
           <1>21, <1>22 DEF Next

LEMMA HereNamed ==
    ASSUME Inv
    PROVE  Names(regions, HereNow)
BY DEF Inv, TypeOK, Names, HereNow, HereFormat

\* The three things that happen to a stack.
LEMMA StackAppend ==
    ASSUME NEW found, NEW s, AllName(found, s), NEW e, Names(found, e)
    PROVE  AllName(found, Append(s, e)) /\ Len(Append(s, e)) = Len(s) + 1 /\ Len(s) \in Nat
<1> DEFINE S == {s[i] : i \in DOMAIN s} \cup {e}
           t == Append(s, e)
<1>1. s \in Seq(S) /\ e \in S BY DEF AllName, Sequence
<1>2. t \in Seq(S) /\ Len(t) = Len(s) + 1 /\ DOMAIN t = 1 .. Len(t) /\ Len(s) \in Nat
      /\ DOMAIN s = 1 .. Len(s)
  <2> HIDE DEF S
  <2> QED BY <1>1
<1>3. \A i \in DOMAIN t : t[i] = e \/ (i \in DOMAIN s /\ t[i] = s[i])
  <2> HIDE DEF S
  <2> QED BY <1>1, <1>2
<1>4. \A i \in DOMAIN t : Names(found, t[i]) BY <1>3 DEF AllName
<1>5. Sequence(t)
  <2>1. t = [i \in 1 .. Len(t) |-> t[i]]
    <3> HIDE DEF S, t
    <3> QED BY <1>2
  <2>2. t \in [1 .. Len(t) -> {t[i] : i \in DOMAIN t}]
    <3> HIDE DEF S, t
    <3> QED BY <1>2, <2>1
  <2> QED BY <1>2, <2>2 DEF Sequence
<1> QED BY <1>2, <1>4, <1>5 DEF AllName

LEMMA StackFront ==
    ASSUME NEW found, NEW s, AllName(found, s), s # <<>>
    PROVE  /\ AllName(found, Front(s)) /\ Names(found, Last(s))
           /\ Len(s) \in Nat /\ Len(Front(s)) = Len(s) - 1
<1> DEFINE S == {s[i] : i \in DOMAIN s}
           t == Front(s)
<1>1. s \in Seq(S) BY DEF AllName, Sequence
<1>2. Len(s) \in Nat /\ DOMAIN s = 1 .. Len(s) /\ Len(s) > 0
  <2> HIDE DEF S
  <2> QED BY <1>1
<1>3. t = [i \in 1 .. Len(s) - 1 |-> s[i]]
  <2> HIDE DEF S
  <2> QED BY <1>1, <1>2 DEF Front
<1>4. Len(t) = Len(s) - 1 /\ DOMAIN t = 1 .. Len(t) BY <1>2, <1>3
<1>5. Sequence(t)
  <2>1. t \in [1 .. Len(t) -> {t[i] : i \in DOMAIN t}] BY <1>3, <1>4
  <2> QED BY <1>2, <1>4, <2>1 DEF Sequence
<1>6. \A i \in DOMAIN t : Names(found, t[i]) BY <1>2, <1>3, <1>4 DEF AllName
<1>7. Names(found, Last(s)) BY <1>2 DEF Last, AllName
<1> QED BY <1>2, <1>4, <1>5, <1>6, <1>7 DEF AllName

LEMMA GrownNames ==
    ASSUME Grown(regions'), NEW s, AllName(regions, s)
    PROVE  AllName(regions', s)
BY DEF Grown, Same, AllName, Names

LEMMA EmptyNames == \A found : AllName(found, <<>>)
BY DEF AllName, Sequence

\* What a step does to the two stacks.
StacksKept == UNCHANGED jumps
Pushed == back' = Append(back, HereNow) /\ forward' = <<>>

LEMMA StackSteps ==
    ASSUME [Next]_vars
    PROVE  StacksKept \/ Pushed \/ JumpBack \/ JumpForward
<1>1. CASE Move \/ ToggleExpand \/ CollapseOrUp \/ Filter \/ NextRegion
  BY <1>1 DEF Move, ToggleExpand, CollapseOrUp, Filter, NextRegion, StacksKept
<1>2. CASE FollowLink \/ GotoCommand
  BY <1>2 DEF FollowLink, GotoCommand, Goto, PushJump, Pushed
<1>3. CASE Choose \/ Dismiss \/ As BY <1>3 DEF Choose, Dismiss, As, StacksKept
<1>4. CASE Stage \/ Revert \/ Commit BY <1>4 DEF Stage, Revert, Commit, SeenAnew, StacksKept
<1>5. CASE Resize \/ Quit BY <1>5 DEF Resize, Quit, StacksKept
<1>6. CASE UNCHANGED vars BY <1>6 DEF vars, StacksKept
<1> QED BY <1>1, <1>2, <1>3, <1>4, <1>5, <1>6 DEF Next

LEMMA JumpStep ==
    ASSUME Inv, JumpInv, [Next]_vars, Resizes = {}
    PROVE  JumpInv'
<1>1. Grown(regions')
  <2>1. ~ Resize BY DEF Resize
  <2> QED BY <2>1, AlwaysGrows
<1>2. AllName(regions, back) /\ AllName(regions, forward) /\ Names(regions, HereNow)
  BY HereNamed DEF JumpInv
<1>3. SUFFICES AllName(regions, back') /\ AllName(regions, forward')
  BY <1>1, <1>3, GrownNames DEF JumpInv
<1>4. CASE StacksKept BY <1>2, <1>4 DEF StacksKept, jumps
<1>5. CASE Pushed BY <1>2, <1>5, StackAppend, EmptyNames DEF Pushed
<1>6. CASE JumpBack BY <1>2, <1>6, StackAppend, StackFront DEF JumpBack
<1>7. CASE JumpForward BY <1>2, <1>7, StackAppend, StackFront DEF JumpForward
<1> QED BY <1>4, <1>5, <1>6, <1>7, StackSteps

\* The action under the box of BackToTheRegion.
BackStep ==
    JumpingBack /\ Last(back).what[1] # NoBase =>
        <<regions'[region'].format, regions'[region'].base>>
            = <<Last(back).what[1], Last(back).what[2]>>

LEMMA BackIsRight ==
    ASSUME Inv, JumpInv, [Next]_vars
    PROVE  BackStep
<1> SUFFICES ASSUME JumpingBack, Last(back).what[1] # NoBase
             PROVE  <<regions'[region'].format, regions'[region'].base>>
                        = <<Last(back).what[1], Last(back).what[2]>>
  BY DEF BackStep
<1> DEFINE e == Last(back)
<1>1. /\ AllName(regions, back) /\ Names(regions, HereNow) /\ back # <<>> /\ back' = Front(back)
      /\ Len(back) \in Nat /\ Len(back') = Len(back) - 1 /\ Names(regions, e)
  BY HereNamed, StackFront DEF JumpInv, JumpingBack
<1>2. JumpBack
  <2>1. ~ StacksKept BY <1>1 DEF StacksKept, jumps
  <2>2. ~ Pushed BY <1>1, StackAppend DEF Pushed
  <2>3. ~ JumpForward BY <1>1, StackAppend DEF JumpForward
  <2> QED BY <2>1, <2>2, <2>3, StackSteps
<1>3. /\ e.region \in DOMAIN regions /\ regions[e.region] \in Regions
      /\ regions[e.region].format = e.what[1] /\ regions[e.region].base = e.what[2]
  BY <1>1 DEF Names, Inv, TypeOK
<1>4. Enter(regions, e.region, e.row) BY <1>2 DEF JumpBack
<1> HIDE DEF e
<1>5. regions' = [regions EXCEPT ![e.region] = Parsed(@, view)] /\ region' = e.region
  BY <1>3, <1>4 DEF Enter
<1>6. regions'[region'] = Parsed(regions[e.region], view) BY <1>3, <1>5
<1>7. Same(Parsed(regions[e.region], view), regions[e.region])
  BY <1>3, ParsedType DEF Same, Inv, TypeOK
<1>8. regions'[region'].format = e.what[1] /\ regions'[region'].base = e.what[2]
  BY <1>3, <1>6, <1>7 DEF Same
<1> QED BY <1>8 DEF e

\* As long as the sector size is not changed, going back shows the region that was left,
\* whatever was forced, followed, staged or parsed again in between (App::jump_back).
THEOREM AlwaysBack ==
    ASSUME Resizes = {}
    PROVE  Spec => BackToTheRegion
<1>1. Init => Inv /\ JumpInv
  <2>1. Init => JumpInv BY EmptyNames DEF Init, JumpInv
  <2> QED BY <2>1, InvInit
<1>2. Inv /\ JumpInv /\ [Next]_vars => (Inv /\ JumpInv)' BY InvNext, JumpStep
<1>3. Inv /\ JumpInv /\ [Next]_vars => [BackStep]_vars BY BackIsRight
<1> QED BY <1>1, <1>2, <1>3, PTL DEF Spec, BackToTheRegion, BackStep

---------------------------------------------------------------------------
(* Partitions.                                                             *)

\* Every place where discovery found something is that of a region.
FoundIn(found) == \A p \in Finds : \E j \in DOMAIN found : found[j].base = p[1]

LEMMA DiscoveredFinds == FoundIn(Discovered)
<1> SUFFICES ASSUME NEW p \in Finds
             PROVE  \E j \in DOMAIN Discovered : Discovered[j].base = p[1]
  BY DEF FoundIn
<1> DEFINE k == Cardinality(UpTo(p))
           r == Region(CandidatesAt(p[1])[p[2]].format, p[1])
<1>1. k \in 1 .. Cardinality(Finds) /\ Find(k) = p BY PlaceOfFind, FindAtPlace
<1>2. k \in DOMAIN Discovered BY <1>1 DEF Discovered
<1> HIDE DEF k
<1>3. Discovered[k] = IF p[1] = 0 THEN Parsed(r, view) ELSE r BY <1>1 DEF Discovered
<1>4. r.base = p[1] /\ Parsed(r, view).base = p[1] BY DEF Region, Parsed
<1> QED BY <1>2, <1>3, <1>4

LEMMA GrownFinds ==
    ASSUME FoundIn(regions), Grown(regions')
    PROVE  FoundIn(regions')
BY DEF FoundIn, Grown, Same

LEMMA ResizeFinds ==
    ASSUME Inv, Resize
    PROVE  FoundIn(regions')
<1>1. Enter(Discovered, 1, 1) BY DEF Resize
<1>2. CASE 1 \in DOMAIN Discovered
  <2>1. regions' = [Discovered EXCEPT ![1] = Parsed(@, view)] BY <1>1, <1>2 DEF Enter
  <2>2. \A j \in DOMAIN Discovered : j \in DOMAIN regions' /\ regions'[j].base = Discovered[j].base
    BY <1>2, <2>1 DEF Parsed
  <2> QED BY <2>2, DiscoveredFinds DEF FoundIn
<1>3. CASE 1 \notin DOMAIN Discovered
  <2>1. regions' = Discovered BY <1>1, <1>3 DEF Enter
  <2> QED BY <2>1, DiscoveredFinds
<1> QED BY <1>2, <1>3

\* The best candidate for a place is wanted there if it is good enough.
LEMMA BestIsFound ==
    ASSUME NEW b \in {0} \cup Targets, CandidatesAt(b) # <<>>,
           CandidatesAt(b)[1].score >= MinAutoScore
    PROVE  <<b, 1>> \in Finds
<1> DEFINE c == CandidatesAt(b)
<1>1. b \in Base BY NavigatorAssumption DEF Targets, Pointed, Base
<1>2. c \in Seq([format : Format, score : 0 .. 100]) /\ Len(c) <= Cardinality(Format)
  BY <1>1, NavigatorAssumption DEF CandidatesAt
<1>3. Cardinality(Format) \in Nat BY FS_CardinalityType, NavigatorAssumption
<1>4. c # <<>> /\ c[1].score >= MinAutoScore OBVIOUS
<1>5. 1 \in DOMAIN c /\ 1 \in 1 .. Cardinality(Format)
  <2> HIDE DEF c
  <2> QED BY <1>2, <1>3, <1>4
<1>6. 1 \in Wanted(b) BY <1>4, <1>5 DEF Wanted
<1> QED BY <1>5, <1>6 DEF Finds

LEMMA PartitionsFollow == FoundIn(regions) => PartitionsListed
<1> SUFFICES ASSUME FoundIn(regions), NEW k \in Wanted(0),
                    NEW n \in Tree[CandidatesAt(0)[k].format].probes,
                    Link[CandidatesAt(0)[k].format][n] \in Base,
                    Tree[CandidatesAt(0)[k].format].above[n]
                        \cap Tree[CandidatesAt(0)[k].format].lazy = {},
                    Link[CandidatesAt(0)[k].format][n] # 0
                        => WithinLimit(Link[CandidatesAt(0)[k].format][n]),
                    CandidatesAt(Link[CandidatesAt(0)[k].format][n]) # <<>>,
                    CandidatesAt(Link[CandidatesAt(0)[k].format][n])[1].score >= MinAutoScore
             PROVE  \E j \in DOMAIN regions :
                        regions[j].base = Link[CandidatesAt(0)[k].format][n]
  BY DEF PartitionsListed
<1> DEFINE f == CandidatesAt(0)[k].format
           b == Link[f][n]
<1>1. f \in Format
  <2>1. 0 \in Base /\ k \in DOMAIN CandidatesAt(0)
    BY NavigatorAssumption DEF Base, Wanted
  <2> QED BY <2>1, CandidateFormat
<1>2. n \in Node(f) BY <1>1, TreesAssumption DEF Node
<1>3. b \in {0} \cup Targets BY <1>2 DEF Targets, Pointed
<1>4. <<b, 1>> \in Finds BY <1>3, BestIsFound
<1>5. \E j \in DOMAIN regions : regions[j].base = <<b, 1>>[1] BY <1>4 DEF FoundIn
<1> QED BY <1>5

\* A volume that a table at 0 points at, if it is among the first MaxTargets it points at,
\* is a region from the start, and stays one whatever is forced, followed, staged or found
\* anew (Session::discover, Session::partition_targets, Session::interpret_as).
THEOREM AlwaysPartitions == Spec => []PartitionsListed
<1>1. Init => Inv /\ FoundIn(regions)
  <2>1. Init => regions = Discovered BY DEF Init
  <2> QED BY <2>1, InvInit, DiscoveredFinds
<1>2. Inv /\ FoundIn(regions) /\ [Next]_vars => (Inv /\ FoundIn(regions))'
  <2> SUFFICES ASSUME Inv, FoundIn(regions), [Next]_vars PROVE FoundIn(regions')
    BY InvNext DEF FoundIn
  <2>1. CASE Resize BY <2>1, ResizeFinds
  <2>2. CASE ~ Resize BY <2>2, AlwaysGrows, GrownFinds
  <2> QED BY <2>1, <2>2
<1>3. Inv /\ FoundIn(regions) => PartitionsListed BY PartitionsFollow
<1> QED BY <1>1, <1>2, <1>3, PTL DEF Spec

===========================================================================
