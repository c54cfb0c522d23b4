--------------------------- MODULE Navigator ---------------------------
(***************************************************************************)
(* Finding the way around a device: the regions a session discovers, the   *)
(* tree parsed for each of them and what of it is open, the rows on the    *)
(* screen, the cursor, the jump stack, and what staging, reverting and     *)
(* committing do to all of them.                                           *)
(*                                                                         *)
(* The program has one thread: every key is one action.  Keys that only    *)
(* change what is drawn (help, detail, hex pane, width, focus, copying)    *)
(* are left out; the popup that asks for a format is in.  Staging and      *)
(* committing are in WritePath: here they succeed and the bytes seen       *)
(* through the overlay are others, or they fail and nothing changes.       *)
(***************************************************************************)
EXTENDS Naturals, FiniteSets, SequencesExt, Selection

CONSTANTS
    Format,         \* the registered probes
    LastBase,       \* the device's last offset at which something may be
    NoBase,         \* no offset, no region
    SectorSizes,    \* what --sector-size and :sector accept
    DeviceSector,   \* the sector size the source was opened with
    Tree,           \* [Format -> what root() of its reader returns]
    Link,           \* [Format -> [node -> the first link's target, or NoBase]]
    Candidates,     \* [SectorSizes -> [Base -> formats with scores, best first]]
    Resizes,        \* the sizes :sector is given
    MaxTargets,     \* how many offsets of a table are probed: 32
    MaxRegions,     \* bound: regions
    MaxJumps,       \* bound: entries of the jump stack
    MaxViews        \* bound: stagings, commits and reverts

MinAutoScore == 30
Confident == 80
Base == 0 .. LastBase

VARIABLES
    regions,    \* what was found or forced, in order
    region,     \* the one on the screen
    opened,     \* its open nodes (Expansion)
    rowset,     \* its visible nodes, in order
    row,        \* the cursor
    shown,      \* the `z` filter, and `Z`
    back, forward,
    popup,      \* the offset a format is asked for, or NoBase
    sector,     \* Session::sector_size
    view,       \* how often what is seen through the overlay has changed
    dirty,      \* is anything staged?
    quit        \* "no", or what ended the session

look == <<region, opened, rowset, row>>
jumps == <<back, forward>>
edits == <<view, dirty>>
vars == <<regions, look, shown, jumps, popup, sector, edits, quit>>

ASSUME NavigatorAssumption ==
    /\ LastBase \in Nat /\ NoBase \notin Base /\ NoBase \notin Format /\ IsFiniteSet(Format)
    /\ DeviceSector \in SectorSizes /\ Resizes \subseteq SectorSizes
    /\ MaxTargets \in Nat
    /\ MaxRegions \in Nat /\ MaxJumps \in Nat /\ MaxViews \in Nat
    \* Registry::candidates: every format at most once.
    /\ \A s \in SectorSizes : \A b \in Base :
           /\ Candidates[s][b] \in Seq([format : Format, score : 0 .. 100])
           /\ Len(Candidates[s][b]) <= Cardinality(Format)

ASSUME TreesAssumption ==
    \A f \in Format :
        /\ \A n \in DOMAIN Tree[f].above : Tree[f].above[n] \subseteq DOMAIN Tree[f].above
        /\ Tree[f].order \in Seq(DOMAIN Tree[f].above)
        /\ {Tree[f].order[i] : i \in DOMAIN Tree[f].order} = DOMAIN Tree[f].above
        \* Nothing lies below a gap.
        /\ \A n \in DOMAIN Tree[f].above : Tree[f].above[n] \cap Tree[f].gaps = {}
        /\ Tree[f].anomalies \cup Tree[f].probes \subseteq DOMAIN Tree[f].above
        \* What is worse than an information is an anomaly; so are, without it, a
        \* gap or a reserved field that is not zero and a value that does not match.
        /\ Tree[f].findings \subseteq Tree[f].anomalies
        \* A row keeps its depth when its region is gone.
        /\ \A g \in Format : \A n \in DOMAIN Tree[f].above \cap DOMAIN Tree[g].above :
               Cardinality(Tree[f].above[n]) = Cardinality(Tree[g].above[n])

Node(f) == DOMAIN Tree[f].above
RootNode(f) == Tree[f].order[1]
Depth(n) == Cardinality(Tree[CHOOSE f \in Format : n \in Node(f)].above[n])
Children(f, n) == {m \in Node(f) : n \in Tree[f].above[m]}

---------------------------------------------------------------------------
(* Regions and their trees.                                                *)
Unparsed == [view |-> 0, resolved |-> {}, is |-> "none"]
Region(f, b) == [format |-> f, base |-> b, root |-> Unparsed, sector |-> DeviceSector]

\* root_mut: parsed on first use, lazy children unresolved.
Parsed(r, v) ==
    IF r.root.is = "none"
    THEN [r EXCEPT !.root = [view |-> v, resolved |-> {}, is |-> "tree"]] ELSE r

\* Registry::candidates asks the source for the sector size.
CandidatesAt(b) == Candidates[DeviceSector][b]

\* probe_and_add: the best candidate, and whoever else is sure.
Wanted(b) ==
    LET c == CandidatesAt(b)
    IN  {i \in DOMAIN c : c[1].score >= MinAutoScore /\ (i = 1 \/ c[i].score >= Confident)}

\* Mutant: only the nodes right below the root are looked at.
PointedAtTop ==
    {b \in Base \ {0} :
        \E i \in Wanted(0) :
            LET f == CandidatesAt(0)[i].format
            IN  \E n \in Node(f) : /\ n \in Tree[f].probes /\ Link[f][n] = b
                                   /\ Tree[f].above[n] = {RootNode(f)}}

\* Where the resolved nodes of the first regions say a volume starts.
Pointed ==
    {b \in Base \ {0} :
        \E i \in Wanted(0) :
            LET f == CandidatesAt(0)[i].format
            IN  \E n \in Node(f) : /\ n \in Tree[f].probes /\ Link[f][n] = b
                                   /\ Tree[f].above[n] \cap Tree[f].lazy = {}}

\* partition_targets: the lowest of them.
WithinLimit(b) == Cardinality({c \in Pointed : c <= b}) <= MaxTargets
Targets == {b \in Pointed : WithinLimit(b)}

\* <<offset, number of the candidate>>, in the order of both.
Finds == {p \in ({0} \cup Targets) \X (1 .. Cardinality(Format)) : p[2] \in Wanted(p[1])}
UpTo(p) == {q \in Finds : q[1] < p[1] \/ (q[1] = p[1] /\ q[2] <= p[2])}
Find(k) == CHOOSE p \in Finds : Cardinality(UpTo(p)) = k

\* discover: the trees of what is at 0 were parsed when it was asked for targets.
Discovered ==
    [k \in 1 .. Cardinality(Finds) |->
        LET p == Find(k)
            r == Region(CandidatesAt(p[1])[p[2]].format, p[1])
        IN  IF p[1] = 0 THEN Parsed(r, view) ELSE r]

---------------------------------------------------------------------------
(* Rows.                                                                   *)
\* Blank is all zeros or all 0xFF: a gap of 0xFF is an anomaly and blank.
Empty(f, n, resolved) ==
    \A m \in {n} \cup Children(f, n) :
        m \in Tree[f].blanks \ Tree[f].findings /\ (m \in Tree[f].lazy => m \in resolved)

\* Mutant: what lies below a node does not count.
KeptForItself(f, n, resolved, how) ==
    /\ n \in Tree[f].gaps => how.gaps \/ n \in Tree[f].anomalies
    /\ how.filter = "hide-empty" => ~Empty(f, n, resolved)
    /\ how.filter = "anomalies" => n \in Tree[f].anomalies

Kept(f, n, resolved, how) ==
    /\ n \in Tree[f].gaps => how.gaps \/ n \in Tree[f].anomalies
    /\ how.filter = "hide-empty" => ~Empty(f, n, resolved)
    /\ how.filter = "anomalies" =>
         \E m \in {n} \cup Children(f, n) :
             /\ m \in Tree[f].anomalies
             /\ (Tree[f].above[m] \ Tree[f].above[n]) \cap Tree[f].lazy \subseteq resolved

\* flatten: below open, resolved and unfiltered nodes, the root always.
RowsOf(r, open, how) ==
    LET f == r.format
        order == Tree[f].order
        visible(n) ==
            /\ Tree[f].above[n] \subseteq open
            /\ Tree[f].above[n] \cap Tree[f].lazy \subseteq r.root.resolved
            /\ \A m \in (Tree[f].above[n] \cup {n}) \ {RootNode(f)} :
                   Kept(f, m, r.root.resolved, how)
    IN  Only(order, {i \in DOMAIN order : visible(order[i])})

Clamp(wanted, rows) == IF rows = <<>> THEN 1 ELSE IF wanted > Len(rows) THEN Len(rows) ELSE wanted

OpenTop(f) == {RootNode(f)} \cup {n \in Tree[f].arrays : Tree[f].above[n] = {RootNode(f)}}

HasRegions == regions # <<>>
Here == rowset[row]
HereFormat == regions[region].format

\* enter_region, then the cursor on row `wanted`.
Enter(found, i, wanted) ==
    IF i \in DOMAIN found
    THEN /\ regions' = [found EXCEPT ![i] = Parsed(@, view)]
         /\ region' = i
         /\ opened' = OpenTop(found[i].format)
         /\ rowset' = RowsOf(regions'[i], opened', shown)
         /\ row' = Clamp(wanted, rowset')
    ELSE /\ regions' = found
         /\ row' = Clamp(wanted, rowset)
         /\ UNCHANGED <<region, opened, rowset>>

\* Mutant: the rows are those of the tree as it was.
RebuildBefore(found) ==
    IF found = <<>>
    THEN regions' = found /\ rowset' = <<>> /\ row' = 1
    ELSE /\ regions' = [found EXCEPT ![region] = Parsed(@, view')]
         /\ rowset' = RowsOf(regions[region], opened', shown')
         /\ row' = Clamp(row, rowset')

\* rebuild, over the regions given.
Rebuild(found) ==
    IF found = <<>>
    THEN regions' = found /\ rowset' = <<>> /\ row' = 1
    ELSE /\ regions' = [found EXCEPT ![region] = Parsed(@, view')]
         /\ rowset' = RowsOf(regions'[region], opened', shown')
         /\ row' = Clamp(row, rowset')

Dropped(found) == [i \in DOMAIN found |-> [found[i] EXCEPT !.root = Unparsed]]

---------------------------------------------------------------------------
(* Keys on a row.                                                          *)
Ready == quit = "no" /\ popup = NoBase

Move ==     \* j, k, G, Home, PageUp, PageDown, C-d, C-u
    /\ Ready
    /\ row' \in DOMAIN rowset /\ row' # row
    /\ UNCHANGED <<regions, region, opened, rowset, shown, jumps, popup, sector, edits, quit>>

ResolvedAlong(r, n) ==
    LET along == (Tree[r.format].above[n] \cup {n}) \cap Tree[r.format].lazy
    IN  [r EXCEPT !.root = [r.root EXCEPT !.resolved = @ \cup along]]

ToggleExpand ==     \* l, Right, Enter in the tree
    /\ Ready /\ HasRegions /\ rowset # <<>>
    /\ Here \in Tree[HereFormat].lazy \/ Children(HereFormat, Here) # {}
    /\ UNCHANGED <<region, shown, jumps, popup, sector, edits, quit>>
    /\ IF Here \in opened
       THEN opened' = opened \ {Here} /\ Rebuild(regions)
       ELSE /\ opened' = opened \cup {Here}
            /\ Rebuild([regions EXCEPT ![region] = ResolvedAlong(@, Here)])

CollapseOrUp ==     \* h, Left
    /\ Ready /\ rowset # <<>>
    /\ UNCHANGED <<region, shown, jumps, popup, sector, edits, quit>>
    /\ IF Here \in opened
       THEN opened' = opened \ {Here} /\ Rebuild(regions)
       ELSE LET above == {i \in 1 .. row - 1 : Depth(rowset[i]) < Depth(Here)}
            IN  /\ above # {}
                /\ row' = CHOOSE i \in above : \A j \in above : j <= i
                /\ UNCHANGED <<regions, opened, rowset>>

Filter ==           \* z, Z
    /\ Ready
    /\ \/ shown' = [shown EXCEPT !.filter =
                       CASE @ = "all" -> "hide-empty" [] @ = "hide-empty" -> "anomalies"
                         [] OTHER -> "all"]
       \/ shown' = [shown EXCEPT !.gaps = ~@]
    /\ UNCHANGED <<region, opened, jumps, popup, sector, edits, quit>>
    /\ Rebuild(regions)

NextRegion ==       \* [ and ]
    /\ Ready
    /\ \E i \in DOMAIN regions : (i = region + 1 \/ i + 1 = region) /\ Enter(regions, i, 1)
    /\ UNCHANGED <<shown, jumps, popup, sector, edits, quit>>

---------------------------------------------------------------------------
(* Jumps.  Besides region and row, the model remembers what was there.     *)
HereNow ==
    [region |-> region, row |-> row,
     what |-> IF HasRegions
              THEN <<HereFormat, regions[region].base, Here>> ELSE <<NoBase, NoBase, NoBase>>]

\* Mutant: what is forced comes first.
InterpretFirst(f, b) == <<Region(f, b)>> \o regions

InterpretAs(f, b) == Append(regions, Region(f, b))

\* interpret_as and enter_region.
Interpret(f, b) ==
    /\ Len(regions) < MaxRegions
    /\ LET found == InterpretAs(f, b) IN Enter(found, Len(found), 1)

PushJump ==
    /\ Len(back) < MaxJumps
    /\ back' = Append(back, HereNow) /\ forward' = <<>>

\* goto_byte
Goto(b) ==
    LET known == {i \in DOMAIN regions : regions[i].base = b}
        c == CandidatesAt(b)
    IN  /\ PushJump
        /\ CASE known # {} ->
                  /\ Enter(regions, CHOOSE i \in known : \A j \in known : i <= j, 1)
                  /\ UNCHANGED popup
             [] known = {} /\ c = <<>> -> UNCHANGED <<regions, look, popup>>
             [] known = {} /\ c # <<>> /\ (Len(c) = 1 \/ c[1].score >= Confident) ->
                  Interpret(c[1].format, b) /\ UNCHANGED popup
             [] OTHER -> popup' = b /\ UNCHANGED <<regions, look>>
        /\ UNCHANGED <<shown, sector, edits, quit>>

FollowLink ==       \* g
    /\ Ready /\ HasRegions /\ rowset # <<>>
    /\ Link[HereFormat][Here] \in Base
    /\ Goto(Link[HereFormat][Here])

GotoCommand ==      \* :<offset>, :lba
    /\ Ready
    /\ \E b \in Base : Goto(b)

Choose ==           \* Enter in the popup
    /\ quit = "no" /\ popup # NoBase
    /\ \E i \in DOMAIN CandidatesAt(popup) : Interpret(CandidatesAt(popup)[i].format, popup)
    /\ popup' = NoBase
    /\ UNCHANGED <<shown, jumps, sector, edits, quit>>

Dismiss ==
    /\ quit = "no" /\ popup # NoBase
    /\ popup' = NoBase
    /\ UNCHANGED <<regions, look, shown, jumps, sector, edits, quit>>

As ==               \* :as <format>, where the cursor is
    /\ Ready
    /\ \E f \in Format, b \in Base : Interpret(f, b)
    /\ UNCHANGED <<shown, jumps, popup, sector, edits, quit>>

JumpBack ==         \* C-o
    /\ Ready /\ back # <<>>
    /\ back' = Front(back) /\ forward' = Append(forward, HereNow)
    /\ Enter(regions, Last(back).region, Last(back).row)
    /\ UNCHANGED <<shown, popup, sector, edits, quit>>

JumpForward ==      \* C-r
    /\ Ready /\ forward # <<>>
    /\ forward' = Front(forward) /\ back' = Append(back, HereNow)
    /\ Enter(regions, Last(forward).region, Last(forward).row)
    /\ UNCHANGED <<shown, popup, sector, edits, quit>>

---------------------------------------------------------------------------
(* What changes the bytes under the trees.                                 *)
\* Mutant: only the region on the screen is parsed again.
ReparseHere == Rebuild([regions EXCEPT ![region].root = Unparsed])

Reparse == Rebuild(Dropped(regions))

SeenAnew ==
    /\ view < MaxViews /\ view' = view + 1
    /\ UNCHANGED <<region, opened, shown, jumps, popup, sector, quit>>
    /\ Reparse

Stage ==            \* S, Enter
    /\ Ready /\ HasRegions /\ rowset # <<>>
    /\ Here \in Tree[HereFormat].scrubs
    /\ dirty' = TRUE /\ SeenAnew

Revert ==           \* :revert
    /\ Ready
    /\ dirty' = FALSE /\ SeenAnew

Commit ==           \* :commit, the device's name, Enter
    /\ Ready /\ dirty
    /\ dirty' = FALSE /\ SeenAnew

Resize ==           \* :sector
    /\ Ready
    /\ \E s \in Resizes :
         /\ s # sector /\ sector' = s
         /\ UNCHANGED <<shown, jumps, popup, edits, quit>>
         /\ Enter(Discovered, 1, 1)

Quit ==
    /\ quit = "no"
    /\ \/ Ready /\ quit' = "key"                    \* q, C-c
       \/ Ready /\ ~dirty /\ quit' = "command"      \* :q
       \/ Ready /\ quit' = "forced"                 \* :q!
    /\ UNCHANGED <<regions, look, shown, jumps, popup, sector, edits>>

Init ==
    /\ sector \in SectorSizes
    /\ view = 0 /\ dirty = FALSE /\ quit = "no" /\ popup = NoBase
    /\ back = <<>> /\ forward = <<>>
    /\ shown = [filter |-> "all", gaps |-> TRUE]
    /\ region = 1 /\ row = 1
    /\ regions = Discovered
    /\ opened = IF regions = <<>> THEN {} ELSE OpenTop(regions[1].format)
    /\ rowset = IF regions = <<>> THEN <<>> ELSE RowsOf(regions[1], opened, shown)

Next ==
    \/ Move \/ ToggleExpand \/ CollapseOrUp \/ Filter \/ NextRegion
    \/ FollowLink \/ GotoCommand \/ Choose \/ Dismiss \/ As \/ JumpBack \/ JumpForward
    \/ Stage \/ Revert \/ Commit \/ Resize \/ Quit

Spec == Init /\ [][Next]_vars

---------------------------------------------------------------------------
(* Properties.                                                             *)

Resolvable == UNION {Tree[f].lazy : f \in Format}
Roots == [view : 0 .. MaxViews, resolved : SUBSET Resolvable, is : {"none", "tree"}]
Regions == [format : Format, base : Base, root : Roots, sector : {DeviceSector}]
TypeOK ==
    /\ regions \in Seq(Regions)
    /\ HasRegions => region \in DOMAIN regions
    /\ popup \in Base \cup {NoBase} /\ sector \in SectorSizes
    /\ view \in 0 .. MaxViews /\ quit \in {"no", "key", "command", "forced"}

\* The rows on the screen, which are kept from key to key, are the rows of the
\* tree as it is: no key changes tree, expansion, filter or region behind them.
RowsCurrent ==
    HasRegions => rowset = RowsOf(regions[region], opened, shown)

\* "re-parse so the change is visible immediately" (app.rs:416): no tree of any
\* region is older than the bytes seen through the overlay.
TreesCurrent ==
    \A i \in DOMAIN regions : regions[i].root.is = "tree" => regions[i].root.view = view

\* Every anomaly but the blank ones no status speaks of: a gap or a reserved field
\* full of 0xFF, which hide-empty hides.
Noticed(f) == Tree[f].findings \cup (Tree[f].anomalies \ Tree[f].blanks)

\* "A parent is kept when a descendant is anomalous", "a gap holding data is never
\* hidden" (rows.rs): no filter hides a finding that is open, whatever its bytes are,
\* nor another anomaly whose bytes are not all the same blank.
FindingsShown ==
    HasRegions =>
        LET r == regions[region]
        IN  \A n \in Noticed(r.format) :
                /\ Tree[r.format].above[n] \subseteq opened
                /\ Tree[r.format].above[n] \cap Tree[r.format].lazy \subseteq r.root.resolved
                => \E i \in DOMAIN rowset : rowset[i] = n

JumpingBack == back # <<>> /\ back' = Front(back)

\* "Where we came from" (app.rs:39): as long as the sector size is not changed,
\* going back shows the region that was left, whatever was forced in between.
BackToTheRegion ==
    [][JumpingBack /\ Last(back).what[1] # NoBase =>
           <<regions'[region'].format, regions'[region'].base>>
               = <<Last(back).what[1], Last(back).what[2]>>]_vars

\* "then probes the start of anything the resulting table points at"
\* (session.rs:4): a volume an entry of a table found at 0 points at stays a region, whatever
\* is forced or gone to, if it is among the first MaxTargets of them.  The entries of a
\* GPT are not there when it is looked for them.
PartitionsListed ==
    \A f \in {CandidatesAt(0)[k].format : k \in Wanted(0)} : \A n \in Tree[f].probes :
        LET b == Link[f][n]
        IN  /\ b \in Base /\ Tree[f].above[n] \cap Tree[f].lazy = {}
            /\ b # 0 => WithinLimit(b)
            /\ CandidatesAt(b) # <<>> /\ CandidatesAt(b)[1].score >= MinAutoScore
            => \E j \in DOMAIN regions : regions[j].base = b
=============================================================================
