-------------------------- MODULE ChainWalk_proofs --------------------------
(***************************************************************************)
(* For every volume, every limit and every table: a walk keeps the promise *)
(* of ChainGuard, lists places of the volume only, follows the links, and  *)
(* ends for the reason it gives.                                           *)
(***************************************************************************)
EXTENDS ChainWalk, WellFoundedInduction, TLAPS

\* The listing as the guard sees it.
GuardInv ==
    /\ listed \in Seq(Place) /\ Len(listed) <= Limit
    /\ GW!NoRepeats(listed)
    /\ ListedAreReal
    /\ kind = "run" /\ end = "running" => listed = <<>>

\* Where the walk is going: the last place listed leads there.
Heading ==
    Following /\ end = "running" /\ listed # <<>> =>
        /\ Leads(listed[Len(listed)], at)
        /\ kind = "exfat" => InVolume(at)

WalkInv == TypeOK /\ GuardInv /\ Heading /\ ListedIsPath /\ ReasonIsTrue

USE SizesAssumption, MarksAssumption

\* A guard that lets a place pass has room for it and has not seen it.
LEMMA GuardPasses ==
    ASSUME NEW p, TypeOK, Guard(p) = "continue"
    PROVE  Len(listed) < Limit /\ \A i \in DOMAIN listed : listed[i] # p
  BY DEF Guard, TypeOK

\* One that does not, says why.
LEMMA GuardStops ==
    ASSUME NEW p, TypeOK, Guard(p) # "continue"
    PROVE  \/ Guard(p) = "limit" /\ Len(listed) >= Limit
           \/ Guard(p) = "loop" /\ \E i \in DOMAIN listed : listed[i] = p
  BY DEF Guard, TypeOK

\* A place the guard let pass may be listed.
LEMMA ListingKeepsGuardInv ==
    ASSUME TypeOK, GuardInv, InVolume(at), Guard(at) = "continue", List(at),
           kind' = kind, kind # "run"
    PROVE  GuardInv'
  <1>1. Len(listed) < Limit /\ \A i \in DOMAIN listed : listed[i] # at
    BY GuardPasses
  <1>2. at \in Place
    BY DEF InVolume
  <1>3. /\ listed' \in Seq(Place) /\ Len(listed') = Len(listed) + 1
        /\ \A i \in DOMAIN listed : listed'[i] = listed[i]
        /\ listed'[Len(listed) + 1] = at
        /\ DOMAIN listed' = 1 .. Len(listed) + 1 /\ DOMAIN listed = 1 .. Len(listed)
    BY <1>2 DEF List, GuardInv
  <1>4. Len(listed') <= Limit
    BY <1>1, <1>3 DEF GuardInv
  <1>5. GW!NoRepeats(listed)'
    <2>. SUFFICES ASSUME NEW i \in DOMAIN listed', NEW j \in DOMAIN listed', i # j
                  PROVE  listed'[i] # listed'[j]
      BY DEF GW!NoRepeats
    <2>. i \in DOMAIN listed \/ i = Len(listed) + 1
      BY <1>3
    <2>. j \in DOMAIN listed \/ j = Len(listed) + 1
      BY <1>3
    <2>. QED BY <1>1, <1>3 DEF GuardInv, GW!NoRepeats
  <1>6. ListedAreReal'
    <2>. SUFFICES ASSUME NEW i \in DOMAIN listed' PROVE InVolume(listed[i])'
      BY DEF ListedAreReal
    <2>1. CASE i \in DOMAIN listed
      BY <1>3, <2>1 DEF GuardInv, ListedAreReal, InVolume
    <2>2. CASE i = Len(listed) + 1
      BY <1>3, <2>2 DEF InVolume
    <2>. QED BY <1>3, <2>1, <2>2
  <1>. QED BY <1>3, <1>4, <1>5, <1>6 DEF GuardInv

\* Nothing the guard looks at has changed.
LEMMA StoppingKeepsGuardInv ==
    ASSUME GuardInv, UNCHANGED <<listed, kind>>, end = "running" \/ end' = end
    PROVE  GuardInv'
  BY DEF GuardInv, GW!NoRepeats, ListedAreReal, InVolume

---------------------------------------------------------------------------
(* The links.                                                              *)

\* Listing the place the walk was headed for makes the path one longer.
LEMMA ListingKeepsPath ==
    ASSUME TypeOK, GuardInv, Heading, ListedIsPath, InVolume(at), List(at),
           end = "running", UNCHANGED <<kind, table, writes>>
    PROVE  ListedIsPath' /\ listed' # <<>> /\ listed'[Len(listed')] = at
  <1>1. /\ Len(listed') = Len(listed) + 1
        /\ \A i \in 1 .. Len(listed) : listed'[i] = listed[i]
        /\ listed'[Len(listed) + 1] = at
    BY DEF List, GuardInv, InVolume
  <1>2. ListedIsPath'
    <2>. SUFFICES ASSUME Following, NEW i \in 1 .. Len(listed)
                  PROVE  Leads(listed'[i], listed'[i + 1])
      BY <1>1 DEF ListedIsPath, Following, Leads
    <2>1. CASE i = Len(listed)
      <3>1. listed # <<>>
        BY <2>1
      <3>. QED BY <1>1, <2>1, <3>1 DEF Heading
    <2>2. CASE i # Len(listed)
      <3>1. i \in 1 .. Len(listed) - 1 /\ i + 1 \in 1 .. Len(listed)
        BY <2>2 DEF GuardInv
      <3>. QED BY <1>1, <3>1 DEF ListedIsPath
    <2>. QED BY <2>1, <2>2
  <1>. QED BY <1>1, <1>2 DEF GuardInv

\* A walk that stops where the guard stops it, or out of the volume.
LEMMA StoppingKeepsWalk ==
    ASSUME WalkInv, NEW reason, end = "running", Stop(reason),
           UNCHANGED <<kind, table, length, writes>>,
           mismatch' \in BOOLEAN, mismatch' => kind = "exfat" /\ length # NoLength,
           \/ reason = Guard(at) /\ reason # "continue"
           \/ reason = "range" /\ ~InVolume(at)
           \/ reason = "none" /\ ~InVolume(at) /\ kind \in {"exfat", "run"}
    PROVE  WalkInv'
  <1>1. reason \in {"limit", "loop", "range", "none"}
    BY GuardStops DEF WalkInv
  <1>2. TypeOK'
    BY <1>1 DEF WalkInv, TypeOK, Stop, Reason
  <1>3. GuardInv'
    BY StoppingKeepsGuardInv DEF WalkInv, Stop
  <1>4. Heading' /\ ListedIsPath'
    BY <1>1 DEF WalkInv, Heading, ListedIsPath, Following, Leads, Stop
  <1>5. ReasonIsTrue'
    <2>. SUFFICES ASSUME Following, listed # <<>> PROVE ReasonIsTrue'
      BY DEF ReasonIsTrue, Following, Stop
    <2>1. Leads(listed[Len(listed)], at) /\ (kind = "exfat" => InVolume(at))
      BY DEF WalkInv, Heading
    <2>2. CASE reason = "limit"
      <3>1. Len(listed) = Limit
        BY <2>2, GuardStops DEF WalkInv, GuardInv
      <3>. QED BY <2>2, <3>1 DEF ReasonIsTrue, Stop
    <2>3. CASE reason = "loop"
      <3>1. \E i \in DOMAIN listed : listed[i] = at
        BY <2>3, GuardStops DEF WalkInv
      <3>2. \E i \in DOMAIN listed : Leads(listed[Len(listed)], listed[i])
        BY <2>1, <3>1
      <3>. QED BY <2>3, <3>2 DEF ReasonIsTrue, Stop, Leads
    <2>4. CASE reason = "range"
      <3>1. ~InVolume(at)
        BY <2>4, GuardStops DEF WalkInv
      <3>. QED BY <2>4, <3>1 DEF ReasonIsTrue, Stop, InVolume
    <2>5. CASE reason = "none"
      BY <2>1, <2>5, GuardStops DEF WalkInv, Following
    <2>. QED BY <1>1, <2>2, <2>3, <2>4, <2>5
  <1>. QED BY <1>2, <1>3, <1>4, <1>5 DEF WalkInv

\* What the link of the last place has to be for the walk to end there.
EndsAs(reason, p) ==
    CASE reason = "eoc" -> Ends(p) \/ (kind = "ebr" /\ table[p] \notin Number)
      [] reason = "bad" -> table[p] = BadMark
      [] reason = "unreadable" -> table[p] = Lost
      [] reason = "free" -> table[p] = 0
      [] reason = "range" -> kind = "exfat" /\ ~InVolume(table[p])
      [] OTHER -> FALSE

\* A turn that lists the place and either goes on along its link, or ends for
\* what the link says.
LEMMA ListingKeepsWalk ==
    ASSUME WalkInv, end = "running", kind # "run",
           InVolume(at), Guard(at) = "continue", List(at),
           UNCHANGED <<kind, table, length, writes>>,
           mismatch' \in BOOLEAN, mismatch' => kind = "exfat" /\ length # NoLength,
           \/ /\ end' = end /\ at' \in Nat /\ Leads(at, at')
              /\ kind = "exfat" => InVolume(at')
           \/ UNCHANGED at /\ end' # "running" /\ EndsAs(end', at)
    PROVE  WalkInv'
  <1>1. end' \in Reason
    BY DEF WalkInv, TypeOK, EndsAs, Reason
  <1>2. TypeOK'
    BY <1>1 DEF WalkInv, TypeOK, List, InVolume, Place
  <1>3. GuardInv'
    BY ListingKeepsGuardInv DEF WalkInv
  <1>4. ListedIsPath' /\ listed' # <<>> /\ listed'[Len(listed')] = at
    BY ListingKeepsPath DEF WalkInv
  <1>5. CASE end' = end
    <2>1. Leads(at, at') /\ (kind = "exfat" => InVolume(at'))
      BY <1>5
    <2>2. Heading'
      BY <1>4, <2>1 DEF Heading, Leads, InVolume
    <2>3. ReasonIsTrue'
      BY <1>5 DEF ReasonIsTrue
    <2>. QED BY <1>2, <1>3, <1>4, <2>2, <2>3 DEF WalkInv
  <1>6. CASE end' # "running"
    <2>1. EndsAs(end', at)
      BY <1>6
    <2>2. Heading'
      BY <1>6 DEF Heading
    <2>3. ReasonIsTrue'
      BY <1>4, <1>6, <2>1 DEF ReasonIsTrue, EndsAs, Ends, InVolume
    <2>. QED BY <1>2, <1>3, <1>4, <2>2, <2>3 DEF WalkInv
  <1>. QED BY <1>5, <1>6

---------------------------------------------------------------------------
(* The turns.                                                              *)

LEMMA FatTurnKeepsWalk == WalkInv /\ FatTurn => WalkInv'
  <1>. SUFFICES ASSUME WalkInv, FatTurn PROVE WalkInv'
    OBVIOUS
  <1>1. kind = "fat" /\ end = "running" /\ UNCHANGED <<kind, table, length, mismatch, writes>>
    BY DEF FatTurn
  <1>2. mismatch' \in BOOLEAN /\ (mismatch' => kind = "exfat" /\ length # NoLength)
    BY <1>1 DEF WalkInv, TypeOK
  <1>3. CASE ~InVolume(at) /\ Stop("range")
    BY <1>1, <1>2, <1>3, StoppingKeepsWalk
  <1>4. CASE InVolume(at) /\ Guard(at) # "continue" /\ Stop(Guard(at))
    BY <1>1, <1>2, <1>4, StoppingKeepsWalk
  <1>5. CASE /\ InVolume(at) /\ Guard(at) = "continue" /\ List(at)
             /\ table[at] \in Number \ {0} /\ GoTo(table[at])
    <2>1. Leads(at, at') /\ at' \in Nat /\ end' = end
      BY <1>1, <1>5 DEF GoTo, Leads, Number
    <2>. QED BY <1>1, <1>2, <1>5, <2>1, ListingKeepsWalk
  <1>6. CASE /\ InVolume(at) /\ Guard(at) = "continue" /\ List(at)
             /\ table[at] \notin Number \ {0} /\ EndAt(ReasonOf(table[at]))
    <2>1. table[at] \in {0, EndMark, BadMark, Lost}
      BY <1>6 DEF WalkInv, TypeOK, InVolume, Link
    <2>2. EndsAs(end', at) /\ end' # "running" /\ UNCHANGED at
      BY <1>1, <1>6, <2>1 DEF EndAt, ReasonOf, EndsAs, Ends, Number
    <2>. QED BY <1>1, <1>2, <1>6, <2>2, ListingKeepsWalk
  <1>. QED BY <1>3, <1>4, <1>5, <1>6 DEF FatTurn

LEMMA ExfatTurnKeepsWalk == WalkInv /\ ExfatTurn => WalkInv'
  <1>. SUFFICES ASSUME WalkInv, ExfatTurn PROVE WalkInv'
    OBVIOUS
  <1>1. kind = "exfat" /\ end = "running" /\ UNCHANGED <<kind, table, length, writes>>
    BY DEF ExfatTurn
  <1>2. mismatch' \in BOOLEAN /\ (mismatch' => kind = "exfat" /\ length # NoLength)
    <2>1. \/ UNCHANGED mismatch
          \/ mismatch' = Declared(Len(listed))
          \/ mismatch' = Declared(Len(listed'))
      BY DEF ExfatTurn
    <2>2. CASE UNCHANGED mismatch
      BY <1>1, <2>2 DEF WalkInv, TypeOK
    <2>3. ASSUME NEW n, mismatch' = Declared(n)
          PROVE  mismatch' \in BOOLEAN /\ (mismatch' => length # NoLength)
      BY <2>3, Zenon DEF Declared
    <2>. QED BY <1>1, <2>1, <2>2, <2>3
  <1>3. CASE at = 0 /\ Stop("none")
    BY <1>1, <1>2, <1>3, StoppingKeepsWalk DEF InVolume
  <1>4. CASE ~InVolume(at) /\ Stop("range")
    BY <1>1, <1>2, <1>4, StoppingKeepsWalk
  <1>5. CASE InVolume(at) /\ Guard(at) # "continue" /\ Stop(Guard(at))
    BY <1>1, <1>2, <1>5, StoppingKeepsWalk
  <1>6. CASE /\ InVolume(at) /\ Guard(at) = "continue" /\ List(at)
             /\ table[at] \in Number /\ InVolume(table[at]) /\ GoTo(table[at])
    <2>1. Leads(at, at') /\ at' \in Nat /\ end' = end /\ InVolume(at')
      BY <1>1, <1>6 DEF GoTo, Leads, Number
    <2>. QED BY <1>1, <1>2, <1>6, <2>1, ListingKeepsWalk
  <1>7. CASE /\ InVolume(at) /\ Guard(at) = "continue" /\ List(at)
             /\ ~(table[at] \in Number /\ InVolume(table[at]))
             /\ EndAt(IF table[at] \in Number \ {0} THEN "range" ELSE ReasonOf(table[at]))
    <2>1. CASE table[at] \in Number \ {0}
      BY <1>1, <1>2, <1>7, <2>1, ListingKeepsWalk DEF EndAt, EndsAs
    <2>2. CASE table[at] \notin Number \ {0}
      <3>1. table[at] \in {0, EndMark, BadMark, Lost}
        BY <1>7, <2>2 DEF WalkInv, TypeOK, InVolume, Link
      <3>2. EndsAs(end', at) /\ end' # "running" /\ UNCHANGED at
        BY <1>1, <1>7, <2>2, <3>1 DEF EndAt, ReasonOf, EndsAs, Ends, Number
      <3>. QED BY <1>1, <1>2, <1>7, <3>2, ListingKeepsWalk
    <2>. QED BY <2>1, <2>2
  <1>. QED BY <1>3, <1>4, <1>5, <1>6, <1>7 DEF ExfatTurn

LEMMA EbrTurnKeepsWalk == WalkInv /\ EbrTurn => WalkInv'
  <1>. SUFFICES ASSUME WalkInv, EbrTurn PROVE WalkInv'
    OBVIOUS
  <1>1. kind = "ebr" /\ end = "running" /\ UNCHANGED <<kind, table, length, mismatch, writes>>
    BY DEF EbrTurn
  <1>2. mismatch' \in BOOLEAN /\ (mismatch' => kind = "exfat" /\ length # NoLength)
    BY <1>1 DEF WalkInv, TypeOK
  <1>3. CASE Guard(at) # "continue" /\ Stop(Guard(at))
    BY <1>1, <1>2, <1>3, StoppingKeepsWalk
  <1>4. CASE ~InVolume(at) /\ Stop("range")
    BY <1>1, <1>2, <1>4, StoppingKeepsWalk
  <1>5. CASE /\ Guard(at) = "continue" /\ InVolume(at) /\ List(at)
             /\ table[at] \in Number \ {0} /\ GoTo(NextEbr(table[at]))
    <2>1. Leads(at, at') /\ at' \in Nat /\ end' = end
      BY <1>1, <1>5 DEF GoTo, Leads, Number, NextEbr
    <2>. QED BY <1>1, <1>2, <1>5, <2>1, ListingKeepsWalk
  <1>6. CASE /\ Guard(at) = "continue" /\ InVolume(at) /\ List(at)
             /\ table[at] \notin Number \ {0} /\ EndAt("eoc")
    <2>1. EndsAs(end', at) /\ end' # "running" /\ UNCHANGED at
      BY <1>1, <1>6 DEF EndAt, EndsAs, Ends
    <2>. QED BY <1>1, <1>2, <1>6, <2>1, ListingKeepsWalk
  <1>. QED BY <1>3, <1>4, <1>5, <1>6 DEF EbrTurn

\* An extent is as long as the limit and the volume allow.
LEMMA ExtentFits ==
    ASSUME TypeOK, InVolume(at), NEW n \in Nat
    PROVE  /\ Extent(n) \in 1 .. Limit
           /\ \A i \in 1 .. Extent(n) : at + i - 1 \in at .. LastPlace
  BY DEF Extent, Smaller, InVolume, TypeOK, Place

LEMMA RunTurnKeepsWalk == WalkInv /\ RunTurn => WalkInv'
  <1>. SUFFICES ASSUME WalkInv, RunTurn PROVE WalkInv'
    OBVIOUS
  <1>1. kind = "run" /\ end = "running" /\ UNCHANGED <<kind, table, length, mismatch, writes>>
    BY DEF RunTurn
  <1>2. mismatch' \in BOOLEAN /\ (mismatch' => kind = "exfat" /\ length # NoLength)
    BY <1>1 DEF WalkInv, TypeOK
  <1>3. CASE at = 0 /\ Stop("none")
    BY <1>1, <1>2, <1>3, StoppingKeepsWalk DEF InVolume
  <1>4. CASE ~InVolume(at) /\ Stop("range")
    BY <1>1, <1>2, <1>4, StoppingKeepsWalk
  <1>5. ASSUME NEW n \in Nat, InVolume(at), UNCHANGED at, end' \in {"range", "eoc"},
               listed' = [i \in 1 .. Extent(n) |-> at + i - 1]
        PROVE  WalkInv'
    <2>1. /\ Extent(n) \in 1 .. Limit
          /\ \A i \in 1 .. Extent(n) : at + i - 1 \in at .. LastPlace
      BY <1>5, ExtentFits DEF WalkInv
    <2>2. at \in Nat /\ at >= 2
      BY <1>1, <1>5 DEF InVolume, Place
    <2>3. listed' \in Seq(Place) /\ Len(listed') = Extent(n) /\ DOMAIN listed' = 1 .. Extent(n)
      <3>1. \A i \in 1 .. Extent(n) : at + i - 1 \in Place
        BY <2>1, <2>2 DEF Place
      <3>. QED BY <1>5, <2>1, <3>1
    <2>4. TypeOK'
      BY <1>1, <1>2, <1>5, <2>3 DEF WalkInv, TypeOK, Reason, Place
    <2>5. GW!NoRepeats(listed)'
      BY <1>5, <2>1, <2>2, <2>3 DEF GW!NoRepeats
    <2>6. ListedAreReal'
      <3>. SUFFICES ASSUME NEW i \in 1 .. Extent(n) PROVE InVolume(listed[i])'
        BY <2>3 DEF ListedAreReal
      <3>1. listed'[i] = at + i - 1 /\ listed'[i] \in at .. LastPlace
        BY <1>5, <2>1
      <3>. QED BY <1>1, <2>2, <3>1 DEF InVolume, Place
    <2>7. GuardInv'
      BY <1>5, <2>1, <2>3, <2>5, <2>6 DEF GuardInv
    <2>8. Heading' /\ ListedIsPath' /\ ReasonIsTrue'
      BY <1>1 DEF Heading, ListedIsPath, ReasonIsTrue, Following
    <2>. QED BY <2>4, <2>7, <2>8 DEF WalkInv
  <1>6. CASE ~(at = 0 /\ Stop("none")) /\ ~(~InVolume(at) /\ Stop("range"))
    <2>. DEFINE n == IF length = NoLength THEN 1 ELSE length
    <2>1. n \in Nat
      BY DEF WalkInv, TypeOK, Number
    <2>2. /\ InVolume(at) /\ listed' = [i \in 1 .. Extent(n) |-> at + i - 1]
          /\ UNCHANGED at /\ end' \in {"range", "eoc"}
      BY <1>6 DEF RunTurn, EndAt
    <2>. HIDE DEF n
    <2>. QED BY <1>5, <2>1, <2>2
  <1>. QED BY <1>3, <1>4, <1>6

LEMMA WriteKeepsWalk == WalkInv /\ Write => WalkInv'
  <1>. SUFFICES ASSUME WalkInv, Write PROVE WalkInv'
    OBVIOUS
  <1>1. /\ UNCHANGED <<kind, length, at, listed, end, mismatch>>
        /\ writes' = writes + 1 /\ end = "running"
    BY DEF Write
  <1>2. table' \in [Place -> Link]
    BY DEF Write, WalkInv, TypeOK, LinkHere, Linked
  <1>3. TypeOK'
    BY <1>1, <1>2 DEF WalkInv, TypeOK
  <1>4. GuardInv'
    BY <1>1, StoppingKeepsGuardInv DEF WalkInv
  <1>5. ~Following'
    BY <1>1 DEF WalkInv, TypeOK, Following
  <1>6. Heading' /\ ListedIsPath' /\ ReasonIsTrue'
    BY <1>5 DEF Heading, ListedIsPath, ReasonIsTrue
  <1>. QED BY <1>3, <1>4, <1>6 DEF WalkInv

---------------------------------------------------------------------------
(* The specification.                                                      *)

LEMMA InitWalk == Init => WalkInv
  <1>. SUFFICES ASSUME Init PROVE WalkInv
    OBVIOUS
  <1>1. TypeOK
    <2>1. table \in [Place -> Link]
      BY DEF Init, Link, LinkHere, Linked, Number
    <2>2. at \in Nat /\ length \in Number \cup {NoLength}
      BY DEF Init, Number
    <2>3. mismatch \in BOOLEAN /\ ~mismatch
      BY DEF Init
    <2>4. kind \in Kind /\ listed \in Seq(Nat) /\ end \in Reason /\ writes \in Nat
      BY DEF Init, Reason
    <2>. QED BY <2>1, <2>2, <2>3, <2>4 DEF TypeOK
  <1>2. listed = <<>> /\ end = "running"
    BY DEF Init
  <1>3. GuardInv
    BY <1>2 DEF GuardInv, GW!NoRepeats, ListedAreReal
  <1>4. Heading /\ ListedIsPath /\ ReasonIsTrue
    BY <1>2 DEF Heading, ListedIsPath, ReasonIsTrue
  <1>. QED BY <1>1, <1>3, <1>4 DEF WalkInv

LEMMA NextKeepsWalk == WalkInv /\ [Next]_vars => WalkInv'
  <1>. SUFFICES ASSUME WalkInv, [Next]_vars PROVE WalkInv'
    OBVIOUS
  <1>1. CASE Turn
    BY <1>1, FatTurnKeepsWalk, ExfatTurnKeepsWalk, RunTurnKeepsWalk, EbrTurnKeepsWalk DEF Turn
  <1>2. CASE Write
    BY <1>2, WriteKeepsWalk
  <1>3. CASE UNCHANGED vars
    BY <1>3 DEF vars, WalkInv, TypeOK, GuardInv, GW!NoRepeats, ListedAreReal, InVolume,
               Heading, ListedIsPath, ReasonIsTrue, Following, Leads, Ends
  <1>. QED BY <1>1, <1>2, <1>3 DEF Next

\* The inductive invariant holds in every state of every walk.
THEOREM WalkCorrect == Spec => []WalkInv
  <1>. QED BY InitWalk, NextKeepsWalk, PTL DEF Spec

\* Whatever the links say and whoever writes meanwhile, only clusters of the
\* volume, or sectors of the device, are listed (cluster_in_range).
THEOREM AlwaysReal == Spec => []ListedAreReal
  <1>1. WalkInv => ListedAreReal
    BY DEF WalkInv, GuardInv
  <1>. QED BY <1>1, WalkCorrect, PTL

\* On a device that does not change, what is listed is a path along the links.
THEOREM AlwaysPath == Spec => []ListedIsPath
  <1>1. WalkInv => ListedIsPath
    BY DEF WalkInv
  <1>. QED BY <1>1, WalkCorrect, PTL

\* And the walk ended for the reason it reports (ChainEnd).
THEOREM AlwaysTrueReason == Spec => []ReasonIsTrue
  <1>1. WalkInv => ReasonIsTrue
    BY DEF WalkInv
  <1>. QED BY <1>1, WalkCorrect, PTL

\* A turn takes nothing back.
LEMMA TurnExtends ==
    ASSUME WalkInv, Turn
    PROVE  end = "running" /\ GW!Extends(listed', listed)
  <1>1. end = "running"
    BY DEF Turn, FatTurn, ExfatTurn, RunTurn, EbrTurn
  <1>2. CASE UNCHANGED listed
    BY <1>1, <1>2 DEF GW!Extends, WalkInv, GuardInv
  <1>3. CASE List(at) /\ InVolume(at)
    BY <1>1, <1>3 DEF List, GW!Extends, WalkInv, GuardInv, InVolume
  <1>4. CASE kind = "run" /\ \E n \in Nat : /\ InVolume(at)
                                          /\ listed' = [i \in 1 .. Extent(n) |-> at + i - 1]
    <2>1. PICK n \in Nat : InVolume(at) /\ listed' = [i \in 1 .. Extent(n) |-> at + i - 1]
      BY <1>4
    <2>2. Extent(n) \in Nat
      BY <2>1, ExtentFits DEF WalkInv
    <2>3. listed = <<>>
      BY <1>1, <1>4 DEF WalkInv, GuardInv
    <2>4. Len(listed') \in Nat
      <3>1. \A i \in 1 .. Extent(n) : at + i - 1 \in Nat
        BY <2>1, <2>2, SizesAssumption DEF InVolume, Place
      <3>2. listed' \in Seq(Nat)
        BY <2>1, <2>2, <3>1
      <3>. QED BY <3>2
    <2>. QED BY <1>1, <2>3, <2>4 DEF GW!Extends
  <1>5. RunTurn => \/ UNCHANGED listed
                   \/ kind = "run" /\ \E n \in Nat :
                          InVolume(at) /\ listed' = [i \in 1 .. Extent(n) |-> at + i - 1]
    <2>. SUFFICES ASSUME RunTurn, ~UNCHANGED listed
                  PROVE  kind = "run" /\ \E n \in Nat :
                             InVolume(at) /\ listed' = [i \in 1 .. Extent(n) |-> at + i - 1]
      OBVIOUS
    <2>. DEFINE n == IF length = NoLength THEN 1 ELSE length
    <2>1. n \in Nat
      BY DEF WalkInv, TypeOK, Number
    <2>2. kind = "run" /\ InVolume(at) /\ listed' = [i \in 1 .. Extent(n) |-> at + i - 1]
      BY DEF RunTurn, Stop
    <2>. HIDE DEF n
    <2>. QED BY <2>1, <2>2
  <1>6. FatTurn \/ ExfatTurn \/ EbrTurn => UNCHANGED listed \/ (List(at) /\ InVolume(at))
    BY DEF FatTurn, ExfatTurn, EbrTurn, Stop
  <1>. QED BY <1>2, <1>3, <1>4, <1>5, <1>6 DEF Turn

\* Every walk implements the guarded walk: nothing is visited twice, nothing
\* beyond the limit, and a walk that has ended stays as it is.
THEOREM Refinement == Spec => ImplementsGuardedWalk
  <1>1. Init => GW!Init
    BY DEF Init, GW!Init
  <1>2. WalkInv /\ WalkInv' /\ [Next]_vars => [GW!Next]_(GW!vars)
    <2>. SUFFICES ASSUME WalkInv, WalkInv', [Next]_vars PROVE [GW!Next]_(GW!vars)
      OBVIOUS
    <2>1. CASE Turn
      BY <2>1, TurnExtends DEF GW!Next, WalkInv, GuardInv
    <2>2. CASE Write
      BY <2>2 DEF Write, GW!vars
    <2>3. CASE UNCHANGED vars
      BY <2>3 DEF vars, GW!vars
    <2>. QED BY <2>1, <2>2, <2>3 DEF Next
  <1>. QED BY <1>1, <1>2, WalkCorrect, PTL DEF Spec, GW!Spec, ImplementsGuardedWalk
---------------------------------------------------------------------------
(* The whole chain.                                                        *)

\* What was cut short had a link to go on along, and a walk along boot records
\* never reports a free entry.
CutInv ==
    Following /\ listed # <<>> =>
        /\ end \in {"limit", "loop", "range"} =>
               \E q \in Nat : Leads(listed[Len(listed)], q)
                             /\ (end = "range" => ~InVolume(q))
        /\ end = "free" => kind # "ebr"

LEMMA NextKeepsCut == WalkInv /\ WalkInv' /\ CutInv /\ [Next]_vars => CutInv'
  <1>. SUFFICES ASSUME WalkInv, WalkInv', CutInv, [Next]_vars, Following', listed' # <<>>
                PROVE  CutInv'
    BY DEF CutInv
  <1>1. CASE UNCHANGED vars
    BY <1>1 DEF vars, CutInv, Following, Leads, InVolume
  <1>2. CASE Write
    BY <1>2 DEF Write, WalkInv, TypeOK, Following
  <1>3. ASSUME Turn PROVE CutInv'
    <2>1. /\ UNCHANGED <<kind, table, writes>> /\ kind # "run" /\ end = "running"
          /\ Following
      BY <1>3 DEF Turn, FatTurn, ExfatTurn, RunTurn, EbrTurn, Following
    <2>2. ASSUME NEW reason, Stop(reason), reason = "range" => ~InVolume(at), reason # "free"
          PROVE  CutInv'
      <3>1. Leads(listed[Len(listed)], at) /\ at \in Nat
        BY <2>1, <2>2 DEF WalkInv, Heading, Stop, TypeOK
      <3>. QED BY <2>1, <2>2, <3>1 DEF CutInv, Stop, Leads, InVolume
    <2>3. ASSUME List(at), InVolume(at), end' \notin {"limit", "loop", "range", "free"}
          PROVE  CutInv'
      BY <2>3 DEF CutInv
    <2>4. CASE FatTurn
      <3>1. CASE ~InVolume(at) /\ Stop("range")
        BY <2>2, <3>1
      <3>2. CASE InVolume(at) /\ Guard(at) # "continue" /\ Stop(Guard(at))
        BY <2>2, <3>2, GuardStops DEF WalkInv
      <3>3. CASE InVolume(at) /\ Guard(at) = "continue" /\ List(at)
        <4>1. end' \notin {"limit", "loop", "range"}
          BY <2>1, <2>4, <3>3 DEF FatTurn, GoTo, EndAt, ReasonOf
        <4>. QED BY <2>4, <4>1 DEF CutInv, FatTurn
      <3>. QED BY <2>4, <3>1, <3>2, <3>3 DEF FatTurn
    <2>5. CASE EbrTurn
      <3>1. CASE ~InVolume(at) /\ Stop("range")
        BY <2>2, <3>1
      <3>2. CASE Guard(at) # "continue" /\ Stop(Guard(at))
        BY <2>2, <3>2, GuardStops DEF WalkInv
      <3>3. CASE InVolume(at) /\ Guard(at) = "continue" /\ List(at)
        <4>1. end' \in {"running", "eoc"}
          BY <2>1, <2>5, <3>3 DEF EbrTurn, GoTo, EndAt
        <4>. QED BY <4>1 DEF CutInv
      <3>. QED BY <2>5, <3>1, <3>2, <3>3 DEF EbrTurn
    <2>6. CASE ExfatTurn
      <3>1. CASE ~InVolume(at) /\ (Stop("none") \/ Stop("range"))
        BY <2>2, <3>1
      <3>2. CASE InVolume(at) /\ Guard(at) # "continue" /\ Stop(Guard(at))
        BY <2>2, <3>2, GuardStops DEF WalkInv
      <3>3. CASE InVolume(at) /\ Guard(at) = "continue" /\ List(at)
        <4>1. listed'[Len(listed')] = at
          BY <2>1, <3>3, ListingKeepsPath DEF WalkInv
        <4>2. \/ end' \in {"running", "eoc", "bad", "unreadable", "free"}
              \/ end' = "range" /\ table[at] \in Number /\ ~InVolume(table[at])
          <5>1. at # 0
            BY <2>6, <3>3 DEF ExfatTurn, InVolume
          <5>. QED BY <2>1, <2>6, <3>3, <5>1 DEF ExfatTurn, GoTo, EndAt, ReasonOf
        <4>3. end' = "range" => Leads(at, table[at]) /\ table[at] \in Nat
          BY <2>6, <4>2 DEF ExfatTurn, Leads, Number
        <4>. QED BY <2>1, <2>6, <4>1, <4>2, <4>3 DEF CutInv, ExfatTurn, Leads, InVolume
      <3>. QED BY <2>6, <3>1, <3>2, <3>3 DEF ExfatTurn, InVolume
    <2>. QED BY <1>3, <2>1, <2>4, <2>5, <2>6 DEF Turn, RunTurn
  <1>. QED BY <1>1, <1>2, <1>3 DEF Next

\* A link leads to one place, and the end of a chain to none.
LEMMA LeadsOnce ==
    ASSUME NEW p, NEW q, NEW r, Leads(p, q)
    PROVE  /\ Leads(p, r) => q = r
           /\ ~Ends(p)
  BY DEF Leads, Ends

\* A set of numbers that has one, has a least one.
LEMMA LeastNumber ==
    ASSUME NEW S \in SUBSET Nat, S # {}
    PROVE  \E n \in S : \A m \in S : n <= m
  <1>1. PICK n \in S : \A m \in S : ~ (<<m, n>> \in OpToRel(<, Nat))
    BY NatLessThanWellFounded, WFMin
  <1>2. \A m \in S : ~ (m < n)
    BY <1>1 DEF OpToRel
  <1>. QED BY <1>2

\* Two paths along the same links from the same place are one.
LEMMA PathsAgree ==
    ASSUME NEW s \in Seq(Nat), NEW t \in Seq(Nat), s # <<>>, t # <<>>, s[1] = t[1],
           \A i \in 1 .. Len(s) - 1 : Leads(s[i], s[i + 1]),
           \A i \in 1 .. Len(t) - 1 : Leads(t[i], t[i + 1])
    PROVE  \A i \in 1 .. Len(s) : i <= Len(t) => s[i] = t[i]
  <1>. DEFINE Apart == {i \in 1 .. Len(s) : i <= Len(t) /\ s[i] # t[i]}
  <1>. SUFFICES ASSUME Apart # {} PROVE FALSE
    OBVIOUS
  <1>1. Apart \in SUBSET Nat
    OBVIOUS
  <1>2. PICK i \in Apart : \A m \in Apart : i <= m
    <2>. HIDE DEF Apart
    <2>. QED BY <1>1, LeastNumber
  <1>3. i \in 1 .. Len(s) /\ i <= Len(t) /\ s[i] # t[i] /\ i # 1
    OBVIOUS
  <1>4. i - 1 \in 1 .. Len(s) - 1 /\ i - 1 \in 1 .. Len(t) - 1 /\ i - 1 \notin Apart
    <2>1. i \in Nat /\ i >= 2 /\ Len(s) \in Nat /\ Len(t) \in Nat
      BY <1>3
    <2>2. i - 1 \notin Apart
      <3>. HIDE DEF Apart
      <3>. QED BY <1>1, <1>2, <2>1
    <2>. QED BY <1>3, <2>1, <2>2
  <1>5. s[i - 1] = t[i - 1]
    BY <1>3, <1>4
  <1>6. Leads(s[i - 1], s[i - 1 + 1]) /\ Leads(t[i - 1], t[i - 1 + 1])
    BY <1>4
  <1>7. i - 1 + 1 = i
    BY <1>3
  <1>. QED BY <1>3, <1>5, <1>6, <1>7, LeadsOnce

LEMMA ChainListed == WalkInv /\ CutInv => WholeChainListed
  <1>. SUFFICES ASSUME WalkInv, CutInv, Following, end # "running", listed # <<>>,
                       NEW chain \in Orders, Encodes(listed[1], chain), Len(chain) <= Limit
                PROVE  listed = chain /\ end = "eoc"
    BY DEF WholeChainListed
  <1>. DEFINE n == Len(listed)
              m == Len(chain)
  <1>1. chain \in Seq(Nat) /\ chain # <<>> /\ m \in Nat /\ m >= 1
    BY DEF Orders, Place, Encodes
  <1>2. listed \in Seq(Nat) /\ n \in Nat /\ n >= 1 /\ DOMAIN listed = 1 .. n
    BY DEF WalkInv, TypeOK
  <1>3. \A i \in 1 .. n : i <= m => listed[i] = chain[i]
    BY <1>1, <1>2, PathsAgree DEF Encodes, WalkInv, ListedIsPath
  <1>. DEFINE last == listed[n]
  <1>4. n <= m
    <2>. SUFFICES ASSUME m < n PROVE FALSE
      BY <1>1, <1>2
    <2>1. m \in 1 .. n - 1
      BY <1>1, <1>2
    <2>2. Leads(listed[m], listed[m + 1])
      BY <2>1 DEF WalkInv, ListedIsPath
    <2>3. listed[m] = chain[m] /\ Ends(chain[m])
      BY <1>1, <1>2, <1>3, <2>1 DEF Encodes
    <2>. QED BY <2>2, <2>3, LeadsOnce
  <1>5. last = chain[n]
    BY <1>2, <1>3, <1>4
  <1>6. n = m
    <2>. SUFFICES ASSUME n < m PROVE FALSE
      BY <1>1, <1>2, <1>4
    <2>1. n \in 1 .. m - 1 /\ n + 1 \in 1 .. m /\ DOMAIN chain = 1 .. m
      BY <1>1, <1>2
    <2>2. Leads(last, chain[n + 1])
      BY <1>5, <2>1 DEF Encodes
    <2>3. InVolume(chain[n + 1])
      BY <2>1 DEF Encodes
    <2>4. end \notin {"range"}
      <3>. SUFFICES ASSUME end = "range" PROVE FALSE
        OBVIOUS
      <3>1. PICK q \in Nat : Leads(last, q) /\ ~InVolume(q)
        BY DEF CutInv
      <3>. QED BY <2>2, <2>3, <3>1, LeadsOnce
    <2>5. ~Ends(last) /\ table[last] \in Number /\ (kind = "ebr" => table[last] # 0)
      BY <2>2, LeadsOnce DEF Leads
    <2>6. end \notin {"eoc", "bad", "unreadable"}
      BY <2>5 DEF WalkInv, ReasonIsTrue
    <2>7. end # "free"
      <3>. SUFFICES ASSUME end = "free" PROVE FALSE
        OBVIOUS
      <3>1. kind # "ebr" /\ table[last] = 0
        BY DEF CutInv, WalkInv, ReasonIsTrue
      <3>2. chain[n + 1] = 0
        BY <2>2, <3>1 DEF Leads
      <3>. QED BY <2>3, <3>1, <3>2 DEF InVolume
    <2>8. end # "limit"
      BY <1>2 DEF WalkInv, ReasonIsTrue
    <2>9. end # "loop"
      <3>. SUFFICES ASSUME end = "loop" PROVE FALSE
        OBVIOUS
      <3>1. PICK i \in DOMAIN listed : Leads(last, listed[i])
        BY DEF WalkInv, ReasonIsTrue
      <3>2. chain[i] = chain[n + 1]
        BY <1>2, <1>3, <1>4, <2>2, <3>1, LeadsOnce
      <3>3. i \in DOMAIN chain /\ n + 1 \in DOMAIN chain /\ i # n + 1
        BY <1>2, <1>4, <2>1
      <3>. QED BY <3>2, <3>3 DEF Encodes, GW!NoRepeats
    <2>. QED BY <2>4, <2>6, <2>7, <2>8, <2>9 DEF WalkInv, ReasonIsTrue
  <1>7. Ends(last)
    BY <1>5, <1>6 DEF Encodes
  <1>8. \A q : ~Leads(last, q)
    BY <1>7, LeadsOnce
  <1>9. end = "eoc"
    <2>1. end \notin {"limit", "loop", "range"}
      <3>. SUFFICES ASSUME end \in {"limit", "loop", "range"} PROVE FALSE
        OBVIOUS
      <3>1. PICK q \in Nat : Leads(last, q)
        BY DEF CutInv
      <3>. QED BY <1>8, <3>1
    <2>2. end \notin {"bad", "unreadable"}
      BY <1>7 DEF WalkInv, ReasonIsTrue, Ends, Number
    <2>3. end # "free"
      BY <1>7 DEF WalkInv, ReasonIsTrue, CutInv, Ends, Number
    <2>. QED BY <2>1, <2>2, <2>3 DEF WalkInv, ReasonIsTrue
  <1>10. listed = chain
    <2>1. \A i \in 1 .. n : listed[i] = chain[i]
      BY <1>3, <1>4, <1>2
    <2>. QED BY <1>1, <1>2, <1>6, <2>1
  <1>. QED BY <1>9, <1>10

\* On a device that does not change, a chain that somebody laid out properly
\* and that is not longer than the limit is listed to its end and in order,
\* whichever of the three kinds of links it is (follow_chain, cluster_chain,
\* walk_ebr_chain).
THEOREM AlwaysWholeChain == Spec => []WholeChainListed
  <1>1. Init => CutInv
    BY DEF Init, CutInv
  <1>2. WalkInv /\ WalkInv' /\ CutInv /\ [Next]_vars => CutInv'
    BY NextKeepsCut
  <1>3. WalkInv /\ CutInv => WholeChainListed
    BY ChainListed
  <1>. QED BY <1>1, <1>2, <1>3, WalkCorrect, PTL DEF Spec
=============================================================================
