------------------------- MODULE GptTables_proofs -------------------------
(***************************************************************************)
(* That a report without a finding speaks of one table, for every device,  *)
(* all tables and any damage; that nothing is reported of a whole table,   *)
(* and that a whole copy is read, wherever it lies, if nobody writes.      *)
(*                                                                         *)
(* The inductive invariant says where sound checksums come from: a header  *)
(* whose checksum is right is one that a tool wrote for some table, but    *)
(* for what stands behind it in its sector.                                *)
(***************************************************************************)
EXTENDS GptTables, Selection_proofs, TLAPS

\* A header with whatever stands behind it.
Padded(h, padding) == [h EXCEPT !.padding = padding]

WrittenFor(t, h) ==
    \E padding \in BOOLEAN :
        h = Padded(PrimaryHeader(t), padding) \/ h = Padded(BackupHeader(t), padding)

Traced(h) ==
    /\ "genuine" \in DOMAIN h
    /\ h.genuine => \E t \in Tables : WrittenFor(t, h)

SectorsInv == \A l \in DOMAIN sector : sector[l].kind = "header" => Traced(sector[l])
HeadersInv == Traced(pf) /\ Traced(bf)
PlaceInv == stage \in {"backup", "backup header", "backup array", "open"} =>
                blba = LastLba \/ blba = pf.alt

ReadStates == {"overflow", "empty", "too long", "outside", "unreadable", "read"}
ReadFor(f, bytes) ==
    bytes.state \in ReadStates /\ (bytes.state = "overflow" => LbaToByte(f.lba) > MaxWord)
ArraysInv ==
    /\ stage \notin {"closed", "probed", "header"} => ReadFor(pf, pbytes)
    /\ stage \in {"backup array", "open"} => ReadFor(bf, bbytes)

ToolInv == todo \subseteq Pieces /\ target \in Tables

GptInv == SectorsInv /\ HeadersInv /\ PlaceInv /\ ArraysInv /\ ToolInv

---------------------------------------------------------------------------
(* Headers as functions.                                                   *)

LEMMA HeaderHasSum ==
    ASSUME NEW t, NEW my, NEW alt, NEW lba
    PROVE  {"genuine", "padding"} \subseteq DOMAIN Header(t, my, alt, lba)
  BY DEF Header

LEMMA PaddedAsIs ==
    ASSUME NEW h, h = [x \in DOMAIN h |-> h[x]], NEW v, h.padding = v
    PROVE  Padded(h, v) = h
  BY DEF Padded

LEMMA PaddedHeader ==
    ASSUME NEW t, NEW my, NEW alt, NEW lba, NEW v, v = FALSE
    PROVE  Padded(Header(t, my, alt, lba), v) = Header(t, my, alt, lba)
<1> DEFINE h == Header(t, my, alt, lba)
<1>1. h.padding = v
  BY DEF Header
<1>2. h = [x \in DOMAIN h |-> h[x]]
  BY DEF Header
<1> HIDE DEF h
<1>3. Padded(h, v) = h
  BY <1>1, <1>2, PaddedAsIs
<1> QED
  BY <1>3 DEF h

LEMMA WrittenAsIs ==
    ASSUME NEW t
    PROVE  WrittenFor(t, PrimaryHeader(t)) /\ WrittenFor(t, BackupHeader(t))
<1> DEFINE v == FALSE
<1>1. v \in BOOLEAN /\ v = FALSE
  OBVIOUS
<1> HIDE DEF v
<1>2. /\ Padded(PrimaryHeader(t), v) = PrimaryHeader(t)
      /\ Padded(BackupHeader(t), v) = BackupHeader(t)
  BY <1>1, PaddedHeader DEF PrimaryHeader, BackupHeader
<1> QED
  BY <1>1, <1>2 DEF WrittenFor

---------------------------------------------------------------------------
(* What is written, read and damaged stays traced.                         *)

\* What a tool writes is traced to the table it was written for.
LEMMA PiecesTraced ==
    ASSUME NEW t \in Tables, NEW piece \in Pieces, NEW l,
           Content(t, piece, l).kind = "header"
    PROVE  Traced(Content(t, piece, l))
<1>1. piece \in {"header", "backup header"}
  BY DEF Content, Pieces, ProtectiveMbr, Mbr, ArraySector
<1>2. Content(t, piece, l) \in {PrimaryHeader(t), BackupHeader(t)}
  BY <1>1 DEF Content
<1>3. WrittenFor(t, Content(t, piece, l))
  BY <1>2, WrittenAsIs
<1>4. "genuine" \in DOMAIN PrimaryHeader(t) /\ "genuine" \in DOMAIN BackupHeader(t)
  BY HeaderHasSum DEF PrimaryHeader, BackupHeader
<1> QED
  BY <1>2, <1>3, <1>4 DEF Traced

LEMMA ReadTraced ==
    ASSUME SectorsInv, NEW lba
    PROVE  Traced(ReadHeader(lba))
<1>1. CASE InDevice(lba) /\ sector[lba].kind = "header"
  BY <1>1 DEF ReadHeader, SectorsInv, InDevice
<1>2. CASE ~ (InDevice(lba) /\ sector[lba].kind = "header")
  <2>1. ReadHeader(lba) \in {NoFacts("unreadable"), NoFacts("zero")}
    BY <1>2 DEF ReadHeader
  <2>2. \A kind : "genuine" \in DOMAIN NoFacts(kind) /\ ~ NoFacts(kind).genuine
    BY DEF NoFacts
  <2> QED
    BY <2>1, <2>2 DEF Traced
<1> QED
  BY <1>1, <1>2

LEMMA ReadArrayFor ==
    ASSUME NEW f
    PROVE  ReadFor(f, ReadArray(f))
  BY DEF ReadFor, ReadArray, NotRead, ReadStates

\* No field of a header is damaged without its checksum failing, but for what the checksum
\* does not cover.
LEMMA DamageTraced ==
    ASSUME NEW h, Traced(h), NEW field \in DOMAIN DamagedField, NEW v \in DamagedField[field]
    PROVE  Traced(DamagedHeader(h, field, v))
<1>1. CASE field = "padding"
  <2>1. DamagedHeader(h, field, v) = Padded(h, v) /\ v \in BOOLEAN
    BY <1>1, GptTablesAssumption DEF DamagedHeader, Padded
  <2>2. "genuine" \in DOMAIN Padded(h, v) /\ Padded(h, v).genuine = h.genuine
    BY DEF Padded, Traced
  <2>3. ASSUME NEW g, NEW u PROVE Padded(Padded(g, u), v) = Padded(g, v)
    BY DEF Padded
  <2>4. ASSUME NEW t \in Tables, WrittenFor(t, h) PROVE WrittenFor(t, Padded(h, v))
    BY <2>1, <2>3, <2>4 DEF WrittenFor
  <2> QED
    BY <2>1, <2>2, <2>4 DEF Traced
<1>2. CASE field # "padding"
  <2>1. DamagedHeader(h, field, v) = [h EXCEPT ![field] = v, !.genuine = FALSE]
    BY <1>2 DEF DamagedHeader
  <2>2. /\ "genuine" \in DOMAIN DamagedHeader(h, field, v)
        /\ ~ DamagedHeader(h, field, v).genuine
    BY <2>1 DEF Traced
  <2> QED
    BY <2>2 DEF Traced
<1> QED
  BY <1>1, <1>2

---------------------------------------------------------------------------
(* The invariant is inductive.                                             *)

LEMMA InitGpt == Init => GptInv
<1> SUFFICES ASSUME Init PROVE GptInv
  OBVIOUS
<1>1. SectorsInv
  <2>1. PICK t \in Tables :
            sector = [l \in 0 .. LastLba |->
                         IF \E piece \in Pieces : l \in Place(t, piece)
                         THEN Content(t, CHOOSE piece \in Pieces : l \in Place(t, piece), l)
                         ELSE Zero]
    BY DEF Init
  <2>2. SUFFICES ASSUME NEW l \in 0 .. LastLba, sector[l].kind = "header"
                 PROVE  Traced(sector[l])
    BY <2>1 DEF SectorsInv
  <2>3. \E piece \in Pieces : l \in Place(t, piece)
    BY <2>1, <2>2 DEF Zero
  <2>4. PICK piece \in Pieces : sector[l] = Content(t, piece, l)
    BY <2>1, <2>3
  <2> QED
    BY <2>2, <2>4, PiecesTraced
<1>2. HeadersInv
  BY DEF Init, HeadersInv, Traced, NoFacts
<1>3. PlaceInv
  BY DEF Init, PlaceInv
<1>4. ArraysInv
  BY DEF Init, ArraysInv
<1>5. ToolInv
  BY DEF Init, ToolInv
<1> QED
  BY <1>1, <1>2, <1>3, <1>4, <1>5 DEF GptInv

LEMMA NextGpt == GptInv /\ [Next]_vars => GptInv'
<1> SUFFICES ASSUME GptInv, [Next]_vars PROVE GptInv'
  OBVIOUS
<1> USE DEF GptInv
<1>1. ASSUME UNCHANGED <<sector, pf, pbytes, bf, bbytes, stage, blba>>, ToolInv' PROVE GptInv'
  BY <1>1 DEF SectorsInv, HeadersInv, PlaceInv, ArraysInv, ToolInv, LastLba
<1>2. CASE Probe
  BY <1>2 DEF Probe, disk, SectorsInv, HeadersInv, PlaceInv, ArraysInv, ToolInv
<1>3. CASE ReadPrimaryHeader
  <2>1. Traced(pf)'
    BY <1>3, ReadTraced DEF ReadPrimaryHeader
  <2> QED
    BY <1>3, <2>1 DEF ReadPrimaryHeader, disk, SectorsInv, HeadersInv, PlaceInv, ArraysInv, ToolInv
<1>4. CASE ReadPrimaryArray
  <2>1. ReadFor(pf, pbytes)'
    BY <1>4, ReadArrayFor DEF ReadPrimaryArray
  <2> QED
    BY <1>4, <2>1 DEF ReadPrimaryArray, disk, SectorsInv, HeadersInv, PlaceInv, ArraysInv, ToolInv
<1>5. CASE LocateBackup
  BY <1>5 DEF LocateBackup, BackupLba, disk, SectorsInv, HeadersInv, PlaceInv, ArraysInv, ToolInv,
              LastLba
<1>6. CASE ReadBackupHeader
  <2>1. Traced(bf)'
    BY <1>6, ReadTraced DEF ReadBackupHeader
  <2> QED
    BY <1>6, <2>1 DEF ReadBackupHeader, disk, SectorsInv, HeadersInv, PlaceInv, ArraysInv,
                      ToolInv, LastLba
<1>7. CASE ReadBackupArray
  <2>1. ReadFor(bf, bbytes)'
    BY <1>7, ReadArrayFor DEF ReadBackupArray
  <2> QED
    BY <1>7, <2>1 DEF ReadBackupArray, disk, SectorsInv, HeadersInv, PlaceInv, ArraysInv,
                      ToolInv, LastLba
<1>8. CASE ReadMbr
  BY <1>8 DEF ReadMbr, disk, SectorsInv, HeadersInv, PlaceInv, ArraysInv, ToolInv, LastLba
<1>9. CASE Expand
  BY <1>9, <1>1 DEF Expand, disk, ToolInv
<1>10. CASE BeginUpdate
  BY <1>10, <1>1 DEF BeginUpdate, reader, ToolInv
<1>11. CASE WritePiece
  <2>1. PICK piece \in Pieces : sector' = Written(sector, target, piece)
    BY <1>11 DEF WritePiece, ToolInv
  <2>2. SectorsInv'
    <3>1. SUFFICES ASSUME NEW l \in DOMAIN sector, sector'[l].kind = "header"
                   PROVE  Traced(sector'[l])
      BY <2>1 DEF SectorsInv, Written
    <3>2. CASE l \in Place(target, piece)
      <4>1. sector'[l] = Content(target, piece, l)
        BY <2>1, <3>2 DEF Written
      <4> QED
        BY <3>1, <4>1, PiecesTraced DEF ToolInv
    <3>3. CASE l \notin Place(target, piece)
      BY <2>1, <3>1, <3>3 DEF Written, SectorsInv
    <3> QED
      BY <3>2, <3>3
  <2> QED
    BY <1>11, <2>2 DEF WritePiece, reader, HeadersInv, PlaceInv, ArraysInv, ToolInv, LastLba
<1>12. CASE ToolDies
  BY <1>12, <1>1 DEF ToolDies, reader, ToolInv
<1>13. CASE Damage
  <2>1. PICK l \in DOMAIN sector : \E s : sector' = [sector EXCEPT ![l] = s]
                                       /\ (s.kind = "header" => Traced(s))
    <3>1. PICK l \in DOMAIN sector :
          \/ \E s \in {Zero, Refused} : sector' = [sector EXCEPT ![l] = s]
          \/ /\ sector[l].kind = "header"
             /\ \E field \in DOMAIN DamagedField : \E v \in DamagedField[field] :
                    /\ sector[l][field] # v
                    /\ sector' = [sector EXCEPT ![l] = DamagedHeader(@, field, v)]
          \/ /\ sector[l].kind = "array"
             /\ \E u \in DOMAIN sector[l].cells, e \in DamagedEntry :
                    sector' = [sector EXCEPT ![l] = [@ EXCEPT !.cells[u] = e]]
          \/ /\ sector[l].kind = "mbr"
             /\ \E m \in DamagedMbr : sector' = [sector EXCEPT ![l] = m]
      BY <1>13 DEF Damage
    <3>2. CASE \E s \in {Zero, Refused} : sector' = [sector EXCEPT ![l] = s]
      <4>1. PICK s \in {Zero, Refused} : sector' = [sector EXCEPT ![l] = s]
        BY <3>2
      <4>2. s.kind # "header"
        BY DEF Zero, Refused
      <4> QED
        BY <4>1, <4>2
    <3>3. CASE /\ sector[l].kind = "header"
               /\ \E field \in DOMAIN DamagedField : \E v \in DamagedField[field] :
                    /\ sector[l][field] # v
                    /\ sector' = [sector EXCEPT ![l] = DamagedHeader(@, field, v)]
      <4>0. PICK field \in DOMAIN DamagedField : \E v \in DamagedField[field] :
                sector' = [sector EXCEPT ![l] = DamagedHeader(sector[l], field, v)]
        BY <3>3
      <4>1. PICK v \in DamagedField[field] :
                sector' = [sector EXCEPT ![l] = DamagedHeader(sector[l], field, v)]
        BY <4>0
      <4>2. Traced(sector[l])
        BY <3>3 DEF SectorsInv
      <4>3. Traced(DamagedHeader(sector[l], field, v))
        BY <4>2, DamageTraced
      <4> QED
        BY <4>1, <4>3
    <3>4. CASE /\ sector[l].kind = "array"
               /\ \E u \in DOMAIN sector[l].cells, e \in DamagedEntry :
                    sector' = [sector EXCEPT ![l] = [@ EXCEPT !.cells[u] = e]]
      <4>1. PICK u \in DOMAIN sector[l].cells, e \in DamagedEntry :
                sector' = [sector EXCEPT ![l] = [sector[l] EXCEPT !.cells[u] = e]]
        BY <3>4
      <4>2. [sector[l] EXCEPT !.cells[u] = e].kind = "array"
        BY <3>4
      <4> QED
        BY <4>1, <4>2
    <3>5. CASE /\ sector[l].kind = "mbr"
               /\ \E m \in DamagedMbr : sector' = [sector EXCEPT ![l] = m]
      BY <3>5, GptTablesAssumption
    <3> QED
      BY <3>1, <3>2, <3>3, <3>4, <3>5
  <2>2. SectorsInv'
    BY <2>1 DEF SectorsInv
  <2> QED
    BY <1>13, <2>2 DEF Damage, reader, HeadersInv, PlaceInv, ArraysInv, ToolInv, LastLba
<1>14. CASE UNCHANGED vars
  BY <1>14, <1>1 DEF vars, ToolInv
<1> QED
  BY <1>2, <1>3, <1>4, <1>5, <1>6, <1>7, <1>8, <1>9, <1>10, <1>11, <1>12, <1>13, <1>14
     DEF Next, Reader

---------------------------------------------------------------------------
(* What a report without a finding says.                                   *)

\* Of each header: it is there, sound, in its place, and nothing stands behind it.
LEMMA QuietHeader ==
    ASSUME NEW f, NEW lba, NEW primary \in BOOLEAN,
           \A finding \in HeaderFindings(f, lba, primary) : finding[1] = "info"
    PROVE  /\ f.present /\ f.genuine /\ ~ f.padding
           /\ f.my = lba
           /\ f.alt # 0 /\ f.alt # f.my /\ ~ (f.alt > LastLba)
           /\ primary => ~ (f.alt < LastLba)
<1> DEFINE quiet(level, what) ==
        <<level, what>> \in HeaderFindings(f, lba, primary) => level = "info"
<1>1. \A level, what : quiet(level, what)
  OBVIOUS
<1>2. f.kind # "unreadable"
  BY <1>1 DEF HeaderFindings
<1>3. f.present
  BY <1>1, <1>2 DEF HeaderFindings, Say
<1>4. ~ f.padding
  BY <1>1, <1>2 DEF HeaderFindings, Say
<1>5. f.hsize # 0
  <2>1. ~ (f.hsize < MinHeaderSize)
    BY <1>1, <1>2 DEF HeaderFindings, Say
  <2> QED
    BY <2>1, GptSizesAssumption
<1>6. f.genuine
  BY <1>1, <1>2, <1>5 DEF HeaderFindings, Say
<1>7. f.my = lba
  BY <1>1, <1>2, <1>3 DEF HeaderFindings, Say
<1>8. f.alt # 0 /\ f.alt # f.my /\ ~ (f.alt > LastLba)
  BY <1>1, <1>2, <1>3 DEF HeaderFindings, Say
<1>9. primary => ~ (f.alt < LastLba)
  BY <1>1, <1>2, <1>3, <1>8 DEF HeaderFindings, Say
<1> QED
  BY <1>3, <1>4, <1>6, <1>7, <1>8, <1>9

\* Of each array: it was read, and is what its header sums up.
LEMMA QuietArray ==
    ASSUME NEW f, f.lba \in Int, NEW bytes, ReadFor(f, bytes),
           \A finding \in ArrayFindings(f, bytes) : finding[1] = "info"
    PROVE  bytes.state = "read" /\ bytes.cells = f.acrc
<1> DEFINE quiet(level, what) ==
        <<level, what>> \in ArrayFindings(f, bytes) => level = "info"
<1>1. \A level, what : quiet(level, what)
  OBVIOUS
<1>2. HasArray(f)
  BY <1>1 DEF ArrayFindings, Say
<1>3. LbaToByte(f.lba) \in Int
  BY GptSizesAssumption DEF LbaToByte
<1>4. DeviceLbas * SectorSize \in Int /\ MaxWord \in Int
  BY GptSizesAssumption
<1>5. ~ (LbaToByte(f.lba) > MaxWord)
  BY <1>2, <1>3, <1>4, GptSizesAssumption DEF HasArray
<1>6. bytes.state # "overflow"
  BY <1>5 DEF ReadFor
<1>7. bytes.state \notin {"empty", "too long"}
  BY <1>1 DEF ArrayFindings, Say
<1>8. bytes.state # "outside"
  BY <1>1 DEF ArrayFindings, Say
<1>9. bytes.state # "unreadable"
  BY <1>1 DEF ArrayFindings, Say
<1>10. bytes.state = "read"
  BY <1>6, <1>7, <1>8, <1>9 DEF ReadFor, ReadStates
<1>11. bytes.cells = f.acrc
  BY <1>1, <1>10 DEF ArrayFindings, Say
<1> QED
  BY <1>10, <1>11

\* Of both headers: no field that has to agree differs.
LEMMA QuietCompare ==
    ASSUME NEW p, NEW b, p.kind # "unreadable", b.kind # "unreadable",
           \A x \in DiffHeaders(p, b) : "bad" = "info"
    PROVE  \A x \in Compared : p[x] = b[x]
  BY DEF DiffHeaders

\* The header that is written for a table says where it lies.
LEMMA PaddedFields ==
    ASSUME NEW t, NEW v
    PROVE  /\ Padded(PrimaryHeader(t), v).my = 1
           /\ Padded(PrimaryHeader(t), v).alt = t.lbas - 1
           /\ Padded(PrimaryHeader(t), v).lba = 2
           /\ Padded(PrimaryHeader(t), v).acrc = Array(t)
           /\ Padded(PrimaryHeader(t), v).num = Len(t.slots)
           /\ Padded(PrimaryHeader(t), v).guid = t.guid
           /\ Padded(PrimaryHeader(t), v).padding = v
           /\ Padded(BackupHeader(t), v).my = t.lbas - 1
           /\ Padded(BackupHeader(t), v).alt = 1
           /\ Padded(BackupHeader(t), v).lba = t.lbas - 1 - ArrayLbas(t)
           /\ Padded(BackupHeader(t), v).acrc = Array(t)
           /\ Padded(BackupHeader(t), v).num = Len(t.slots)
           /\ Padded(BackupHeader(t), v).guid = t.guid
           /\ Padded(BackupHeader(t), v).padding = v
  BY DEF Padded, PrimaryHeader, BackupHeader, Header

\* What a table's places are counted in.
LEMMA TableSizes ==
    ASSUME NEW t \in Tables
    PROVE  /\ t.lbas \in Nat /\ t.lbas > 2
           /\ ArrayUnits(t) \in Nat /\ ArrayLbas(t) \in Int
<1>1. t.lbas \in Nat /\ t.lbas > 2 /\ Len(t.slots) \in Nat
  BY GptTablesAssumption
<1>2. ArrayUnits(t) \in Nat
  BY <1>1, GptSizesAssumption DEF ArrayUnits
<1>3. ArrayLbas(t) \in Int
  BY <1>2, GptSizesAssumption DEF ArrayLbas, CeilDiv
<1> QED
  BY <1>1, <1>2, <1>3

\* Backup headers of tables that the fields in common do not tell apart are the same.
LEMMA SameBackup ==
    ASSUME NEW t, NEW u, t.lbas = u.lbas, t.guid = u.guid, Len(t.slots) = Len(u.slots),
           Array(t) = Array(u)
    PROVE  BackupHeader(t) = BackupHeader(u)
<1>1. ArrayUnits(t) = ArrayUnits(u)
  BY DEF ArrayUnits
<1>2. ArrayLbas(t) = ArrayLbas(u)
  BY <1>1 DEF ArrayLbas
<1> QED
  BY <1>2 DEF BackupHeader, Header

LEMMA QuietPrimary ==
    ASSUME GptInv, stage = "open", Quiet
    PROVE  \E t \in Tables : t.lbas = DeviceLbas /\ pf = PrimaryHeader(t)
<1>1. \A finding \in HeaderFindings(pf, 1, TRUE) : finding[1] = "info"
  BY DEF Quiet, Report
<1>2. /\ pf.genuine /\ ~ pf.padding /\ pf.my = 1
      /\ ~ (pf.alt > LastLba) /\ ~ (pf.alt < LastLba)
  BY <1>1, QuietHeader
<1>3. PICK t \in Tables : WrittenFor(t, pf)
  BY <1>2 DEF GptInv, HeadersInv, Traced
<1>4. PICK v \in BOOLEAN : pf = Padded(PrimaryHeader(t), v) \/ pf = Padded(BackupHeader(t), v)
  BY <1>3 DEF WrittenFor
<1>5. pf = Padded(PrimaryHeader(t), v)
  BY <1>2, <1>4, PaddedFields, TableSizes
<1>6. ~ v
  BY <1>2, <1>5, PaddedFields
<1>7. v = FALSE
  BY <1>6
<1>8. pf = PrimaryHeader(t)
  BY <1>5, <1>7, PaddedHeader DEF PrimaryHeader
<1>9. pf.alt = t.lbas - 1
  BY <1>5, PaddedFields
<1>10. t.lbas = DeviceLbas
  BY <1>2, <1>9, TableSizes, GptSizesAssumption DEF LastLba
<1> QED
  BY <1>8, <1>10

LEMMA QuietBackup ==
    ASSUME GptInv, stage = "open", Quiet
    PROVE  \E t \in Tables : t.lbas = DeviceLbas /\ bf = BackupHeader(t)
<1>1. \A finding \in HeaderFindings(bf, blba, FALSE) : finding[1] = "info"
  BY DEF Quiet, Report
<1>2. bf.genuine /\ ~ bf.padding /\ bf.my = blba
  BY <1>1, QuietHeader
<1>3. pf.alt = LastLba
  <2>1. PICK t \in Tables : t.lbas = DeviceLbas /\ pf = PrimaryHeader(t)
    BY QuietPrimary
  <2> QED
    BY <2>1 DEF PrimaryHeader, Header, LastLba
<1>4. bf.my = LastLba
  BY <1>2, <1>3 DEF GptInv, PlaceInv
<1>5. PICK t \in Tables : WrittenFor(t, bf)
  BY <1>2 DEF GptInv, HeadersInv, Traced
<1>6. PICK v \in BOOLEAN : bf = Padded(PrimaryHeader(t), v) \/ bf = Padded(BackupHeader(t), v)
  BY <1>5 DEF WrittenFor
<1>7. bf = Padded(BackupHeader(t), v)
  BY <1>4, <1>6, PaddedFields, GptSizesAssumption DEF LastLba
<1>8. ~ v
  BY <1>2, <1>7, PaddedFields
<1>9. v = FALSE
  BY <1>8
<1>10. bf = BackupHeader(t)
  BY <1>7, <1>9, PaddedHeader DEF BackupHeader
<1>11. t.lbas - 1 = LastLba
  BY <1>4, <1>7, PaddedFields
<1>12. t.lbas = DeviceLbas
  BY <1>11, TableSizes, GptSizesAssumption DEF LastLba
<1> QED
  BY <1>10, <1>12

\* All four structures are those of one table.
LEMMA QuietTable ==
    ASSUME GptInv
    PROVE  QuietIsOneTable
<1> SUFFICES ASSUME stage = "open", Quiet
             PROVE  \E t \in Tables :
                        /\ t.lbas = DeviceLbas
                        /\ pf = PrimaryHeader(t) /\ bf = BackupHeader(t)
                        /\ pbytes.cells = Array(t) /\ bbytes.cells = Array(t)
  BY DEF QuietIsOneTable
<1>1. PICK t \in Tables : t.lbas = DeviceLbas /\ pf = PrimaryHeader(t)
  BY QuietPrimary
<1>2. PICK u \in Tables : u.lbas = DeviceLbas /\ bf = BackupHeader(u)
  BY QuietBackup
<1>3. \A x \in DiffHeaders(pf, bf) : "bad" = "info"
  <2>1. \A x \in DiffHeaders(pf, bf) : <<"bad", x>> \in Report
    BY DEF Report, CompareFindings
  <2> QED
    BY <2>1 DEF Quiet
<1>4. \A x \in Compared : pf[x] = bf[x]
  <2>1. pf.kind # "unreadable" /\ bf.kind # "unreadable"
    BY <1>1, <1>2 DEF PrimaryHeader, BackupHeader, Header
  <2> QED
    BY <1>3, <2>1, QuietCompare
<1>5. /\ pf.guid = t.guid /\ pf.num = Len(t.slots) /\ pf.acrc = Array(t) /\ pf.lba = 2
      /\ bf.guid = u.guid /\ bf.num = Len(u.slots) /\ bf.acrc = Array(u)
      /\ bf.lba = u.lbas - 1 - ArrayLbas(u)
  BY <1>1, <1>2 DEF PrimaryHeader, BackupHeader, Header
<1>6. t.guid = u.guid /\ Len(t.slots) = Len(u.slots) /\ Array(t) = Array(u)
  <2>1. pf.guid = bf.guid /\ pf.num = bf.num /\ pf.acrc = bf.acrc
    BY <1>4 DEF Compared
  <2> QED
    BY <1>5, <2>1
<1>7. bf = BackupHeader(t)
  BY <1>1, <1>2, <1>6, SameBackup
<1>8. pbytes.cells = Array(t)
  <2>1. \A finding \in ArrayFindings(pf, pbytes) : finding[1] = "info"
    BY DEF Quiet, Report
  <2>2. ReadFor(pf, pbytes)
    BY DEF GptInv, ArraysInv
  <2> QED
    BY <1>5, <2>1, <2>2, QuietArray
<1>9. bbytes.cells = Array(t)
  <2>1. \A finding \in ArrayFindings(bf, bbytes) : finding[1] = "info"
    BY DEF Quiet, Report
  <2>2. ReadFor(bf, bbytes)
    BY DEF GptInv, ArraysInv
  <2>3. bf.lba \in Int
    BY <1>5, TableSizes
  <2> QED
    BY <1>5, <1>6, <2>1, <2>2, <2>3, QuietArray
<1> QED
  BY <1>1, <1>7, <1>8, <1>9

---------------------------------------------------------------------------
(* The theorems.                                                           *)

\* Whatever is damaged and whichever updates stop halfway, every header with a right
\* checksum is one that a tool wrote for a table (what gpt/mod.rs verifies a header by).
THEOREM GptCorrect == Spec => []GptInv
<1>1. Init => GptInv
  BY InitGpt
<1>2. GptInv /\ [Next]_vars => GptInv'
  BY NextGpt
<1> QED
  BY <1>1, <1>2, PTL DEF Spec

\* GptReader::root reports nothing only of headers, arrays and places that belong to one
\* table made for this device, though it reads them one after the other.
THEOREM AlwaysOneTable == Spec => []QuietIsOneTable
<1>1. GptInv => QuietIsOneTable
  BY QuietTable
<1> QED
  BY <1>1, GptCorrect, PTL
---------------------------------------------------------------------------
(* Counting units and sectors.                                             *)

LEMMA Parts ==
    ASSUME NEW m \in Nat
    PROVE  /\ m \div SectorSize \in Nat /\ m % SectorSize \in 0 .. SectorSize - 1
           /\ m = (m \div SectorSize) * SectorSize + (m % SectorSize)
  BY GptSizesAssumption

LEMMA PartsOnce ==
    ASSUME NEW c \in Int, NEW d \in Int,
           NEW r \in 0 .. SectorSize - 1, NEW x \in 0 .. SectorSize - 1,
           c * SectorSize + r = d * SectorSize + x
    PROVE  c = d /\ r = x
<1>1. SectorSize \in Nat
  BY GptSizesAssumption
<1>2. ASSUME NEW a \in Int, NEW b \in Int, a < b
      PROVE  a * SectorSize + SectorSize <= b * SectorSize
  <2>1. (b - (a + 1)) * SectorSize >= 0
    <3>1. b - (a + 1) \in Nat
      BY <1>2
    <3> QED
      BY <1>1, <3>1
  <2>2. (b - (a + 1)) * SectorSize = b * SectorSize - (a * SectorSize + SectorSize)
    BY <1>1
  <2>3. a * SectorSize \in Int /\ b * SectorSize \in Int
    BY <1>1
  <2> QED
    BY <1>1, <2>1, <2>2, <2>3
<1>3. c * SectorSize \in Int /\ d * SectorSize \in Int
  BY <1>1
<1>4. ~ (c < d) /\ ~ (d < c)
  BY <1>1, <1>2, <1>3
<1>5. c = d
  BY <1>4
<1> QED
  BY <1>1, <1>3, <1>5

\* A unit of an array that begins with a sector.
LEMMA PartsFrom ==
    ASSUME NEW lba \in Nat, NEW m \in Nat
    PROVE  /\ (lba * SectorSize + m) \div SectorSize = lba + (m \div SectorSize)
           /\ (lba * SectorSize + m) % SectorSize = m % SectorSize
<1> DEFINE n == lba * SectorSize + m
           q == m \div SectorSize
           r == m % SectorSize
           c == n \div SectorSize
           x == n % SectorSize
<1>1. n \in Nat /\ SectorSize \in Nat
  BY GptSizesAssumption
<1>2. q \in Nat /\ r \in 0 .. SectorSize - 1 /\ m = q * SectorSize + r
  BY Parts
<1>3. c \in Nat /\ x \in 0 .. SectorSize - 1 /\ n = c * SectorSize + x
  <2> HIDE DEF n
  <2> QED
    BY <1>1, Parts
<1>4. n = lba * SectorSize + m
  OBVIOUS
<1> HIDE DEF n, q, r, c, x
<1>5. (lba + q) * SectorSize = lba * SectorSize + q * SectorSize
  BY <1>1, <1>2
<1>6. lba * SectorSize \in Nat /\ q * SectorSize \in Nat
  BY <1>1, <1>2
<1>7. (lba + q) * SectorSize + r = c * SectorSize + x
  BY <1>1, <1>2, <1>3, <1>4, <1>5, <1>6
<1>8. lba + q = c /\ r = x
  BY <1>2, <1>3, <1>7, PartsOnce
<1> QED
  BY <1>8 DEF c, x, q, r, n

\* Every unit of a table's array is in one of its sectors.
LEMMA UnitsInSectors ==
    ASSUME NEW t \in Tables
    PROVE  /\ ArrayUnits(t) \in Nat \ {0} /\ ArrayLbas(t) \in Nat
           /\ ArrayUnits(t) <= ArrayLbas(t) * SectorSize
           /\ \A u \in 1 .. ArrayUnits(t) : (u - 1) \div SectorSize \in 0 .. ArrayLbas(t) - 1
<1> DEFINE units == ArrayUnits(t)
           lbas == ArrayLbas(t)
<1>1. SectorSize \in Nat \ {0}
  BY GptSizesAssumption
<1>2. units \in Nat \ {0}
  <2> DEFINE n == Len(t.slots)
  <2>1. n \in Nat \ {0}
    BY ToolsAssumption, GptSizesAssumption
  <2>2. units = n * MinEntrySize
    BY DEF ArrayUnits
  <2>3. MinEntrySize \in Nat \ {0}
    BY GptSizesAssumption
  <2> HIDE DEF n, units
  <2> QED
    BY <2>1, <2>2, <2>3
<1> HIDE DEF units
<1> DEFINE m == units + SectorSize - 1
           r == m % SectorSize
<1>3. m \in Nat
  BY <1>1, <1>2
<1>4. lbas = m \div SectorSize
  BY DEF ArrayLbas, CeilDiv, units
<1> HIDE DEF m, lbas
<1>5. lbas \in Nat /\ r \in 0 .. SectorSize - 1 /\ m = lbas * SectorSize + r
  BY <1>3, <1>4, Parts
<1> HIDE DEF r
<1>6. units <= lbas * SectorSize
  <2>1. lbas * SectorSize \in Nat
    BY <1>1, <1>5
  <2> QED
    BY <1>1, <1>2, <1>5, <2>1 DEF m
<1>7. ASSUME NEW u \in 1 .. units
      PROVE  (u - 1) \div SectorSize \in 0 .. lbas - 1
  <2> DEFINE k == u - 1
             q == k \div SectorSize
             x == k % SectorSize
  <2>1. k \in Nat /\ k < units
    BY <1>2
  <2> HIDE DEF k
  <2>2. q \in Nat /\ x \in 0 .. SectorSize - 1 /\ k = q * SectorSize + x
    BY <2>1, Parts
  <2> HIDE DEF q, x
  <2>3. q < lbas
    <3> SUFFICES ASSUME lbas <= q PROVE FALSE
      BY <1>5, <2>2
    <3>1. q - lbas \in Nat
      BY <1>5, <2>2
    <3>2. (q - lbas) * SectorSize \in Nat
      BY <1>1, <3>1
    <3>3. (q - lbas) * SectorSize = q * SectorSize - lbas * SectorSize
      BY <1>1, <1>5, <2>2
    <3>4. q * SectorSize \in Nat /\ lbas * SectorSize \in Nat
      BY <1>1, <1>5, <2>2
    <3> QED
      BY <1>1, <1>2, <1>6, <2>1, <2>2, <3>2, <3>3, <3>4
  <2>4. q \in 0 .. lbas - 1
    BY <1>5, <2>2, <2>3
  <2> QED
    BY <2>4 DEF q, k
<1> QED
  BY <1>2, <1>5, <1>6, <1>7 DEF units, lbas

---------------------------------------------------------------------------
(* Reading what a tool wrote.                                              *)

SizeInv == DOMAIN sector = 0 .. LastLba

\* The array of a table lies from `lba` on.
ArrayAt(t, lba) ==
    \A i \in 0 .. ArrayLbas(t) - 1 : InDevice(lba + i) /\ sector[lba + i] = ArraySector(t, i)

Sums(f, t) == f.num = Len(t.slots) /\ f.size = MinEntrySize

LEMMA WholeArrayRead ==
    ASSUME SizeInv, NEW t \in Tables, NEW f, Sums(f, t), f.lba \in Nat, ArrayAt(t, f.lba)
    PROVE  ReadArray(f) = [state |-> "read", cells |-> Array(t)] /\ HasArray(f)
<1> DEFINE lba == f.lba
           at == lba * SectorSize
           units == ArrayUnits(t)
           lbas == ArrayLbas(t)
<1>1. SectorSize \in Nat \ {0} /\ DeviceLbas \in Nat /\ lba \in Nat
  BY GptSizesAssumption
<1>2. /\ units \in Nat \ {0} /\ lbas \in Nat /\ units <= lbas * SectorSize
      /\ \A u \in 1 .. units : (u - 1) \div SectorSize \in 0 .. lbas - 1
  BY UnitsInSectors
<1>3. f.num * f.size = units
  BY DEF Sums, ArrayUnits
<1>4. units <= MaxArray
  BY ToolsAssumption
<1>5. lba + lbas <= DeviceLbas /\ lbas # 0
  <2>1. lbas # 0
    <3>1. 1 \in 1 .. units
      BY <1>2
    <3>2. (1 - 1) \div SectorSize \in 0 .. lbas - 1
      BY <1>2, <3>1
    <3> QED
      BY <1>2, <3>2
  <2>2. lbas - 1 \in 0 .. lbas - 1
    BY <1>2, <2>1
  <2>3. lba + (lbas - 1) \in 0 .. LastLba
    BY <2>2 DEF ArrayAt, InDevice, SizeInv
  <2> QED
    BY <1>1, <1>2, <2>1, <2>3 DEF LastLba
<1>6. at \in Nat /\ at + units <= DeviceLbas * SectorSize
  <2>1. at \in Nat /\ lbas * SectorSize \in Nat /\ DeviceLbas * SectorSize \in Nat
    BY <1>1, <1>2
  <2>2. DeviceLbas - (lba + lbas) \in Nat
    BY <1>1, <1>2, <1>5
  <2>3. (DeviceLbas - (lba + lbas)) * SectorSize \in Nat
    BY <1>1, <2>2
  <2>4. (DeviceLbas - (lba + lbas)) * SectorSize
            = DeviceLbas * SectorSize - (lba * SectorSize + lbas * SectorSize)
    BY <1>1, <1>2
  <2> HIDE DEF lbas, units
  <2> QED
    BY <1>2, <2>1, <2>3, <2>4
<1>7. LbaToByte(f.lba) = at /\ ~ (at > MaxWord)
  <2>1. DeviceLbas * SectorSize <= MaxWord /\ MaxWord \in Nat /\ DeviceLbas * SectorSize \in Nat
    BY GptSizesAssumption
  <2>2. at <= MaxWord
    <3> HIDE DEF at, units
    <3> QED
      BY <1>2, <1>6, <2>1
  <2>3. ~ (at > MaxWord)
    <3> HIDE DEF at
    <3> QED
      BY <1>6, <2>1, <2>2
  <2> QED
    BY <2>2, <2>3 DEF LbaToByte
<1>8. ASSUME NEW u \in 1 .. units
      PROVE  LET x == at + u - 1
             IN  /\ InDevice(x \div SectorSize) /\ sector[x \div SectorSize].kind = "array"
                 /\ UnitAt(x) = Array(t)[u]
  <2> DEFINE m == u - 1
             i == m \div SectorSize
             r == m % SectorSize
             x == at + m
  <2>1. m \in Nat /\ u = m + 1
    BY <1>2
  <2>2. i \in 0 .. lbas - 1
    BY <1>2
  <2> HIDE DEF m
  <2>3. x \div SectorSize = lba + i /\ x % SectorSize = r
    BY <1>1, <2>1, PartsFrom
  <2>4. InDevice(lba + i) /\ sector[lba + i] = ArraySector(t, i)
    BY <2>2 DEF ArrayAt
  <2>5. r \in 0 .. SectorSize - 1 /\ m = i * SectorSize + r
    BY <2>1, Parts
  <2>6. 1 + r \in 1 .. SectorSize /\ i * SectorSize + (1 + r) = u
    <3>1. i \in Nat
      BY <1>2, <2>2
    <3>2. i * SectorSize \in Nat
      BY <1>1, <3>1
    <3> HIDE DEF i, r
    <3> QED
      BY <1>1, <2>1, <2>5, <3>2
  <2>7. ArraySector(t, i).kind = "array" /\ ArraySector(t, i).cells[1 + r] = Array(t)[u]
    <3>1. ArraySector(t, i).cells[1 + r]
              = IF i * SectorSize + (1 + r) <= ArrayUnits(t)
                THEN Array(t)[i * SectorSize + (1 + r)] ELSE Blank
      BY <2>6 DEF ArraySector
    <3>2. u <= ArrayUnits(t)
      BY <1>2
    <3>3. ArraySector(t, i).kind = "array"
      BY DEF ArraySector
    <3> HIDE DEF i, r
    <3> QED
      BY <2>6, <3>1, <3>2, <3>3
  <2>8. UnitAt(x) = Array(t)[u]
    <3> HIDE DEF x, i, r
    <3> QED
      BY <2>3, <2>4, <2>7 DEF UnitAt
  <2>9. at + u - 1 = x
    <3> HIDE DEF at
    <3> QED
      BY <1>6, <2>1
  <2> HIDE DEF x, i
  <2> QED
    BY <2>3, <2>4, <2>7, <2>8, <2>9
<1>9. Readable(at, units)
  <2> SUFFICES ASSUME NEW x \in at .. at + units - 1
               PROVE  InDevice(x \div SectorSize) /\ sector[x \div SectorSize].kind # "refused"
    BY DEF Readable
  <2> HIDE DEF at, units
  <2>1. x - at + 1 \in 1 .. units /\ at + (x - at + 1) - 1 = x
    BY <1>2, <1>6
  <2> QED
    BY <1>8, <2>1
<1>10. [u \in 1 .. units |-> UnitAt(at + u - 1)] = Array(t)
  <2>1. \A u \in 1 .. units : UnitAt(at + u - 1) = Array(t)[u]
    BY <1>8
  <2>2. Array(t) = [u \in 1 .. units |-> Array(t)[u]]
    BY DEF Array
  <2> HIDE DEF at, units
  <2> QED
    BY <2>1, <2>2
<1>11. ~ (units > MaxArray) /\ units # 0
  <2>1. MaxArray \in Nat
    BY GptSizesAssumption
  <2> HIDE DEF units
  <2> QED
    BY <1>2, <1>4, <2>1
<1>12. ~ (at + units > DeviceLbas * SectorSize) /\ at < DeviceLbas * SectorSize
  <2>1. DeviceLbas * SectorSize \in Nat
    BY <1>1
  <2> HIDE DEF at, units
  <2> QED
    BY <1>2, <1>6, <2>1
<1>13. HasArray(f)
  BY <1>7, <1>12 DEF HasArray
<1>14. ReadArray(f) = [state |-> "read", cells |-> [u \in 1 .. units |-> UnitAt(at + u - 1)]]
  <2> HIDE DEF at, units
  <2> QED
    BY <1>3, <1>7, <1>9, <1>11, <1>12 DEF ReadArray
<1> QED
  BY <1>10, <1>13, <1>14

\* The first array of a table, and the second.
LEMMA PrimaryAt ==
    ASSUME NEW t \in Tables,
           \A l \in Place(t, "array") : InDevice(l) /\ sector[l] = Content(t, "array", l)
    PROVE  ArrayAt(t, 2) /\ Sums(PrimaryHeader(t), t) /\ PrimaryHeader(t).lba = 2
<1>1. ArrayLbas(t) \in Nat
  BY UnitsInSectors
<1>2. ASSUME NEW i \in 0 .. ArrayLbas(t) - 1
      PROVE  InDevice(2 + i) /\ sector[2 + i] = ArraySector(t, i)
  <2>1. 2 + i \in Place(t, "array") /\ (2 + i) - 2 = i
    BY <1>1 DEF Place
  <2>2. InDevice(2 + i) /\ sector[2 + i] = Content(t, "array", 2 + i)
    BY <2>1
  <2> QED
    BY <2>1, <2>2 DEF Content
<1> QED
  BY <1>2 DEF ArrayAt, Sums, PrimaryHeader, Header

LEMMA BackupAt ==
    ASSUME NEW t \in Tables,
           \A l \in Place(t, "backup array") :
               InDevice(l) /\ sector[l] = Content(t, "backup array", l)
    PROVE  /\ ArrayAt(t, BackupHeader(t).lba) /\ Sums(BackupHeader(t), t)
           /\ BackupHeader(t).lba \in Nat
<1> DEFINE n == t.lbas
           k == ArrayLbas(t)
           first == n - 1 - k
<1>1. k \in Nat /\ n \in Nat
  BY UnitsInSectors, TableSizes
<1>2. 2 + k <= n - k - 2
  BY ToolsAssumption
<1>3. first \in Nat /\ first + k - 1 = n - 2
  <2> HIDE DEF n, k
  <2> QED
    BY ONLY <1>1, <1>2 DEF first
<1>4. ASSUME NEW i \in 0 .. ArrayLbas(t) - 1
      PROVE  InDevice(first + i) /\ sector[first + i] = ArraySector(t, i)
  <2>1. first + i \in first .. n - 2 /\ (first + i) - first = i
    <3>1. i \in 0 .. k - 1
      OBVIOUS
    <3> HIDE DEF first, n, k
    <3> QED
      BY ONLY <1>1, <1>3, <3>1
  <2>2. InDevice(first + i) /\ sector[first + i] = Content(t, "backup array", first + i)
    BY <2>1 DEF Place
  <2> QED
    BY <2>1, <2>2 DEF Content
<1> QED
  BY <1>3, <1>4 DEF ArrayAt, Sums, BackupHeader, Header

---------------------------------------------------------------------------
(* As long as nobody writes, what was read is what is there.               *)

\* What would be read now.
ScoreNow == Score(ReadHeader(1))
HeaderNow == ReadHeader(1)
ArrayNow == ReadArray(pf)
BackupHeaderNow == ReadHeader(blba)
BackupArrayNow == ReadArray(bf)
FrontNow == sector[0]

ReadInv ==
    still =>
        /\ stage # "closed" => score = ScoreNow
        /\ stage \notin {"closed", "probed"} => pf = HeaderNow
        /\ stage \notin {"closed", "probed", "header"} => pbytes = ArrayNow
        /\ stage \in {"backup", "backup header", "backup array", "open"} => blba = BackupLba
        /\ stage \in {"backup header", "backup array", "open"} => bf = BackupHeaderNow
        /\ stage \in {"backup array", "open"} => bbytes = BackupArrayNow
        /\ stage = "open" => mbr = FrontNow

StillInv == SizeInv /\ ReadInv

\* What a read gives depends on the sectors, and on what was read for it.
LEMMA SameReads ==
    ASSUME UNCHANGED sector
    PROVE  /\ ScoreNow' = ScoreNow /\ HeaderNow' = HeaderNow /\ FrontNow' = FrontNow
           /\ UNCHANGED pf => BackupLba' = BackupLba /\ ArrayNow' = ArrayNow
           /\ UNCHANGED bf => BackupArrayNow' = BackupArrayNow
           /\ UNCHANGED blba => BackupHeaderNow' = BackupHeaderNow
<1>1. HeaderNow' = HeaderNow
  BY DEF HeaderNow, ReadHeader, InDevice, NoFacts
<1>2. ScoreNow = Score(HeaderNow) /\ ScoreNow' = Score(HeaderNow')
  BY DEF ScoreNow, HeaderNow, Score, LastLba
<1>3. UNCHANGED pf => BackupLba' = BackupLba
  BY DEF BackupLba, HasSignature, InDevice, LastLba
<1>4. UNCHANGED pf => ArrayNow' = ArrayNow
  BY DEF ArrayNow, ReadArray, Readable, UnitAt, InDevice
<1>5. UNCHANGED bf => BackupArrayNow' = BackupArrayNow
  BY DEF BackupArrayNow, ReadArray, Readable, UnitAt, InDevice
<1>6. UNCHANGED blba => BackupHeaderNow' = BackupHeaderNow
  BY DEF BackupHeaderNow, ReadHeader, InDevice, NoFacts
<1>7. FrontNow' = FrontNow
  BY DEF FrontNow
<1> QED
  BY <1>1, <1>2, <1>3, <1>4, <1>5, <1>6, <1>7

LEMMA InitStill == Init => StillInv
<1> SUFFICES ASSUME Init PROVE StillInv
  OBVIOUS
<1>1. SizeInv
  BY DEF Init, SizeInv
<1>2. ReadInv
  BY DEF Init, ReadInv
<1> QED
  BY <1>1, <1>2 DEF StillInv

LEMMA NextStill == StillInv /\ [Next]_vars => StillInv'
<1> SUFFICES ASSUME StillInv, [Next]_vars PROVE StillInv'
  OBVIOUS
<1>0. SizeInv /\ ReadInv
  BY DEF StillInv
<1>1. ASSUME UNCHANGED sector, ReadInv' PROVE StillInv'
  BY <1>0, <1>1 DEF StillInv, SizeInv, LastLba
<1>2. ASSUME UNCHANGED <<sector, still, stage, score, pf, pbytes, blba, bf, bbytes, mbr>>
      PROVE  StillInv'
  <2>1. ReadInv'
    BY <1>0, <1>2, SameReads DEF ReadInv
  <2> QED
    BY <1>1, <1>2, <2>1
<1>3. CASE Probe
  <2>1. UNCHANGED sector /\ ReadInv'
    BY <1>3, SameReads DEF Probe, disk, ReadInv, ScoreNow
  <2> QED
    BY <1>1, <2>1
<1>4. CASE ReadPrimaryHeader
  <2>1. UNCHANGED sector /\ ReadInv'
    BY <1>0, <1>4, SameReads DEF ReadPrimaryHeader, disk, ReadInv, HeaderNow
  <2> QED
    BY <1>1, <2>1
<1>5. CASE ReadPrimaryArray
  <2>1. UNCHANGED sector /\ ReadInv'
    BY <1>0, <1>5, SameReads DEF ReadPrimaryArray, disk, ReadInv, ArrayNow
  <2> QED
    BY <1>1, <2>1
<1>6. CASE LocateBackup
  <2>1. UNCHANGED sector /\ ReadInv'
    BY <1>0, <1>6, SameReads DEF LocateBackup, disk, ReadInv
  <2> QED
    BY <1>1, <2>1
<1>7. CASE ReadBackupHeader
  <2>1. UNCHANGED sector /\ ReadInv'
    BY <1>0, <1>7, SameReads DEF ReadBackupHeader, disk, ReadInv, BackupHeaderNow
  <2> QED
    BY <1>1, <2>1
<1>8. CASE ReadBackupArray
  <2>1. UNCHANGED sector /\ ReadInv'
    BY <1>0, <1>8, SameReads DEF ReadBackupArray, disk, ReadInv, BackupArrayNow
  <2> QED
    BY <1>1, <2>1
<1>9. CASE ReadMbr
  <2>1. UNCHANGED sector /\ ReadInv'
    BY <1>0, <1>9, SameReads DEF ReadMbr, disk, ReadInv, FrontNow
  <2> QED
    BY <1>1, <2>1
<1>10. CASE Expand
  BY <1>2, <1>10 DEF Expand, disk
<1>11. CASE BeginUpdate \/ ToolDies
  BY <1>2, <1>11 DEF BeginUpdate, ToolDies, reader
<1>12. CASE WritePiece
  <2>1. DOMAIN sector' = DOMAIN sector /\ still' = FALSE
    BY <1>12 DEF WritePiece, Written
  <2> QED
    BY <1>0, <2>1 DEF StillInv, SizeInv, ReadInv, LastLba
<1>13. CASE Damage
  <2>1. DOMAIN sector' = DOMAIN sector /\ still' = FALSE
    BY <1>13 DEF Damage
  <2> QED
    BY <1>0, <2>1 DEF StillInv, SizeInv, ReadInv, LastLba
<1>14. CASE UNCHANGED vars
  BY <1>2, <1>14 DEF vars
<1> QED
  BY <1>3, <1>4, <1>5, <1>6, <1>7, <1>8, <1>9, <1>10, <1>11, <1>12, <1>13, <1>14
     DEF Next, Reader

---------------------------------------------------------------------------
(* A copy that is whole is read.                                           *)

LEMMA HeaderAsWritten ==
    ASSUME NEW t, NEW my, NEW alt, NEW lba
    PROVE  /\ Header(t, my, alt, lba).kind = "header" /\ Header(t, my, alt, lba).present
           /\ Header(t, my, alt, lba).my = my /\ Header(t, my, alt, lba).alt = alt
           /\ Header(t, my, alt, lba).lba = lba
  BY DEF Header

LEMMA HeaderThere ==
    ASSUME NEW t, NEW my, NEW alt, NEW lba, NEW at, InDevice(at),
           sector[at] = Header(t, my, alt, lba)
    PROVE  ReadHeader(at) = Header(t, my, alt, lba) /\ HasSignature(at)
  BY HeaderAsWritten DEF ReadHeader, HasSignature

LEMMA FirstLbas ==
    ASSUME SizeInv
    PROVE  InDevice(0) /\ InDevice(1) /\ InDevice(LastLba) /\ LastLba \in Nat /\ LastLba > 1
  BY GptSizesAssumption DEF SizeInv, InDevice, LastLba

LEMMA PrimarySurvives ==
    ASSUME StillInv, still, stage = "open", NEW t \in Tables, sector[1] = PrimaryHeader(t),
           \A l \in Place(t, "array") : InDevice(l) /\ sector[l] = Content(t, "array", l)
    PROVE  pf = PrimaryHeader(t) /\ pbytes = [state |-> "read", cells |-> Array(t)]
<1>1. SizeInv /\ pf = ReadHeader(1) /\ pbytes = ReadArray(pf)
  BY DEF StillInv, ReadInv, HeaderNow, ArrayNow, BackupHeaderNow, BackupArrayNow
<1>2. pf = PrimaryHeader(t)
  BY <1>1, FirstLbas, HeaderThere DEF PrimaryHeader
<1>3. ArrayAt(t, 2) /\ Sums(pf, t) /\ pf.lba = 2
  BY <1>2, PrimaryAt
<1> QED
  BY <1>1, <1>2, <1>3, WholeArrayRead

BackupThere(t) ==
    \A piece \in {"backup header", "backup array"} : \A l \in Place(t, piece) :
        InDevice(l) /\ sector[l] = Content(t, piece, l)

\* A backup at the end, or where the primary header that was read says it is.
LEMMA BackupSurvives ==
    ASSUME StillInv, still, stage = "open", NEW t \in Tables, BackupThere(t),
           t.lbas = DeviceLbas \/ (sector[1] = PrimaryHeader(t) /\ ~ HasSignature(LastLba))
    PROVE  /\ blba = t.lbas - 1 /\ bf = BackupHeader(t)
           /\ bbytes = [state |-> "read", cells |-> Array(t)]
<1> DEFINE at == t.lbas - 1
<1>0. at = t.lbas - 1
  OBVIOUS
<1>1. /\ SizeInv /\ pf = ReadHeader(1) /\ blba = BackupLba /\ bf = ReadHeader(blba)
      /\ bbytes = ReadArray(bf)
  BY DEF StillInv, ReadInv, HeaderNow, ArrayNow, BackupHeaderNow, BackupArrayNow
<1>2. InDevice(at) /\ sector[at] = BackupHeader(t)
  BY DEF Place, Content, BackupThere
<1> HIDE DEF at
<1>3. ReadHeader(at) = BackupHeader(t) /\ HasSignature(at)
  BY <1>2, HeaderThere DEF BackupHeader
<1>4. at \in Nat /\ at > 1 /\ at <= LastLba
  <2>1. at \in 0 .. LastLba
    BY <1>1, <1>2 DEF InDevice, SizeInv
  <2>2. t.lbas \in Nat /\ t.lbas > 2
    BY TableSizes
  <2> QED
    BY <1>0, <1>1, <2>1, <2>2, FirstLbas
<1>5. blba = at
  <2>1. CASE t.lbas = DeviceLbas
    BY <1>0, <1>1, <1>3, <2>1 DEF BackupLba, LastLba
  <2>2. CASE sector[1] = PrimaryHeader(t) /\ ~ HasSignature(LastLba)
    <3>1. pf = PrimaryHeader(t)
      BY <1>1, <2>2, FirstLbas, HeaderThere DEF PrimaryHeader
    <3>2. pf.present /\ pf.my = 1 /\ pf.alt = at
      BY <1>0, <3>1, HeaderAsWritten DEF PrimaryHeader
    <3>3. at # 0 /\ at # 1
      BY <1>4
    <3> QED
      BY <1>1, <1>3, <1>4, <2>2, <3>2, <3>3 DEF BackupLba
  <2> QED
    BY <2>1, <2>2
<1>6. bf = BackupHeader(t)
  BY <1>1, <1>3, <1>5
<1>7. ArrayAt(t, bf.lba) /\ Sums(bf, t) /\ bf.lba \in Nat
  <2>1. \A l \in Place(t, "backup array") :
            InDevice(l) /\ sector[l] = Content(t, "backup array", l)
    BY DEF BackupThere
  <2> QED
    BY <1>6, <2>1, BackupAt
<1> QED
  BY <1>0, <1>1, <1>5, <1>6, <1>7, WholeArrayRead

LEMMA SurvivorsRead == StillInv => SurvivorShown
<1> SUFFICES ASSUME StillInv, stage = "open", still, NEW t \in Tables
             PROVE  /\ /\ sector[1] = PrimaryHeader(t)
                       /\ \A l \in Place(t, "array") :
                              InDevice(l) /\ sector[l] = Content(t, "array", l)
                       => pbytes = [state |-> "read", cells |-> Array(t)]
                    /\ /\ \A piece \in {"backup header", "backup array"} :
                              \A l \in Place(t, piece) :
                                  InDevice(l) /\ sector[l] = Content(t, piece, l)
                       /\ \/ t.lbas = DeviceLbas
                          \/ sector[1] = PrimaryHeader(t) /\ ~ HasSignature(LastLba)
                       => bbytes = [state |-> "read", cells |-> Array(t)]
  BY DEF SurvivorShown
<1> QED
  BY PrimarySurvives, BackupSurvives DEF BackupThere

---------------------------------------------------------------------------
(* Nothing is reported of a table that is whole.                           *)

\* The fields of the headers of a table, and where its array ends.
LEMMA HealthyHeader ==
    ASSUME NEW t \in Tables, t.lbas = DeviceLbas, NEW my \in {1, LastLba}, NEW alt \in {1, LastLba},
           my # alt, NEW lba, NEW primary \in BOOLEAN, primary => alt = LastLba
    PROVE  HeaderFindings(Header(t, my, alt, lba), my, primary) = {}
<1> DEFINE f == Header(t, my, alt, lba)
           k == ArrayLbas(t)
<1>1. /\ f.kind = "header" /\ f.present /\ f.revision /\ f.hsize = MinHeaderSize /\ f.genuine
      /\ f.my = my /\ f.alt = alt /\ f.first = 2 + k /\ f.last = t.lbas - k - 2
      /\ f.guid = t.guid /\ f.padding = FALSE
  BY DEF Header
<1>2. /\ k \in Nat /\ 2 + k <= t.lbas - k - 2 /\ t.guid # 0
      /\ MinHeaderSize <= SectorSize /\ MinHeaderSize \in Nat /\ SectorSize \in Nat
  BY UnitsInSectors, ToolsAssumption, GptSizesAssumption
<1>3. LastLba \in Nat /\ LastLba > 1 /\ t.lbas = LastLba + 1
  BY GptSizesAssumption DEF LastLba
<1> HIDE DEF f, k
<1>4. alt # 0 /\ alt # my /\ ~ (alt > LastLba) /\ (primary => ~ (alt < LastLba))
  BY <1>3
<1>5. ~ (f.first > f.last) /\ ~ (f.last > LastLba)
  BY ONLY <1>1, <1>2, <1>3
<1>6. ~ (f.hsize < MinHeaderSize) /\ ~ (f.hsize > SectorSize)
  BY ONLY <1>1, <1>2
<1>7. HeaderFindings(f, my, primary) = {}
  BY <1>1, <1>2, <1>4, <1>5, <1>6 DEF HeaderFindings, Say
<1> QED
  BY <1>7 DEF f

LEMMA HealthyArray ==
    ASSUME NEW t \in Tables, NEW my, NEW alt, NEW lba \in Nat, HasArray(Header(t, my, alt, lba)),
           lba = 2 \/ lba > t.lbas - ArrayLbas(t) - 2
    PROVE  ArrayFindings(Header(t, my, alt, lba), [state |-> "read", cells |-> Array(t)]) = {}
<1> DEFINE f == Header(t, my, alt, lba)
           bytes == [state |-> "read", cells |-> Array(t)]
           k == ArrayLbas(t)
           n == Len(t.slots)
           last == t.lbas - k - 2
           end == f.lba + CeilDiv(f.num * f.size, SectorSize)
<1>1. /\ f.lba = lba /\ f.num = n /\ f.size = MinEntrySize /\ f.acrc = Array(t)
      /\ f.first = 2 + k /\ f.last = last
  BY DEF Header
<1>2. /\ k \in Nat /\ t.lbas \in Nat /\ n \in 1 .. MaxEntries /\ MinEntrySize <= MaxEntrySize
      /\ MinEntrySize % EntryAlign = 0 /\ MaxEntries \in Nat /\ MaxEntrySize \in Nat
      /\ MinEntrySize \in Nat
  BY UnitsInSectors, TableSizes, ToolsAssumption, GptSizesAssumption
<1>3. end = lba + k
  BY <1>1 DEF ArrayLbas, ArrayUnits
<1>4. last \in Int
  BY <1>2
<1>5. ~ (f.lba <= f.last /\ f.first < end)
  <2> HIDE DEF f, k, last, end
  <2>1. CASE lba = 2
    BY ONLY <1>1, <1>2, <1>3, <2>1
  <2>2. CASE lba > last
    BY ONLY <1>1, <1>4, <2>2, lba \in Nat
  <2> QED
    BY <2>1, <2>2 DEF last, k
<1>6. f.num # 0 /\ ~ (f.num > MaxEntries)
  <2> HIDE DEF f, n
  <2> QED
    BY <1>1, <1>2
<1>7. /\ ~ (f.size < MinEntrySize) /\ ~ (f.size % EntryAlign # 0) /\ ~ (f.size > MaxEntrySize)
  <2> HIDE DEF f
  <2> QED
    BY <1>1, <1>2
<1>8. bytes.state = "read" /\ bytes.cells = f.acrc
  BY <1>1
<1>9. HasArray(f)
  OBVIOUS
<1>10. ArrayFindings(f, bytes)
         = Say(f.size < MinEntrySize \/ f.size % EntryAlign # 0 \/ f.size > MaxEntrySize,
               "bad", "entry_size")
           \cup Say(f.num = 0, "warn", "num_entries")
           \cup Say(f.num > MaxEntries, "bad", "num_entries")
           \cup Say(~HasArray(f), "bad", "entries_lba")
           \cup Say(/\ bytes.state # "overflow" /\ f.num * f.size > 0
                    /\ f.first <= f.last /\ f.lba <= f.last /\ f.first < end,
                    "warn", "array in usable range")
           \cup Say(bytes.state \in {"empty", "too long"}, "warn", "entries_crc32")
           \cup Say(bytes.state = "outside", "bad", "entries_crc32")
           \cup Say(bytes.state = "unreadable", "unreadable", "entries_crc32")
           \cup Say(bytes.state = "read" /\ bytes.cells # f.acrc, "bad", "entries_crc32")
  BY DEF ArrayFindings
<1> HIDE DEF f, bytes, end
<1>11. ArrayFindings(f, bytes) = {}
  BY <1>5, <1>6, <1>7, <1>8, <1>9, <1>10 DEF Say
<1> QED
  BY <1>11 DEF f, bytes

\* What the pieces of a whole table are.
LEMMA WholePieces ==
    ASSUME NEW t \in Tables, Whole(t)
    PROVE  /\ t.lbas = DeviceLbas /\ sector[0] = ProtectiveMbr(t)
           /\ sector[1] = PrimaryHeader(t) /\ BackupThere(t)
           /\ \A l \in Place(t, "array") : InDevice(l) /\ sector[l] = Content(t, "array", l)
<1>1. t.lbas = DeviceLbas
  BY DEF Whole
<1>2. \A piece \in Pieces : \A l \in Place(t, piece) :
          InDevice(l) /\ sector[l] = Content(t, piece, l)
  BY DEF Whole, Holds, InDevice
<1>3. {"mbr", "header", "array", "backup header", "backup array"} = Pieces
  BY DEF Pieces
<1>4. sector[0] = ProtectiveMbr(t)
  BY <1>2, <1>3 DEF Place, Content
<1>5. sector[1] = PrimaryHeader(t)
  BY <1>2, <1>3 DEF Place, Content
<1>6. BackupThere(t)
  BY ONLY <1>2, <1>3 DEF BackupThere
<1>7. \A l \in Place(t, "array") : InDevice(l) /\ sector[l] = Content(t, "array", l)
  BY ONLY <1>2, <1>3
<1> QED
  BY <1>1, <1>4, <1>5, <1>6, <1>7

\* The two headers of a table differ in mirrored fields only, and mirror each other.
LEMMA HealthyCopies ==
    ASSUME NEW t \in Tables, NEW bytes
    PROVE  \A finding \in CompareFindings(PrimaryHeader(t), BackupHeader(t), bytes, bytes) :
               finding[1] = "info"
<1> DEFINE p == PrimaryHeader(t)
           b == BackupHeader(t)
           k == ArrayLbas(t)
<1>1. /\ p.kind = "header" /\ b.kind = "header" /\ p.present /\ b.present
      /\ p.my = 1 /\ p.alt = t.lbas - 1 /\ b.my = t.lbas - 1 /\ b.alt = 1
      /\ b.lba = t.lbas - 1 - k
      /\ b.num = Len(t.slots) /\ b.size = MinEntrySize
  BY DEF PrimaryHeader, BackupHeader, Header
<1>2. \A x \in Compared : p[x] = b[x]
  <2>1. /\ p.present = b.present /\ p.revision = b.revision /\ p.hsize = b.hsize
        /\ p.first = b.first /\ p.last = b.last /\ p.guid = b.guid /\ p.num = b.num
        /\ p.size = b.size /\ p.acrc = b.acrc
    BY DEF PrimaryHeader, BackupHeader, Header
  <2> HIDE DEF p, b
  <2> QED
    BY <2>1 DEF Compared
<1>3. DiffHeaders(p, b) = {}
  <2> HIDE DEF p, b
  <2> QED
    BY <1>1, <1>2 DEF DiffHeaders
<1>4. MirrorFindings(p, b) = {}
  <2>1. k \in Nat /\ t.lbas \in Nat
    BY UnitsInSectors, TableSizes
  <2>2. CeilDiv(b.num * b.size, SectorSize) = k
    BY <1>1 DEF ArrayLbas, ArrayUnits
  <2>3. b.lba + CeilDiv(b.num * b.size, SectorSize) = b.my
    <3> HIDE DEF b, p, k
    <3> QED
      BY <1>1, <2>1, <2>2
  <2> HIDE DEF b, p
  <2> QED
    BY <1>1, <2>3 DEF MirrorFindings, Say
<1> HIDE DEF b, p
<1>5. ASSUME NEW finding \in CompareFindings(p, b, bytes, bytes)
      PROVE  finding[1] = "info"
  <2>1. CompareFindings(p, b, bytes, bytes)
          = {<<"bad", x>> : x \in {}} \cup {}
            \cup Say(bytes.state = "read" /\ bytes.state = "read" /\ bytes # bytes,
                    "bad", "arrays differ")
            \cup Say(p.present /\ b.present, "info", "headers agree")
    BY <1>3, <1>4 DEF CompareFindings
  <2>2. finding = <<"info", "headers agree">>
    BY <1>5, <2>1 DEF Say
  <2> QED
    BY <2>2
<1> QED
  BY <1>5 DEF p, b

LEMMA HealthyScore ==
    ASSUME NEW t \in Tables, t.lbas = DeviceLbas
    PROVE  Score(PrimaryHeader(t)) = 100
<1> DEFINE f == PrimaryHeader(t)
<1>1. /\ f.present = TRUE /\ f.revision = TRUE /\ f.hsize = MinHeaderSize
      /\ f.my = 1 /\ f.alt = LastLba /\ f.num = Len(t.slots) /\ f.size = MinEntrySize
  BY DEF PrimaryHeader, Header, LastLba
<1>2. f.hsize \in MinHeaderSize .. SectorSize
  BY <1>1, ToolsAssumption, GptSizesAssumption
<1>3. f.alt # 0 /\ f.alt # f.my /\ f.alt <= LastLba
  BY <1>1, GptSizesAssumption DEF LastLba
<1>4. f.size \in MinEntrySize .. MaxEntrySize /\ f.size % EntryAlign = 0
  BY <1>1, ToolsAssumption, GptSizesAssumption
<1>5. f.num \in 1 .. MaxEntries
  BY <1>1, ToolsAssumption
<1> HIDE DEF f
<1>6. Score(f) = 50 + 8 + 7 + 10 + 10 + 8 + 7
  BY <1>1, <1>2, <1>3, <1>4, <1>5 DEF Score
<1> QED
  BY <1>6 DEF f

LEMMA HealthyRead == StillInv => HealthyIsQuiet
<1> SUFFICES ASSUME StillInv, stage = "open", still, NEW t \in Tables, Whole(t)
             PROVE  Quiet /\ score = 100
  BY DEF HealthyIsQuiet
<1> DEFINE bytes == [state |-> "read", cells |-> Array(t)]
           p == PrimaryHeader(t)
           b == BackupHeader(t)
<1>1. /\ t.lbas = DeviceLbas /\ sector[0] = ProtectiveMbr(t)
      /\ sector[1] = p /\ BackupThere(t)
      /\ \A l \in Place(t, "array") : InDevice(l) /\ sector[l] = Content(t, "array", l)
  BY WholePieces
<1>2. pf = p /\ pbytes = bytes
  BY <1>1, PrimarySurvives
<1>3. blba = LastLba /\ bf = b /\ bbytes = bytes
  BY <1>1, BackupSurvives DEF LastLba
<1>4. score = ScoreNow /\ mbr = ProtectiveMbr(t) /\ HeaderNow = pf /\ SizeInv
  BY <1>1 DEF StillInv, ReadInv, FrontNow
<1>5. score = 100
  <2>1. ScoreNow = Score(pf)
    BY <1>4 DEF ScoreNow, HeaderNow
  <2> QED
    BY <1>1, <1>2, <1>4, <2>1, HealthyScore
<1>6. LastLba \in Nat /\ LastLba > 1 /\ t.lbas - 1 = LastLba
  BY <1>1, GptSizesAssumption DEF LastLba
<1>7. HeaderFindings(pf, 1, TRUE) = {}
  <2>1. pf = Header(t, 1, LastLba, 2)
    BY <1>2, <1>6 DEF PrimaryHeader
  <2>2. 1 \in {1, LastLba} /\ LastLba \in {1, LastLba} /\ 1 # LastLba
    BY <1>6
  <2>3. HeaderFindings(Header(t, 1, LastLba, 2), 1, TRUE) = {}
    BY <1>1, <2>2, HealthyHeader
  <2> QED
    BY <2>1, <2>3
<1>8. HeaderFindings(bf, blba, FALSE) = {}
  <2>1. bf = Header(t, LastLba, 1, t.lbas - 1 - ArrayLbas(t))
    BY <1>3, <1>6 DEF BackupHeader
  <2>2. 1 \in {1, LastLba} /\ LastLba \in {1, LastLba} /\ 1 # LastLba
    BY <1>6
  <2>3. HeaderFindings(Header(t, LastLba, 1, t.lbas - 1 - ArrayLbas(t)), LastLba, FALSE) = {}
    BY <1>1, <2>2, HealthyHeader
  <2> QED
    BY <1>3, <2>1, <2>3
<1>9. ArrayFindings(pf, pbytes) = {}
  <2>1. HasArray(p)
    BY <1>1, <1>4, PrimaryAt, WholeArrayRead
  <2> QED
    BY <1>2, <2>1, HealthyArray DEF PrimaryHeader
<1>10. ArrayFindings(bf, bbytes) = {}
  <2>1. \A l \in Place(t, "backup array") :
            InDevice(l) /\ sector[l] = Content(t, "backup array", l)
    BY <1>1 DEF BackupThere
  <2>2. HasArray(b) /\ b.lba \in Nat
    BY <1>4, <2>1, BackupAt, WholeArrayRead
  <2>3. b.lba = t.lbas - 1 - ArrayLbas(t)
    BY DEF BackupHeader, Header
  <2>4. b.lba > t.lbas - ArrayLbas(t) - 2
    <3>1. ArrayLbas(t) \in Nat /\ t.lbas \in Nat
      BY UnitsInSectors, TableSizes
    <3> QED
      BY <2>3, <3>1
  <2> QED
    BY <1>3, <2>2, <2>3, <2>4, HealthyArray DEF BackupHeader
<1>11. \A finding \in CompareFindings(pf, bf, pbytes, bbytes) : finding[1] = "info"
  BY <1>2, <1>3, HealthyCopies
<1>12. MbrFindings(mbr) = {}
  <2>1. /\ mbr.kind = "mbr" /\ mbr.signed /\ mbr.protective = 1 /\ mbr.other = 0
        /\ mbr.start = 1 /\ mbr.count = LastLba
    BY <1>4, <1>6 DEF ProtectiveMbr, Mbr
  <2> QED
    BY <2>1 DEF MbrFindings, Say
<1>13. PresenceFindings(pf, bf) = {}
  <2>1. pf.present /\ bf.present
    BY <1>2, <1>3, HeaderAsWritten DEF PrimaryHeader, BackupHeader
  <2> QED
    BY <2>1 DEF PresenceFindings, Say
<1>14. Report = CompareFindings(pf, bf, pbytes, bbytes)
  BY <1>7, <1>8, <1>9, <1>10, <1>12, <1>13 DEF Report
<1> QED
  BY <1>5, <1>11, <1>14 DEF Quiet

\* A copy that is whole is offered in whole whatever became of the other one, for
\* every device, all tables and any damage: the code reads the backup where
\* locate_backup finds it, and the array where its own header says.
THEOREM AlwaysSurvivor == Spec => []SurvivorShown
<1>1. Init => StillInv
  BY InitStill
<1>2. StillInv /\ [Next]_vars => StillInv'
  BY NextStill
<1>3. StillInv => SurvivorShown
  BY SurvivorsRead
<1> QED
  BY <1>1, <1>2, <1>3, PTL DEF Spec

\* Of a table that is whole and stays so while it is read nothing but agreement is
\* reported, and the probe is sure of it, for every device and all tables: none of
\* the checks of the reader, and no comparison of the copies, is a false alarm.
THEOREM AlwaysHealthy == Spec => []HealthyIsQuiet
<1>1. Init => StillInv
  BY InitStill
<1>2. StillInv /\ [Next]_vars => StillInv'
  BY NextStill
<1>3. StillInv => HealthyIsQuiet
  BY HealthyRead
<1> QED
  BY <1>1, <1>2, <1>3, PTL DEF Spec

---------------------------------------------------------------------------
(* Who overlaps whom.                                                      *)

Together(list, x, y) == x # y /\ Live(list[x]) /\ Live(list[y]) /\ Overlap(list[x], list[y])

\* The loop over pairs has had x and y once the row i is done up to j.
Had(i, j, x, y) ==
    \/ x < y /\ (x < i \/ (x = i /\ y <= j))
    \/ y < x /\ (y < i \/ (y = i /\ x <= j))

Met(list, i, j, x) == {y \in 1 .. Len(list) : Together(list, x, y) /\ Had(i, j, x, y)}

Tally(n) == [named : [1 .. n -> Nat], unnamed : [1 .. n -> Nat]]

Counted(list, i, j, acc) ==
    /\ acc \in Tally(Len(list))
    /\ \A x \in 1 .. Len(list) :
           /\ acc.named[x] + acc.unnamed[x] = Cardinality(Met(list, i, j, x))
           /\ acc.named[x] <= MaxOverlapDiags

LEMMA MetFinite ==
    ASSUME NEW list, Len(list) \in Nat, NEW i, NEW j, NEW x
    PROVE  IsFiniteSet(Met(list, i, j, x)) /\ Cardinality(Met(list, i, j, x)) \in Nat
<1>1. IsFiniteSet(1 .. Len(list))
  BY FS_Interval
<1>2. Met(list, i, j, x) \subseteq 1 .. Len(list)
  BY DEF Met
<1> QED
  BY <1>1, <1>2, FS_Subset, FS_CardinalityType

\* A turn of the loop adds each entry of the pair to those the other one has met.
LEMMA MetNext ==
    ASSUME NEW list, Len(list) \in Nat, NEW i \in 1 .. Len(list), NEW j \in 1 .. Len(list),
           NEW x \in 1 .. Len(list), i < j, Together(list, i, j)
    PROVE  /\ x = i => Met(list, i, j, x) = Met(list, i, j - 1, x) \cup {j}
           /\ x = j => Met(list, i, j, x) = Met(list, i, j - 1, x) \cup {i}
           /\ x \notin {i, j} => Met(list, i, j, x) = Met(list, i, j - 1, x)
           /\ j \notin Met(list, i, j - 1, i) /\ i \notin Met(list, i, j - 1, j)
<1>1. Together(list, j, i)
  BY DEF Together, Overlap
<1>2. ASSUME NEW y \in 1 .. Len(list)
      PROVE  Had(i, j, x, y) <=> Had(i, j - 1, x, y) \/ (x = i /\ y = j) \/ (x = j /\ y = i)
  BY DEF Had
<1>3. ~ Had(i, j - 1, i, j) /\ ~ Had(i, j - 1, j, i)
  BY DEF Had
<1>4. ASSUME x = i PROVE Met(list, i, j, x) = Met(list, i, j - 1, x) \cup {j}
  BY <1>2, <1>4 DEF Met
<1>5. ASSUME x = j PROVE Met(list, i, j, x) = Met(list, i, j - 1, x) \cup {i}
  BY <1>1, <1>2, <1>5 DEF Met
<1>6. ASSUME x \notin {i, j} PROVE Met(list, i, j, x) = Met(list, i, j - 1, x)
  BY <1>2, <1>6 DEF Met
<1>7. j \notin Met(list, i, j - 1, i) /\ i \notin Met(list, i, j - 1, j)
  BY <1>3 DEF Met
<1> QED
  BY <1>4, <1>5, <1>6, <1>7

\* A turn that passes leaves them as they are.
LEMMA MetSame ==
    ASSUME NEW list, Len(list) \in Nat, NEW i \in 1 .. Len(list), NEW j \in 1 .. Len(list),
           NEW x \in 1 .. Len(list), ~ (i < j /\ Together(list, i, j))
    PROVE  Met(list, i, j, x) = Met(list, i, j - 1, x)
<1>1. ASSUME NEW y \in 1 .. Len(list), Together(list, x, y)
      PROVE  Had(i, j, x, y) <=> Had(i, j - 1, x, y)
  <2>1. Together(list, y, x)
    BY <1>1 DEF Together, Overlap
  <2>2. ~ (i < j /\ x = i /\ y = j) /\ ~ (i < j /\ x = j /\ y = i)
    BY <1>1, <2>1
  <2> QED
    BY <2>2 DEF Had
<1> QED
  BY <1>1 DEF Met

LEMMA CountPairType ==
    ASSUME NEW n \in Nat, NEW pair, NEW acc \in Tally(n)
    PROVE  /\ CountPair(pair, acc) \in Tally(n)
           /\ \A x \in 1 .. n :
                  /\ x \notin pair => /\ CountPair(pair, acc).named[x] = acc.named[x]
                                     /\ CountPair(pair, acc).unnamed[x] = acc.unnamed[x]
                  /\ x \in pair /\ acc.named[x] >= MaxOverlapDiags =>
                         /\ CountPair(pair, acc).named[x] = acc.named[x]
                         /\ CountPair(pair, acc).unnamed[x] = acc.unnamed[x] + 1
                  /\ x \in pair /\ ~ (acc.named[x] >= MaxOverlapDiags) =>
                         /\ CountPair(pair, acc).named[x] = acc.named[x] + 1
                         /\ CountPair(pair, acc).unnamed[x] = acc.unnamed[x]
<1> DEFINE full == {x \in pair : acc.named[x] >= MaxOverlapDiags}
           c == CountPair(pair, acc)
<1>1. DOMAIN acc.named = 1 .. n /\ DOMAIN acc.unnamed = 1 .. n
  BY DEF Tally
<1>2. /\ c.named = [x \in 1 .. n |-> acc.named[x] + IF x \in pair \ full THEN 1 ELSE 0]
      /\ c.unnamed = [x \in 1 .. n |-> acc.unnamed[x] + IF x \in full THEN 1 ELSE 0]
      /\ c = [named |-> c.named, unnamed |-> c.unnamed]
  BY <1>1 DEF CountPair
<1>3. \A x \in 1 .. n : acc.named[x] \in Nat /\ acc.unnamed[x] \in Nat
  BY DEF Tally
<1>4. \A x \in 1 .. n : /\ acc.named[x] + (IF x \in pair \ full THEN 1 ELSE 0) \in Nat
                        /\ acc.unnamed[x] + (IF x \in full THEN 1 ELSE 0) \in Nat
  BY <1>3
<1>5. c \in Tally(n)
  BY <1>2, <1>4 DEF Tally
<1> HIDE DEF c
<1>6. ASSUME NEW x \in 1 .. n
      PROVE  /\ c.named[x] = acc.named[x] + IF x \in pair \ full THEN 1 ELSE 0
             /\ c.unnamed[x] = acc.unnamed[x] + IF x \in full THEN 1 ELSE 0
  BY <1>2
<1>7. ASSUME NEW x \in 1 .. n
      PROVE  /\ x \notin pair => c.named[x] = acc.named[x] /\ c.unnamed[x] = acc.unnamed[x]
             /\ x \in pair /\ acc.named[x] >= MaxOverlapDiags =>
                    c.named[x] = acc.named[x] /\ c.unnamed[x] = acc.unnamed[x] + 1
             /\ x \in pair /\ ~ (acc.named[x] >= MaxOverlapDiags) =>
                    c.named[x] = acc.named[x] + 1 /\ c.unnamed[x] = acc.unnamed[x]
  BY <1>3, <1>6
<1> QED
  BY <1>5, <1>7 DEF c

LEMMA MarkPairCounts ==
    ASSUME NEW list, Len(list) \in Nat, NEW i \in 1 .. Len(list), NEW j \in 1 .. Len(list),
           NEW acc \in Tally(Len(list))
    PROVE  /\ MarkPair(list, i, j, acc) \in Tally(Len(list))
           /\ Counted(list, i, j - 1, acc) => Counted(list, i, j, MarkPair(list, i, j, acc))
<1> DEFINE n == Len(list)
           c == MarkPair(list, i, j, acc)
<1>1. CASE i < j /\ Together(list, i, j)
  <2>1. c = CountPair({i, j}, acc)
    BY <1>1 DEF MarkPair, Together
  <2>2. c \in Tally(n)
    BY <2>1, CountPairType
  <2>3. ASSUME Counted(list, i, j - 1, acc), NEW x \in 1 .. n
        PROVE  /\ c.named[x] + c.unnamed[x] = Cardinality(Met(list, i, j, x))
               /\ c.named[x] <= MaxOverlapDiags
    <3>1. /\ acc.named[x] + acc.unnamed[x] = Cardinality(Met(list, i, j - 1, x))
          /\ acc.named[x] <= MaxOverlapDiags
          /\ acc.named[x] \in Nat /\ acc.unnamed[x] \in Nat /\ MaxOverlapDiags \in Nat
      BY <2>3, GptSizesAssumption DEF Counted, Tally
    <3>2. CASE x \notin {i, j}
      <4>1. c.named[x] = acc.named[x] /\ c.unnamed[x] = acc.unnamed[x]
        BY <2>1, <3>2, CountPairType
      <4>2. Met(list, i, j, x) = Met(list, i, j - 1, x)
        BY <1>1, <3>2, MetNext
      <4> QED
        BY <3>1, <4>1, <4>2
    <3>3. CASE x \in {i, j}
      <4>1. /\ c.named[x] + c.unnamed[x] = acc.named[x] + acc.unnamed[x] + 1
            /\ c.named[x] <= MaxOverlapDiags
        <5>1. CASE acc.named[x] >= MaxOverlapDiags
          <6>1. c.named[x] = acc.named[x] /\ c.unnamed[x] = acc.unnamed[x] + 1
            BY <2>1, <3>3, <5>1, CountPairType
          <6> QED
            BY <3>1, <6>1
        <5>2. CASE ~ (acc.named[x] >= MaxOverlapDiags)
          <6>1. c.named[x] = acc.named[x] + 1 /\ c.unnamed[x] = acc.unnamed[x]
            BY <2>1, <3>3, <5>2, CountPairType
          <6> QED
            BY <3>1, <5>2, <6>1
        <5> QED
          BY <5>1, <5>2
      <4>2. PICK y : y \notin Met(list, i, j - 1, x)
                     /\ Met(list, i, j, x) = Met(list, i, j - 1, x) \cup {y}
        BY <1>1, <3>3, MetNext
      <4>3. Cardinality(Met(list, i, j, x)) = Cardinality(Met(list, i, j - 1, x)) + 1
        BY <4>2, MetFinite, FS_AddElement
      <4> QED
        BY <3>1, <4>1, <4>3
    <3> QED
      BY <3>2, <3>3
  <2> QED
    BY <2>2, <2>3 DEF Counted
<1>2. CASE ~ (i < j /\ Together(list, i, j))
  <2>1. c = acc
    BY <1>2 DEF MarkPair, Together
  <2>2. \A x \in 1 .. n : Met(list, i, j, x) = Met(list, i, j - 1, x)
    BY <1>2, MetSame
  <2> QED
    BY <2>1, <2>2 DEF Counted
<1> QED
  BY <1>1, <1>2

\* One row counts the partners of every entry as far as the row goes.
LEMMA MarkRowCounts ==
    ASSUME NEW list, Len(list) \in Nat, NEW i \in 1 .. Len(list), NEW acc \in Tally(Len(list))
    PROVE  /\ MarkRow(list, i, acc) \in Tally(Len(list))
           /\ Counted(list, i - 1, Len(list), acc) =>
                  Counted(list, i, Len(list), MarkRow(list, i, acc))
<1> DEFINE n == Len(list)
           step == [j \in 1 .. n |-> [a \in Tally(n) |-> MarkPair(list, i, j, a)]]
           Loop(f) == f = [j \in 0 .. n |-> IF j = 0 THEN acc
                                            ELSE MarkPair(list, i, j, f[j - 1])]
           row == CHOOSE f : Loop(f)
           Good == [j \in 0 .. n |->
                       {a \in Tally(n) : Counted(list, i, 0, acc) => Counted(list, i, j, a)}]
<1>1. \A j \in 1 .. n, a \in Tally(n) : MarkPair(list, i, j, a) \in Tally(n)
  BY MarkPairCounts
<1>2. step \in [1 .. n -> [Tally(n) -> Tally(n)]]
  BY <1>1
<1>3. PICK f \in [0 .. n -> Tally(n)] : Runs(f, n, acc, step)
  <2> HIDE DEF step
  <2> QED
    BY <1>2, LoopRuns
<1>4. ASSUME NEW j \in 1 .. n PROVE step[j][f[j - 1]] = MarkPair(list, i, j, f[j - 1])
  <2>1. f[j - 1] \in Tally(n)
    OBVIOUS
  <2> QED
    BY <2>1
<1>5. Loop(f)
  <2> HIDE DEF step
  <2> QED
    BY <1>3, <1>4 DEF Runs
<1>6. Loop(row)
  BY <1>5
<1>7. MarkRow(list, i, acc) = row[n]
  BY DEF MarkRow
<1> HIDE DEF row
<1>8. row[0] = acc /\ \A j \in 1 .. n : row[j] = MarkPair(list, i, j, row[j - 1])
  BY <1>6
<1>9. row[0] \in Good[0]
  BY <1>8
<1>10. ASSUME NEW j \in 1 .. n, row[j - 1] \in Good[j - 1] PROVE row[j] \in Good[j]
  <2>1. row[j - 1] \in Tally(n) /\ (Counted(list, i, 0, acc) => Counted(list, i, j - 1, row[j - 1]))
    BY <1>10
  <2>2. row[j] \in Tally(n) /\ (Counted(list, i, 0, acc) => Counted(list, i, j, row[j]))
    BY <1>8, <2>1, MarkPairCounts
  <2> QED
    BY <2>2
<1>11. row[n] \in Good[n]
  <2>1. n \in Nat
    OBVIOUS
  <2> HIDE DEF n, Good
  <2> QED
    BY <1>9, <1>10, <2>1, LoopKeeps
<1>12. ASSUME Counted(list, i - 1, n, acc) PROVE Counted(list, i, 0, acc)
  <2>1. \A x, y \in 1 .. n : Had(i - 1, n, x, y) <=> Had(i, 0, x, y)
    BY DEF Had
  <2>2. \A x \in 1 .. n : Met(list, i - 1, n, x) = Met(list, i, 0, x)
    BY <2>1 DEF Met
  <2> QED
    BY <1>12, <2>2 DEF Counted
<1> QED
  BY <1>7, <1>11, <1>12

\* All rows together count them all.
LEMMA OverlapsCount ==
    ASSUME NEW list, Len(list) \in Nat, DOMAIN list = 1 .. Len(list)
    PROVE  Counted(list, Len(list), Len(list), Overlaps(list))
<1> DEFINE n == Len(list)
           none == [x \in DOMAIN list |-> 0]
           base == [named |-> none, unnamed |-> none]
           step == [i \in 1 .. n |-> [a \in Tally(n) |-> MarkRow(list, i, a)]]
           Loop(f) == f = [i \in 0 .. n |-> IF i = 0 THEN base ELSE MarkRow(list, i, f[i - 1])]
           rows == CHOOSE f : Loop(f)
           Good == [i \in 0 .. n |-> {a \in Tally(n) : Counted(list, i, n, a)}]
<1>0. base \in Tally(n)
  BY DEF Tally
<1>1. step \in [1 .. n -> [Tally(n) -> Tally(n)]]
  BY MarkRowCounts
<1>2. PICK f \in [0 .. n -> Tally(n)] : Runs(f, n, base, step)
  <2> HIDE DEF step, base
  <2> QED
    BY <1>0, <1>1, LoopRuns
<1>3. ASSUME NEW i \in 1 .. n PROVE step[i][f[i - 1]] = MarkRow(list, i, f[i - 1])
  <2>1. f[i - 1] \in Tally(n)
    OBVIOUS
  <2> QED
    BY <2>1
<1>4. Loop(f)
  <2> HIDE DEF step, base
  <2> QED
    BY <1>2, <1>3 DEF Runs
<1>5. Loop(rows)
  BY <1>4
<1>6. Overlaps(list) = rows[n]
  BY DEF Overlaps
<1> HIDE DEF rows
<1>7. rows[0] = base /\ \A i \in 1 .. n : rows[i] = MarkRow(list, i, rows[i - 1])
  <2> HIDE DEF base
  <2> QED
    BY <1>5
<1>8. rows[0] \in Good[0]
  <2>1. ASSUME NEW x \in 1 .. n
        PROVE  /\ base.named[x] + base.unnamed[x] = Cardinality(Met(list, 0, n, x))
               /\ base.named[x] <= MaxOverlapDiags
    <3>1. Met(list, 0, n, x) = {}
      BY DEF Met, Had
    <3>2. Cardinality(Met(list, 0, n, x)) = 0
      BY <3>1, FS_EmptySet
    <3> QED
      BY <3>2, GptSizesAssumption
  <2>2. Counted(list, 0, n, base)
    <3> HIDE DEF base
    <3> QED
      BY <1>0, <2>1 DEF Counted
  <2> QED
    BY <1>0, <1>7, <2>2
<1>9. ASSUME NEW i \in 1 .. n, rows[i - 1] \in Good[i - 1] PROVE rows[i] \in Good[i]
  <2>1. rows[i - 1] \in Tally(n) /\ Counted(list, i - 1, n, rows[i - 1])
    BY <1>9
  <2>2. rows[i] \in Tally(n) /\ Counted(list, i, n, rows[i])
    BY <1>7, <2>1, MarkRowCounts
  <2> QED
    BY <2>2
<1>10. rows[n] \in Good[n]
  <2>1. n \in Nat
    OBVIOUS
  <2> HIDE DEF n, Good
  <2> QED
    BY <1>8, <1>9, <2>1, LoopKeeps
<1> QED
  BY <1>6, <1>10

---------------------------------------------------------------------------
(* The number of entries is a number; what is opened is counted.           *)

HasCount(f) == "num" \in DOMAIN f /\ f.num \in Nat

CountInv ==
    /\ \A l \in DOMAIN sector : sector[l].kind = "header" => HasCount(sector[l])
    /\ HasCount(pf) /\ target \in Tables /\ todo \subseteq Pieces
    /\ OverlapsCounted

LEMMA ExpandedCounted ==
    ASSUME NEW f, HasCount(f), NEW i \in DOMAIN Expanded(f)
    PROVE  LET x == Expanded(f)[i]
               partners == {j \in DOMAIN Expanded(f) \ {i} :
                               /\ Live(Expanded(f)[j].entry) /\ Live(x.entry)
                               /\ Overlap(Expanded(f)[j].entry, x.entry)}
           IN  /\ x.named + x.unnamed = Cardinality(partners)
               /\ x.named <= MaxOverlapDiags
<1> DEFINE n == EntryCount(f)
           list == [k \in 1 .. n |-> EntryAt(LbaToByte(f.lba) + (k - 1) * Stride(f))]
           marks == Overlaps(list)
           x == Expanded(f)[i]
           partners == {j \in DOMAIN Expanded(f) \ {i} :
                           /\ Live(Expanded(f)[j].entry) /\ Live(x.entry)
                           /\ Overlap(Expanded(f)[j].entry, x.entry)}
<1>1. n \in Nat
  BY GptSizesAssumption DEF EntryCount, HasCount
<1>2. Len(list) = n /\ DOMAIN list = 1 .. n
  <2> HIDE DEF n
  <2> DEFINE S == {EntryAt(LbaToByte(f.lba) + (k - 1) * Stride(f)) : k \in 1 .. n}
  <2>1. list \in [1 .. n -> S]
    OBVIOUS
  <2> HIDE DEF list, S
  <2>2. list \in Seq(S)
    BY <1>1, <2>1
  <2> QED
    BY <1>1, <2>1, <2>2
<1>3. Expanded(f) = [k \in DOMAIN list |->
            [entry |-> list[k], findings |-> EntryFindings(list[k], f),
             named |-> marks.named[k], unnamed |-> marks.unnamed[k]]]
  BY DEF Expanded
<1> HIDE DEF list, n
<1>4. DOMAIN Expanded(f) = 1 .. n
      /\ \A k \in 1 .. n : /\ Expanded(f)[k].entry = list[k]
                           /\ Expanded(f)[k].named = marks.named[k]
                           /\ Expanded(f)[k].unnamed = marks.unnamed[k]
  BY <1>2, <1>3
<1>5. i \in 1 .. n
  BY <1>4
<1>6. Counted(list, n, n, marks)
  BY <1>1, <1>2, OverlapsCount
<1>7. /\ x.named + x.unnamed = Cardinality(Met(list, n, n, i))
      /\ x.named <= MaxOverlapDiags
  BY <1>2, <1>4, <1>5, <1>6 DEF Counted
<1>8. partners = Met(list, n, n, i)
  <2>1. \A y \in 1 .. n : Had(n, n, i, y) <=> i # y
    BY <1>1, <1>5 DEF Had
  <2>2. \A y \in 1 .. n : Together(list, i, y) <=>
            i # y /\ Live(list[y]) /\ Live(list[i]) /\ Overlap(list[y], list[i])
    BY DEF Together, Overlap
  <2> QED
    BY <1>2, <1>4, <1>5, <2>1, <2>2 DEF Met
<1> QED
  BY <1>7, <1>8

LEMMA ReadCount ==
    ASSUME CountInv, NEW lba
    PROVE  HasCount(ReadHeader(lba))
<1>1. \A kind : HasCount(NoFacts(kind))
  BY DEF NoFacts, HasCount
<1> QED
  BY <1>1 DEF ReadHeader, InDevice, CountInv

LEMMA ContentCount ==
    ASSUME NEW t \in Tables, NEW piece \in Pieces, NEW l, Content(t, piece, l).kind = "header"
    PROVE  HasCount(Content(t, piece, l))
<1>1. piece \in {"header", "backup header"}
  BY DEF Content, Pieces, ProtectiveMbr, Mbr, ArraySector
<1>2. Content(t, piece, l) \in {PrimaryHeader(t), BackupHeader(t)}
  BY <1>1 DEF Content
<1>3. HasCount(PrimaryHeader(t)) /\ HasCount(BackupHeader(t))
  BY GptTablesAssumption DEF PrimaryHeader, BackupHeader, Header, HasCount
<1> QED
  BY <1>2, <1>3

LEMMA DamagedCount ==
    ASSUME NEW h, HasCount(h), NEW field \in DOMAIN DamagedField, NEW v \in DamagedField[field]
    PROVE  HasCount(DamagedHeader(h, field, v))
<1>1. field = "num" => v \in Nat
  BY GptTablesAssumption
<1> QED
  BY <1>1 DEF DamagedHeader, HasCount

LEMMA InitCount == Init => CountInv
<1> SUFFICES ASSUME Init PROVE CountInv
  OBVIOUS
<1>1. PICK t \in Tables :
          sector = [l \in 0 .. LastLba |->
                       IF \E piece \in Pieces : l \in Place(t, piece)
                       THEN Content(t, CHOOSE piece \in Pieces : l \in Place(t, piece), l)
                       ELSE Zero]
  BY DEF Init
<1>2. \A piece \in Pieces : \A l :
        Content(t, piece, l).kind = "header" => HasCount(Content(t, piece, l))
  BY ContentCount
<1>3. ASSUME NEW l \in DOMAIN sector, sector[l].kind = "header" PROVE HasCount(sector[l])
  <2>1. CASE \E piece \in Pieces : l \in Place(t, piece)
    <3>1. PICK piece \in Pieces : sector[l] = Content(t, piece, l)
      BY <1>1, <2>1
    <3> QED
      BY <1>2, <1>3, <3>1
  <2>2. CASE ~ \E piece \in Pieces : l \in Place(t, piece)
    <3>1. sector[l] = Zero
      BY <1>1, <2>2
    <3> QED
      BY <1>3, <3>1 DEF Zero
  <2> QED
    BY <2>1, <2>2
<1>4. HasCount(pf) /\ target \in Tables /\ todo \subseteq Pieces
  BY DEF Init, NoFacts, HasCount
<1>5. OverlapsCounted
  BY DEF Init, Closed, OverlapsCounted
<1> QED
  BY <1>3, <1>4, <1>5 DEF CountInv

LEMMA NextCount == CountInv /\ [Next]_vars => CountInv'
<1> SUFFICES ASSUME CountInv, [Next]_vars PROVE CountInv'
  OBVIOUS
<1>1. ASSUME UNCHANGED entries PROVE OverlapsCounted'
  BY <1>1 DEF CountInv, OverlapsCounted
<1>2. ASSUME UNCHANGED <<sector, todo, target, entries>>, HasCount(pf)' PROVE CountInv'
  BY <1>1, <1>2 DEF CountInv
<1>3. CASE ReadPrimaryHeader
  <2>1. HasCount(pf')
    BY <1>3, ReadCount DEF ReadPrimaryHeader
  <2> QED
    BY <1>2, <1>3, <2>1 DEF ReadPrimaryHeader, disk
<1>4. CASE Probe \/ ReadPrimaryArray \/ LocateBackup \/ ReadBackupHeader \/ ReadBackupArray
           \/ ReadMbr
  <2>1. UNCHANGED <<sector, todo, target, entries, pf>>
    BY <1>4 DEF Probe, ReadPrimaryArray, LocateBackup, ReadBackupHeader, ReadBackupArray,
                ReadMbr, disk
  <2> QED
    BY <1>2, <2>1 DEF CountInv
<1>5. CASE Expand
  <2>1. entries' = [open |-> TRUE, list |-> Expanded(pf)] /\ UNCHANGED <<sector, todo, target, pf>>
    BY <1>5 DEF Expand, disk
  <2>2. HasCount(pf)
    BY DEF CountInv
  <2>3. entries'.list = Expanded(pf)
    BY <2>1
  <2>4. OverlapsCounted'
    BY <2>2, <2>3, ExpandedCounted DEF OverlapsCounted
  <2> QED
    BY <2>1, <2>4 DEF CountInv
<1>6. CASE BeginUpdate \/ ToolDies
  <2>1. UNCHANGED <<sector, pf, entries>> /\ target' \in Tables /\ todo' \subseteq Pieces
    BY <1>6 DEF BeginUpdate, ToolDies, reader, CountInv
  <2> QED
    BY <1>1, <2>1 DEF CountInv
<1>7. CASE WritePiece
  <2>1. UNCHANGED <<pf, entries, target>>
    BY <1>7 DEF WritePiece, reader
  <2>2. PICK piece \in todo : sector' = Written(sector, target, piece) /\ todo' = todo \ {piece}
    BY <1>7 DEF WritePiece
  <2>3. piece \in Pieces /\ target \in Tables /\ todo' \subseteq Pieces
    BY <2>2 DEF CountInv
  <2>4. ASSUME NEW l \in DOMAIN sector', sector'[l].kind = "header" PROVE HasCount(sector'[l])
    <3>1. l \in DOMAIN sector /\ sector'[l] \in {Content(target, piece, l), sector[l]}
      BY <2>2 DEF Written
    <3> QED
      BY <2>3, <2>4, <3>1, ContentCount DEF CountInv
  <2> QED
    BY <1>1, <2>1, <2>3, <2>4 DEF CountInv
<1>8. CASE Damage
  <2>1. UNCHANGED <<pf, entries, target, todo>>
    BY <1>8 DEF Damage, reader
  <2>2. PICK l \in DOMAIN sector :
          \/ \E s \in {Zero, Refused} : sector' = [sector EXCEPT ![l] = s]
          \/ /\ sector[l].kind = "header"
             /\ \E field \in DOMAIN DamagedField : \E v \in DamagedField[field] :
                    sector' = [sector EXCEPT ![l] = DamagedHeader(sector[l], field, v)]
          \/ /\ sector[l].kind = "array"
             /\ \E u \in DOMAIN sector[l].cells, e \in DamagedEntry :
                    sector' = [sector EXCEPT ![l] = [sector[l] EXCEPT !.cells[u] = e]]
          \/ \E m \in DamagedMbr : sector' = [sector EXCEPT ![l] = m]
    BY <1>8 DEF Damage
  <2>3. /\ DOMAIN sector' = DOMAIN sector
        /\ \A k \in DOMAIN sector \ {l} : sector'[k] = sector[k]
    BY <2>2
  <2>4. ASSUME sector'[l].kind = "header" PROVE HasCount(sector'[l])
    <3>1. CASE \E s \in {Zero, Refused} : sector' = [sector EXCEPT ![l] = s]
      BY <2>4, <3>1 DEF Zero, Refused
    <3>2. CASE /\ sector[l].kind = "header"
               /\ \E field \in DOMAIN DamagedField : \E v \in DamagedField[field] :
                      sector' = [sector EXCEPT ![l] = DamagedHeader(sector[l], field, v)]
      <4>1. PICK field \in DOMAIN DamagedField : \E v \in DamagedField[field] :
                sector'[l] = DamagedHeader(sector[l], field, v)
        BY <3>2
      <4>2. HasCount(sector[l])
        BY <3>2 DEF CountInv
      <4> QED
        BY <4>1, <4>2, DamagedCount
    <3>3. CASE /\ sector[l].kind = "array"
               /\ \E u \in DOMAIN sector[l].cells, e \in DamagedEntry :
                      sector' = [sector EXCEPT ![l] = [sector[l] EXCEPT !.cells[u] = e]]
      <4>1. PICK u \in DOMAIN sector[l].cells, e \in DamagedEntry :
                sector' = [sector EXCEPT ![l] = [sector[l] EXCEPT !.cells[u] = e]]
        BY <3>3
      <4>2. sector'[l] = [sector[l] EXCEPT !.cells[u] = e]
        BY <4>1
      <4>3. [sector[l] EXCEPT !.cells[u] = e].kind = "array"
        BY <3>3
      <4> QED
        BY <2>4, <4>2, <4>3
    <3>4. CASE \E m \in DamagedMbr : sector' = [sector EXCEPT ![l] = m]
      <4>1. sector'[l] \in DamagedMbr
        BY <3>4
      <4> QED
        BY <2>4, <4>1, GptTablesAssumption
    <3> QED
      BY <2>2, <3>1, <3>2, <3>3, <3>4
  <2>5. ASSUME NEW k \in DOMAIN sector', sector'[k].kind = "header" PROVE HasCount(sector'[k])
    BY <2>3, <2>4, <2>5 DEF CountInv
  <2> QED
    BY <1>1, <2>1, <2>5 DEF CountInv
<1>9. CASE UNCHANGED vars
  <2>1. UNCHANGED <<sector, todo, target, entries, pf>>
    BY <1>9 DEF vars
  <2> QED
    BY <1>2, <2>1 DEF CountInv
<1> QED
  BY <1>3, <1>4, <1>5, <1>6, <1>7, <1>8, <1>9 DEF Next, Reader

\* With every entry of an array that is opened, however many overlap, the partners
\* named are at most as many as the limit, and none is lost: the named and the
\* counted ones are all that overlap it (the two loops of mark_overlaps, one after
\* the other), for any limit and whatever is on the disk.
THEOREM AlwaysCounted == Spec => []OverlapsCounted
<1>1. Init => CountInv
  BY InitCount
<1>2. CountInv /\ [Next]_vars => CountInv'
  BY NextCount
<1>3. CountInv => OverlapsCounted
  BY DEF CountInv
<1> QED
  BY <1>1, <1>2, <1>3, PTL DEF Spec
=============================================================================
