-------------------------------- MODULE Pldm --------------------------------
(***************************************************************************)
(* The PLDM firmware package library (kcompat_pldmfw.c): a package file is *)
(* parsed (header, device records with their descriptors, component table, *)
(* checksum), the first record that matches the device is chosen, and its  *)
(* components are handed to the driver's callbacks.                        *)
(*                                                                         *)
(* A package is a record with the lengths and counts its fields declare;   *)
(* lengths are in units that keep the structures' order of size.  `offset` *)
(* is data->offset, `at` the pointer with which the for_each macros walk   *)
(* the declared lengths.                                                   *)
(***************************************************************************)
EXTENDS Integers, Sequences, FiniteSets, FiniteSetsExt

CONSTANTS Packages,     \* package files
          Device,       \* descriptor type -> id of the device
          MaxTrouble    \* failed allocations and callbacks

VARIABLES pkg,          \* the file
          offset, at,   \* data->offset; the walking pointer
          records,      \* data->records: indices of the parsed records
          components,   \* data->components
          matching,     \* index of data->matching_record
          sent,         \* what the callbacks were given, in order
          pstage, perr, \* where pldmfw_flash_image is, and its result
          ptrouble      \* failures so far

pldmvars == <<pkg, offset, at, records, components, matching, sent, pstage, perr, ptrouble>>

SizeHeader == 4
SizeArea   == 1
SizeRecord == 3
SizeTlv    == 2
SizeComp   == 3
SizeCrc    == 1

\* pldm_check_fw_space
Fits(p, from, len) == p.fsize >= from + len

\* pldm_check_desc_tlv_len: 0 stands for a type of any length.
TlvLen(type) ==
  CASE type \in {"vendor", "device", "subvendor", "subdev"} -> 2
    [] type = "revision" -> 1
    [] type = "pnp"      -> 3
    [] type \in {"iana", "acpi"} -> 4
    [] type = "uuid"     -> 16
    [] OTHER             -> 0

TlvOk(d) == TlvLen(d.type) = 0 \/ d.size = TlvLen(d.type)

\* pldm_parse_desc_tlvs: the offset after the first n descriptors, or -1 when
\* one is malformed or does not fit.
AfterTlvs(p, from, descs) ==
  LET after[n \in 0..Len(descs)] ==
        IF n = 0 THEN from
        ELSE LET o == after[n - 1] IN
             IF o < 0 \/ ~Fits(p, o, SizeTlv) \/ ~TlvOk(descs[n])
                \/ ~Fits(p, o + SizeTlv, descs[n].size)
             THEN -1 ELSE o + SizeTlv + descs[n].size
  IN after[Len(descs)]

BitmapSize(p) == p.bits \div 8

\* pldm_parse_one_record: the offset after record r, or -1.
AfterRecordUnmeasured(p, from, r) ==
  LET o1 == from + SizeRecord + BitmapSize(p) + r.vlen
      o2 == IF Fits(p, 0, o1) THEN AfterTlvs(p, o1, r.descs) ELSE -1
      o3 == o2 + r.data
  IN IF o2 < 0 \/ ~Fits(p, 0, o3) THEN -1 ELSE o3

AfterRecord(p, from, r) ==
  LET o1 == from + SizeRecord + BitmapSize(p) + r.vlen
      o2 == IF Fits(p, 0, o1) THEN AfterTlvs(p, o1, r.descs) ELSE -1
      o3 == o2 + r.data
  IN IF o2 < 0 \/ ~Fits(p, 0, o3) \/ o3 - from /= r.len THEN -1 ELSE o3

\* pldmfw_op_pci_match_record: the last descriptor of a type counts; a type
\* that is absent, or 0, matches every device.
IdOf(descs, type) ==
  LET mine == {i \in DOMAIN descs : descs[i].type = type}
  IN IF mine = {} THEN 0 ELSE descs[Max(mine)].value

Matches(r) ==
  \A type \in {"vendor", "device", "subvendor", "subdev"} :
    IdOf(r.descs, type) \in {0, Device[type]}

-----------------------------------------------------------------------------
Init ==
  /\ pkg \in Packages
  /\ offset = 0 /\ at = 0
  /\ records = <<>> /\ components = <<>> /\ matching = 0
  /\ sent = <<>>
  /\ pstage = "header" /\ perr = "ok"
  /\ ptrouble = 0

\* goto out_release_data
Fail(why) ==
  /\ pstage' = "release" /\ perr' = why
  /\ UNCHANGED <<pkg, offset, at, records, components, matching, sent, ptrouble>>

NoMemory ==
  /\ ptrouble < MaxTrouble
  /\ ptrouble' = ptrouble + 1
  /\ pstage' = "release" /\ perr' = "nomem"

HeaderOk(p) ==
  /\ Fits(p, 0, SizeHeader) /\ p.id /\ p.revision
  /\ Fits(p, 0, p.total)
  /\ p.bits % 8 = 0
  /\ Fits(p, 0, SizeHeader + p.vlen + SizeArea)

ParseHeader ==
  /\ pstage = "header"
  /\ \/ /\ ~HeaderOk(pkg) /\ Fail("parse")
     \/ /\ HeaderOk(pkg)
        /\ offset' = SizeHeader + pkg.vlen + SizeArea
        /\ at' = offset'
        /\ pstage' = "records"
        /\ UNCHANGED <<pkg, records, components, matching, sent, perr, ptrouble>>

\* The k-th turn of pldm_parse_records; the macro moves on by the length the
\* record declares.
ParseRecord ==
  /\ pstage = "records"
  /\ Len(records) < Len(pkg.recs)
  /\ LET k == Len(records) + 1
         r == pkg.recs[k]
         o == AfterRecord(pkg, offset, r)
     IN \/ /\ o < 0 /\ Fail("parse")
        \/ /\ NoMemory
           /\ records' \in {records, Append(records, k)}
           /\ UNCHANGED <<pkg, offset, at, components, matching, sent>>
        \/ /\ o >= 0
           /\ offset' = o /\ at' = at + r.len
           /\ records' = Append(records, k)
           /\ UNCHANGED <<pkg, components, matching, sent, pstage, perr, ptrouble>>

ParseComponentArea ==
  /\ pstage = "records"
  /\ Len(records) = Len(pkg.recs)
  /\ \/ /\ ~Fits(pkg, offset, SizeArea) /\ Fail("parse")
     \/ /\ Fits(pkg, offset, SizeArea)
        /\ offset' = offset + SizeArea
        /\ at' = offset'
        /\ pstage' = "components"
        /\ UNCHANGED <<pkg, records, components, matching, sent, perr, ptrouble>>

\* A turn of pldm_parse_components: the component's entry, and the place of
\* its image in the file.
ParseComponent ==
  /\ pstage = "components"
  /\ Len(components) < Len(pkg.comps)
  /\ LET k == Len(components) + 1
         c == pkg.comps[k]
         o == offset + SizeComp + c.vlen
         ok == Fits(pkg, 0, o) /\ Fits(pkg, c.place, c.size)
     IN \/ /\ ~ok /\ Fail("parse")
        \/ /\ ok /\ NoMemory
           /\ UNCHANGED <<pkg, offset, at, records, components, matching, sent>>
        \/ /\ ok
           /\ offset' = o /\ at' = at + SizeComp + c.vlen
           /\ components' = Append(components, k)
           /\ UNCHANGED <<pkg, records, matching, sent, pstage, perr, ptrouble>>

\* The end of pldm_parse_components, and pldm_verify_header_crc
VerifyHeaderCrc ==
  /\ pstage = "components"
  /\ Len(components) = Len(pkg.comps)
  /\ LET o == offset + SizeCrc
     IN \/ /\ ~(Fits(pkg, 0, o) /\ o = pkg.total /\ pkg.crc) /\ Fail("parse")
        \/ /\ Fits(pkg, 0, o) /\ o = pkg.total /\ pkg.crc
           /\ offset' = o /\ at' = o
           /\ pstage' = "match"
           /\ UNCHANGED <<pkg, records, components, matching, sent, perr, ptrouble>>

FindMatchingRecord ==
  /\ pstage = "match"
  /\ LET fit == {k \in DOMAIN records : Matches(pkg.recs[records[k]])}
     IN \/ /\ fit = {} /\ Fail("nomatch")
        \/ /\ fit /= {}
           /\ matching' = records[Min(fit)]
           /\ pstage' = "package"
           /\ UNCHANGED <<pkg, offset, at, records, components, sent, perr, ptrouble>>

\* A callback of the driver takes what it is given, or fails.
Callback(what, next) ==
  \/ /\ sent' = Append(sent, what)
     /\ pstage' = next
     /\ UNCHANGED <<perr, ptrouble>>
  \/ /\ ptrouble < MaxTrouble
     /\ ptrouble' = ptrouble + 1
     /\ pstage' = "release" /\ perr' = "callback"
     /\ UNCHANGED sent

SendPackageData ==
  /\ pstage = "package"
  /\ Callback([op |-> "package", comp |-> 0, flags |-> {}], "tables")
  /\ UNCHANGED <<pkg, offset, at, records, components, matching>>

Bitmap == pkg.recs[matching].map

\* Components of the bitmap not yet handed to callback op, in list order
\* (component k of the list has index k - 1).
Left(op) ==
  {k \in DOMAIN components :
     /\ k - 1 \in Bitmap
     /\ \A i \in DOMAIN sent : sent[i].op = op => sent[i].comp < k}

\* The transfer flag of component k in pldm_send_component_tables
TransferFlagsFirst(k) ==
  IF k - 1 = Min(Bitmap) THEN {"start"} ELSE IF k - 1 = Max(Bitmap) THEN {"end"} ELSE {"middle"}

TransferFlags(k) ==
  LET f == (IF k - 1 = Min(Bitmap) THEN {"start"} ELSE {})
           \cup (IF k - 1 = Max(Bitmap) THEN {"end"} ELSE {})
  IN IF f = {} THEN {"middle"} ELSE f

SendComponentTable ==
  /\ pstage = "tables"
  /\ \/ /\ Left("table") = {}
        /\ pstage' = "flash"
        /\ UNCHANGED <<sent, perr, ptrouble>>
     \/ /\ Left("table") /= {}
        /\ LET k == Min(Left("table"))
           IN Callback([op |-> "table", comp |-> k, flags |-> TransferFlags(k)], "tables")
  /\ UNCHANGED <<pkg, offset, at, records, components, matching>>

FlashComponent ==
  /\ pstage = "flash"
  /\ \/ /\ Left("flash") = {}
        /\ pstage' = "finalize"
        /\ UNCHANGED <<sent, perr, ptrouble>>
     \/ /\ Left("flash") /= {}
        /\ Callback([op |-> "flash", comp |-> Min(Left("flash")), flags |-> {}], "flash")
  /\ UNCHANGED <<pkg, offset, at, records, components, matching>>

FinalizeUpdate ==
  /\ pstage = "finalize"
  /\ Callback([op |-> "finalize", comp |-> 0, flags |-> {}], "release")
  /\ UNCHANGED <<pkg, offset, at, records, components, matching>>

\* pldmfw_free_priv
FreePriv ==
  /\ pstage = "release"
  /\ pstage' = "done"
  /\ records' = <<>> /\ components' = <<>>
  /\ UNCHANGED <<pkg, offset, at, matching, sent, perr, ptrouble>>

Next ==
  \/ ParseHeader \/ ParseRecord \/ ParseComponentArea \/ ParseComponent
  \/ VerifyHeaderCrc \/ FindMatchingRecord \/ SendPackageData
  \/ SendComponentTable \/ FlashComponent \/ FinalizeUpdate \/ FreePriv

Spec == Init /\ [][Next]_pldmvars

-----------------------------------------------------------------------------
TypeOK ==
  /\ offset \in 0..pkg.fsize /\ at \in Int
  /\ perr \in {"ok", "parse", "nomem", "nomatch", "callback"}

\* What a package has to be: every structure inside the file, every declared
\* length the true one, every image inside the file.
TrueRecord(p, r) ==
  SizeRecord + BitmapSize(p) + r.vlen + r.data
    + MapThenSumSet(LAMBDA i : SizeTlv + r.descs[i].size, DOMAIN r.descs)

TrueHeader(p) ==
  SizeHeader + p.vlen + SizeArea
    + MapThenSumSet(LAMBDA i : TrueRecord(p, p.recs[i]), DOMAIN p.recs)
    + SizeArea + MapThenSumSet(LAMBDA i : SizeComp + p.comps[i].vlen, DOMAIN p.comps)
    + SizeCrc

WellFormed(p) ==
  /\ p.id /\ p.revision /\ p.crc /\ p.bits % 8 = 0
  /\ p.total = TrueHeader(p) /\ p.fsize >= p.total
  /\ \A i \in DOMAIN p.recs :
       /\ p.recs[i].len = TrueRecord(p, p.recs[i])
       /\ \A j \in DOMAIN p.recs[i].descs : TlvOk(p.recs[i].descs[j])
  /\ \A i \in DOMAIN p.comps : p.comps[i].place + p.comps[i].size <= p.fsize

\* The parser accepts exactly the well-formed packages (whatever lies about
\* its lengths is refused before its content is used), the walking pointer
\* never leaves the checked offset, and nothing parsed survives the call.
ParsesExactly ==
  /\ at = offset
  /\ pstage \in {"match", "package", "tables", "flash", "finalize"} => WellFormed(pkg)
  /\ perr = "parse" => ~WellFormed(pkg)
  /\ pstage = "done" => records = <<>> /\ components = <<>>

\* The device sees its own components only: the package data, then the tables
\* of every component of the first matching record, the first marked START
\* and the last END, then their images in the same order, and the update is
\* finalized when all of that succeeded and only then.
UpdateFramed ==
  LET wanted == {k \in DOMAIN pkg.comps : k - 1 \in pkg.recs[matching].map}
      nth(n) == CHOOSE k \in wanted : Cardinality({j \in wanted : j < k}) = n - 1
      N == Cardinality(wanted)
      flags(n) == LET f == (IF n = 1 THEN {"start"} ELSE {}) \cup (IF n = N THEN {"end"} ELSE {})
                  IN IF f = {} THEN {"middle"} ELSE f
      whole == [i \in 1..(2 * N + 2) |->
                  CASE i = 1 -> [op |-> "package", comp |-> 0, flags |-> {}]
                    [] i \in 2..(N + 1) -> [op |-> "table", comp |-> nth(i - 1), flags |-> flags(i - 1)]
                    [] i \in (N + 2)..(2 * N + 1) -> [op |-> "flash", comp |-> nth(i - N - 1), flags |-> {}]
                    [] OTHER -> [op |-> "finalize", comp |-> 0, flags |-> {}]]
  IN /\ matching = 0 => sent = <<>>
     /\ matching /= 0 =>
          /\ Matches(pkg.recs[matching])
          /\ \A k \in 1..(matching - 1) : ~Matches(pkg.recs[k])
          /\ Len(sent) <= Len(whole) /\ sent = SubSeq(whole, 1, Len(sent))
     /\ pstage = "done" => (perr = "ok") = (matching /= 0 /\ sent = whole)
=============================================================================
