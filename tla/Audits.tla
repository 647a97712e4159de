--------------------------------- MODULE Audits ---------------------------------
(***************************************************************************)
(* The audits of the forensic crate (forensic/src/lib.rs), each a function   *)
(* of the image: a result [tag, hits], the hits in the order reported.      *)
(***************************************************************************)
EXTENDS ImageReader

CONSTANTS SYSTEM_AREA,   \* the number of sectors before the descriptors, 16
          GAP_CAP        \* the sectors the gap audit looks at, 512

ASSUME SystemAreaAssumption == SYSTEM_AREA \in Nat /\ GAP_CAP \in Nat

Ok(hits) == [tag |-> "ok", hits |-> hits]
Err(tag) == [tag |-> tag, hits |-> <<>>]

IsFile(e) == ~e.rec.dir
DirLbas(out) == {out[i].rec.lba : i \in {j \in DOMAIN out : out[j].rec.dir}}

(* Mutant: an extent past the end of the image is an error like others.      *)
ToleratedNot(tag) == tag

(* An extent past the end of the image is passed over in silence.           *)
Tolerated(tag) == IF tag = "eof" THEN "ok" ELSE tag

(* An audit over the entries of one walk of the active tree.                *)
OverWalk(Hits(_)) == IF active.tag = "ok" THEN Ok(Hits(active.out)) ELSE Err(active.tag)

--------------------------------------------------------------------------------
(* The redundant copies of the numbers.                                     *)

(* The records of the first sector of a directory, up to the first slot that *)
(* is neither one nor padding.                                              *)
RecordsAt(lba) ==
  LET junk == {i \in 1 .. SECTOR : Slots(lba)[i].kind \in {"bytes", "magic"}}
      run  == IF junk = {} THEN Slots(lba) ELSE SubSeq(Slots(lba), 1, Min(junk) - 1)
  IN  Pick(run, LAMBDA s : s.kind = "rec")

(* A directory past the end of the image is passed over.  The descriptor     *)
(* looked at is always the one after the system area.  The code takes the   *)
(* directories in the order of a hash set, here they ascend.                *)
audit_both_endian ==
  LET dirs == Ascending({image.root.lba} \union DirLbas(active.out))
      tags == Each(dirs, LAMBDA l : Tolerated(ReadTag(l)))
      Odd(l) == IF ReadTag(l) # "ok" THEN <<>>
                ELSE Each(Pick(RecordsAt(l), LAMBDA r : ~r.twin), LAMBDA r : <<l, r>>)
  IN  CASE ReadTag(SYSTEM_AREA) # "ok" -> Err(ReadTag(SYSTEM_AREA))
        [] ReadTag(SYSTEM_AREA) = "ok" /\ active.tag # "ok" -> Err(active.tag)
        [] OTHER -> IF FirstFailure(tags) # "ok" THEN Err(FirstFailure(tags))
                    ELSE Ok(Each(image.split, LAMBDA field : <<SYSTEM_AREA, field>>)
                              \o FlattenSeq(Each(dirs, Odd)))

(* The directories the both-endian audit leaves out in silence.             *)
EndianSkipped ==
  IF active.tag # "ok" THEN {}
  ELSE {e \in Range(active.out) : e.rec.dir /\ ReadTag(e.rec.lba) = "eof"}

--------------------------------------------------------------------------------
(* File slack.                                                              *)

LastSector(rec) == rec.lba + SectorsOf(rec.size) - 1
HasSlack(rec)   == rec.size % SECTOR # 0

SlackTag(e) ==
  IF IsFile(e) /\ HasSlack(e.rec) THEN ReadTag(LastSector(e.rec)) ELSE "ok"

Leaks(rec) ==
  \E i \in (rec.size % SECTOR) + 1 .. SECTOR : Slots(LastSector(rec))[i] # Free

(* Only a file whose last sector lies past the end of the image is left out. *)
audit_file_slack ==
  LET tags == Each(active.out, LAMBDA e : Tolerated(SlackTag(e)))
  IN  IF active.tag # "ok" THEN Err(active.tag)
      ELSE IF FirstFailure(tags) # "ok" THEN Err(FirstFailure(tags))
      ELSE Ok(Pick(active.out, LAMBDA e : /\ IsFile(e) /\ HasSlack(e.rec)
                                        /\ SlackTag(e) = "ok" /\ Leaks(e.rec)))

SlackSkipped ==
  IF active.tag # "ok" THEN {} ELSE {e \in Range(active.out) : SlackTag(e) = "eof"}

--------------------------------------------------------------------------------
(* The system area and the symbolic links.                                  *)

audit_pre_system ==
  LET sectors == [i \in 1 .. SYSTEM_AREA |-> i - 1]
      Used0(l) == \E i \in 1 .. SECTOR : Slots(l)[i] # Free
      Kind(l)  == <<l, IF Slots(l)[1] = Magic THEN "magic" ELSE "non-zero">>
  IN  IF FirstFailure(Each(sectors, ReadTag)) # "ok"
      THEN Err(FirstFailure(Each(sectors, ReadTag)))
      ELSE Ok(Each(Pick(sectors, Used0), Kind))

Issue(target) ==
  CASE target = None                          -> "none"
    [] target # None /\ ".." \in Range(target) -> "path-traversal"
    [] OTHER -> IF target # <<>> /\ target[1] = "/" THEN "absolute" ELSE "none"

audit_symlinks ==
  OverWalk(LAMBDA out :
    LET links == Pick(out, LAMBDA e : IsFile(e) /\ Issue(symlink_target(e.rec.su)) # "none")
    IN  Each(links, LAMBDA e : <<e, Issue(symlink_target(e.rec.su))>>))

--------------------------------------------------------------------------------
(* The path tables: a table is its first sector, how many it has, and its    *)
(* records [lba, parent, dir_id].  One without a name, which a record that   *)
(* does not fit counts as, ends it.                                         *)

parse_table(table) ==
  LET stops == {i \in DOMAIN table.records : table.records[i].dir_id = NoName}
  IN  IF stops = {} THEN table.records ELSE SubSeq(table.records, 1, Min(stops) - 1)

TableTag(table) == RunTag(table.lba, table.sectors)

TableLbas    == {r.lba : r \in Range(parse_table(image.l_table))}
TreeLbas(out) == {image.root.lba} \union DirLbas(out)
Phantoms(out) == TableLbas \ TreeLbas(out)
Ghosts(out)   == TreeLbas(out) \ TableLbas

audit_path_table ==
  IF TableTag(image.l_table) # "ok" THEN Err(TableTag(image.l_table))
  ELSE OverWalk(LAMBDA out : Each(Ascending(Phantoms(out)), LAMBDA l : <<"phantom", l>>)
                               \o Each(Ascending(Ghosts(out)), LAMBDA l : <<"ghost", l>>))

(* Where the tables differ, record by record; the records past the end of    *)
(* the shorter are one difference, in number.                               *)
validate_path_tables(l, m) ==
  LET fields == <<"lba", "parent", "dir_id">>
      Off(i) == Each(Pick(fields, LAMBDA f : l[i][f] # m[i][f]), LAMBDA f : <<i, f>>)
  IN  (IF Len(l) # Len(m) THEN <<<<0, "count">>>> ELSE <<>>)
        \o FlattenSeq([i \in 1 .. Lesser(Len(l), Len(m)) |-> Off(i)])

(* A pointer of zero says that the table is absent.                         *)
audit_path_table_endian ==
  LET l   == image.l_table
      m   == image.m_table
      tag == FirstFailure(<<TableTag(l), TableTag(m)>>)
  IN  CASE l.lba = 0 \/ m.lba = 0                 -> Ok(<<>>)
        [] l.lba # 0 /\ m.lba # 0 /\ tag # "ok" -> Err(tag)
        [] OTHER -> Ok(validate_path_tables(parse_table(l), parse_table(m)))

(* A directory of the table that the walk has not met is read once as one    *)
(* sector, to learn its size: that of the first record found, `.` and `..`  *)
(* having been dropped.                                                     *)
Greater(m, n) == IF m > n THEN m ELSE n

(* Mutant: the directory is always read as one sector.                       *)
RecoverFromOne(dir_lba) == read_dir(dir_lba, SECTOR)

RecoverFrom(dir_lba) ==
  LET probe == read_dir(dir_lba, SECTOR)
      size  == IF probe.recs = <<>> THEN SECTOR ELSE Greater(probe.recs[1].size, SECTOR)
  IN  IF probe.tag = "ok" /\ size > SECTOR THEN read_dir(dir_lba, size) ELSE probe

recover_lost_files ==
  LET phantoms == Ascending(Phantoms(active.out))
      answers  == Each(phantoms, RecoverFrom)
      tags     == Each(answers, LAMBDA a : a.tag)
      Files(i) == Each(Pick(answers[i].recs, LAMBDA r : ~r.dir),
                       LAMBDA r : <<phantoms[i], r>>)
  IN  IF audit_path_table.tag # "ok" THEN Err(audit_path_table.tag)
      ELSE IF FirstFailure(tags) # "ok" THEN Err(FirstFailure(tags))
      ELSE Ok(FlattenSeq([i \in DOMAIN phantoms |-> Files(i)]))

--------------------------------------------------------------------------------
(* The boot catalog: entries [kind, count, lba, sectors], sectors counting   *)
(* the whole ones the boot image takes.  A validation entry, the default     *)
(* one, then sections: a header and as many entries as it says, whatever     *)
(* their kind.                                                              *)
parse_boot_catalog(catalog) ==
  LET Initial == IF catalog[2].kind \in {"bootable", "plain"} THEN <<catalog[2]>> ELSE <<>>
      Section[i \in 1 .. Len(catalog) + 1] ==
        LET head == catalog[i]
            last == Lesser(i + head.count, Len(catalog))
        IN  IF i > Len(catalog) THEN <<>>
            ELSE IF head.kind \notin {"more", "final"} THEN <<>>
            ELSE SubSeq(catalog, i + 1, last)
                   \o (IF head.kind = "final" THEN <<>> ELSE Section[last + 1])
  IN  IF Len(catalog) < 2 THEN <<>>
      ELSE IF catalog[1].kind # "validation" THEN <<>>
      ELSE Initial \o Section[3]

boot_entries ==
  IF image.catalog = None THEN Ok(<<>>)
  ELSE IF ReadTag(image.catalog) # "ok" THEN Err(ReadTag(image.catalog))
  ELSE Ok(parse_boot_catalog(image.entries))

--------------------------------------------------------------------------------
(* Times and contents of the files, for a caller.                           *)

(* The files by their TF time, otherwise in the order of the listing.  An    *)
(* absent time (Option's None) sorts before every other.                    *)
ModifyOf(e) ==
  LET tf == timestamps(e.rec.su) IN IF tf = None THEN None ELSE tf.modify

timeline ==
  OverWalk(LAMBDA out :
    LET files   == Pick(out, IsFile)
        Dated   == {ModifyOf(files[i]) : i \in DOMAIN files} \ {None}
        OfTime(t) == Pick(files, LAMBDA e : ModifyOf(e) = t)
    IN  OfTime(None) \o FlattenSeq(Each(Ascending(Dated), OfTime)))

(* The sectors of a file, in order.                                         *)
append_extent(x) == [i \in 1 .. SectorsOf(x.size) |-> x.lba + i - 1]

read_file_entry(rec) ==
  append_extent(rec) \o FlattenSeq(Each(rec.extra, append_extent))

(* One file with a sector that cannot be read fails the list.  Its order,    *)
(* that of the paths, is left out: the list is one set.                     *)
hashlist ==
  LET files == Pick(active.out, IsFile)
      tags  == Each(files, LAMBDA e : FirstFailure(Each(read_file_entry(e.rec), ReadTag)))
  IN  IF active.tag # "ok" THEN Err(active.tag)
      ELSE IF FirstFailure(tags) # "ok" THEN Err(FirstFailure(tags))
      ELSE Ok(<<{<<e.path, read_file_entry(e.rec)>> : e \in Range(files)}>>)

--------------------------------------------------------------------------------
(* Sectors that nothing claims.                                             *)

RunOf(lba, size) == lba .. lba + Greater(SectorsOf(size), 1) - 1

TableRun(table) == table.lba .. table.lba + table.sectors - 1

(* The sectors of the descriptors, up to the first that cannot be read.      *)
DescriptorRun ==
  {l \in SYSTEM_AREA .. SYSTEM_AREA + image.descriptors - 1 :
     \A k \in SYSTEM_AREA .. l : ReadTag(k) = "ok"}

ReadableRecs(extent) == LET r == read_dir(extent.lba, extent.size) IN Range(r.recs)

AreaSectors(area) ==
  LET ce == continuation(area) IN IF ce = None THEN {} ELSE ce.lba .. ce.lba + ce.sectors - 1

(* The second tree: the last directory of the worklist next, once for each   *)
(* lba, with its files.                                                     *)
KidsOf(recs, dir) ==
  Each(Pick(recs, LAMBDA r : r.dir = dir), LAMBDA r : [lba |-> r.lba, size |-> r.size])

ClaimWith(m, x, rest, recs) ==
  IF x.lba \in m.seen THEN [m EXCEPT !.work = rest]
  ELSE [work    |-> rest \o KidsOf(recs, TRUE),
        seen    |-> m.seen \union {x.lba},
        claimed |-> m.claimed \union
                      UNION {RunOf(f.lba, f.size) : f \in {x} \union Range(KidsOf(recs, FALSE))}]

Claim(m) ==
  LET x == m.work[Len(m.work)]
  IN  IF m.work = <<>> THEN m
      ELSE ClaimWith(m, x, SubSeq(m.work, 1, Len(m.work) - 1), read_dir(x.lba, x.size).recs)

(* What is claimed when the worklist is empty.                              *)
ClaimedBy(run) ==
  run[CHOOSE n \in 0 .. MaxVisits : run[n].work = <<>> \/ n = MaxVisits].claimed

Spread(root) ==
  LET After[n \in Nat] ==
        IF n = 0 THEN [work |-> <<root>>, seen |-> {}, claimed |-> {}] ELSE Claim(After[n - 1])
  IN  ClaimedBy(After)

JolietSectors ==
  IF image.joliet = None THEN {} ELSE image.joliet.tables \union Spread(image.joliet)

(* The area of the root's own record, which no listing holds.               *)
RootDotSectors ==
  IF ReadTag(image.root.lba) = "ok" /\ Slots(image.root.lba)[1].kind = "rec"
  THEN AreaSectors(Slots(image.root.lba)[1].su) ELSE {}

(* Mutant: a file is claimed by its first sector only.                       *)
EntrySectorsFirst(e) == {e.rec.lba}

EntrySectors(e) == RunOf(e.rec.lba, e.rec.size) \union AreaSectors(e.rec.su)

Allocated(out) ==
  (0 .. SYSTEM_AREA - 1) \union DescriptorRun \union {image.root.lba}
    \union TableRun(image.l_table) \union TableRun(image.m_table)
    \union (UNION {EntrySectors(e) : e \in Range(out)})
    \union (UNION {AreaSectors(r.su) : r \in ReadableRecs(image.root)})
    \union RootDotSectors \union JolietSectors
    \union (IF image.catalog = None THEN {} ELSE {image.catalog})
    \union (UNION {b.lba .. b.lba + Greater(b.sectors, 1) - 1 : b \in Range(boot_entries.hits)})

(* One sector that cannot be read fails the audit.                          *)
audit_sector_gaps ==
  LET unclaimed == Ascending((0 .. Lesser(image.space, GAP_CAP) - 1) \ Allocated(active.out))
      Hit(l)    == <<l, \E i \in 1 .. SECTOR : Slots(l)[i] # Free>>
  IN  IF active.tag # "ok" THEN Err(active.tag)
      ELSE IF FirstFailure(Each(unclaimed, ReadTag)) # "ok"
      THEN Err(FirstFailure(Each(unclaimed, ReadTag)))
      ELSE Ok(Each(unclaimed, Hit))
================================================================================
