---------------------------- MODULE LibraryFiles ----------------------------
(***************************************************************************)
(* The file records of one title, against the disk they describe.  Four    *)
(* parties write them and none holds a lock across its reads and writes:   *)
(* the scan (internal/app/library/scan.go, scanItem), the folder repair    *)
(* (folder_repair.go) which ends in a scan of its own, the probe job       *)
(* (probe.go), and an import's placement commit                            *)
(* (internal/infra/sqlite/placement.go).  The user changes the disk at any *)
(* time and deletes the second edition ("copy") of the title.              *)
(*                                                                         *)
(* A path is <<folder, name>>.  Folders "a" and "b" can be the title's,    *)
(* "c" is the copy's own.  A walk of one folder is one step, and every     *)
(* database call is one step.  Videos only: a book's format is read from   *)
(* its extension and is never probed.                                      *)
(***************************************************************************)
EXTENDS Naturals, FiniteSets, FiniteSetsExt

CONSTANTS
  Names,          \* file names
  NamesSaying,    \* the names the release parser reads a quality from
  MaxSize,        \* bytes are told apart by their size only, 1..MaxSize
  MaxDiskChanges, \* how often the user touches the disk
  MaxSweeps,      \* scans of the library and folder repairs
  MaxImports      \* imports

VARIABLES
  contents,       \* [Paths -> 0..MaxSize], 0 when there is no file
  files,      \* media_files, whose path is unique
  mediaFolder,     \* media_items.path
  copyAt,     \* media_copies: "none", "shared" (no folder of its own), "own"
  scan,       \* the two callers of scanItem: the sweep and the repair
  probes,     \* the ids with a live probe job (dedupe key probe:<id>)
  prober,     \* the running probe
  fileImporter,   \* the running import
  spent       \* the bounds: disk changes, sweeps, imports

fileVars == <<contents, files, mediaFolder, copyAt, scan, probes, prober, fileImporter, spent>>

ItemFolders == {"a", "b"}
CopyFolder == "c"
Paths == (ItemFolders \cup {CopyFolder}) \X Names
Scanners == {"sweep", "repair"}
Nobody == 2     \* no import has recorded the file

NoRecord == [id |-> 0, copy |-> 0, size |-> 0, prov |-> "", known |-> FALSE,
           probed |-> FALSE, by |-> Nobody]
Recorded == {p \in Paths : files[p].id # 0}

\* A deleted row's id is used again when it was the highest: the table's key
\* is INTEGER PRIMARY KEY without AUTOINCREMENT.
NextFileId == 1 + Max({0} \cup {files[p].id : p \in Recorded})
PathOf(id) == {p \in Recorded : files[p].id = id}
FileIds == 1..Cardinality(Paths)

Idling == [pc |-> "idle", folder |-> "a", copyAt |-> "none", found |-> <<>>,
           listed |-> <<>>, records |-> <<>>, todo |-> {}, path |-> <<>>, id |-> 0]
NoProbe == [pc |-> "idle", id |-> 0, path |-> <<>>, known |-> FALSE, size |-> 0]
NoImport == [pc |-> "idle", path |-> <<>>, copy |-> 0]

FilesTypeOK ==
  /\ contents \in [Paths -> 0..MaxSize]
  /\ \A p \in Paths :
       /\ files[p].id \in 0..Cardinality(Paths) /\ files[p].copy \in {0, 1}
       /\ files[p].size \in 0..MaxSize /\ files[p].by \in {0, 1, Nobody}
       /\ files[p].prov \in {"", "filename", "measured", "failed"}
  /\ mediaFolder \in ItemFolders /\ copyAt \in {"none", "shared", "own"}
  /\ \A s \in Scanners : scan[s].todo \subseteq Paths
  /\ probes \subseteq FileIds

FilesInit ==
  /\ contents = [p \in Paths |-> 0] /\ files = [p \in Paths |-> NoRecord]
  /\ mediaFolder = "a" /\ copyAt \in {"shared", "own"}
  /\ scan = [s \in Scanners |-> Idling]
  /\ probes = {} /\ prober = NoProbe /\ fileImporter = NoImport
  /\ spent = [disk |-> 0, sweeps |-> 0, imports |-> 0]

(***************************************************************************)
(* The queries.                                                            *)
(***************************************************************************)

\* UpsertMediaFile: a new path is inserted with the caller's copy, a known one
\* only has its size refreshed: "rescans must not stomp imports".
UpsertMediaFile(fs, p, copy, size) ==
  [fs EXCEPT ![p] = IF @.id = 0 THEN [NoRecord EXCEPT !.id = NextFileId, !.copy = copy, !.size = size]
                                ELSE [@ EXCEPT !.size = size]]

UpsertFile(p, copy, size) == UpsertMediaFile(files, p, copy, size)
UpdateMediaFileCopy(fs, p, copy) == [fs EXCEPT ![p].copy = copy]

ListMediaFilesForItem == files
ListFileQualityRecordsForItem == files

\* An UPDATE or a SELECT by id meets whatever row has the id now, or none.
GetMediaFile(id) == PathOf(id)
SetFileQualityWithProvenance(rec, prov) == [rec EXCEPT !.known = TRUE, !.prov = prov]
WriteMediaInfo(rec, prov) == [rec EXCEPT !.probed = TRUE, !.prov = prov]

SetFileQualityFrom(id, prov) ==
  [p \in Paths |-> IF id # 0 /\ files[p].id = id
                     THEN SetFileQualityWithProvenance(files[p], prov) ELSE files[p]]
SetFileMediaInfo(id, prov) ==
  [p \in Paths |-> IF id # 0 /\ files[p].id = id THEN WriteMediaInfo(files[p], prov) ELSE files[p]]
DeleteMediaFile(id) == [p \in Paths |-> IF files[p].id = id THEN NoRecord ELSE files[p]]
DeleteMediaFilesForCopy ==
  [p \in Paths |-> IF files[p].id # 0 /\ files[p].copy = 1 THEN NoRecord ELSE files[p]]

\* Never measured, measured at another size, or a failed read to try again.
NeedsProbe(rec, size) == ~rec.probed \/ rec.size # size \/ rec.prov = "failed"

EnqueueProbe(id) == probes' = probes \cup {id}

(***************************************************************************)
(* scanItem, run by the sweep over the rows it read at its start and by    *)
(* the repair over the title it loaded before it moved it.                 *)
(***************************************************************************)
At(s, pc) == scan[s].pc = pc
StepScan(s, changed) == scan' = [scan EXCEPT ![s] = changed]
ScanOnly == UNCHANGED <<contents, files, mediaFolder, copyAt, probes, prober, fileImporter, spent>>

ScanStart ==
  /\ At("sweep", "idle") /\ spent.sweeps < MaxSweeps
  /\ StepScan("sweep", [Idling EXCEPT !.pc = "copies", !.folder = mediaFolder])
  /\ spent' = [spent EXCEPT !.sweeps = @ + 1]
  /\ UNCHANGED <<contents, files, mediaFolder, copyAt, probes, prober, fileImporter>>

\* The copies are a second read.  A folder that is missing ends the item's scan
\* before anything is pruned.
ScanCopies ==
  /\ At("sweep", "copies")
  /\ \/ StepScan("sweep", [scan["sweep"] EXCEPT !.pc = "walk", !.copyAt = copyAt])
     \/ /\ \A n \in Names : contents[<<scan["sweep"].folder, n>>] = 0
        /\ StepScan("sweep", Idling)
  /\ ScanOnly

\* What one walk finds: the path, its size and the copy its folder stands for.
Walk(f, copy) == {[path |-> p, size |-> contents[p], copy |-> copy] :
                    p \in {q \in Paths : q[1] = f /\ contents[q] # 0}}

WalkItem(s) ==
  /\ At(s, "walk")
  /\ StepScan(s, [scan[s] EXCEPT !.pc = IF scan[s].copyAt = "own" THEN "walkCopy" ELSE "list",
                                 !.found = Walk(scan[s].folder, 0)])
  /\ ScanOnly

WalkCopy(s) ==
  /\ At(s, "walkCopy")
  /\ StepScan(s, [scan[s] EXCEPT !.pc = "list", !.found = @ \cup Walk(CopyFolder, 1)])
  /\ ScanOnly

FoundPaths(s) == {f.path : f \in scan[s].found}
FoundAt(s, p) == CHOOSE f \in scan[s].found : f.path = p
KnownBefore(s, p) == scan[s].listed[p].id # 0

ListFilesForItem(s) ==
  /\ At(s, "list")
  /\ StepScan(s, [scan[s] EXCEPT !.pc = "records", !.listed = ListMediaFilesForItem])
  /\ ScanOnly

FileQualityRecords(s) ==
  /\ At(s, "records")
  /\ StepScan(s, [scan[s] EXCEPT !.pc = "upsert", !.records = ListFileQualityRecordsForItem,
                                 !.todo = FoundPaths(s)])
  /\ ScanOnly

ScanUpsert(s) ==
  /\ At(s, "upsert")
  /\ \E p \in scan[s].todo :
       /\ files' = UpsertFile(p, FoundAt(s, p).copy, FoundAt(s, p).size)
       /\ StepScan(s, [scan[s] EXCEPT !.pc = "seed", !.path = p, !.id = files'[p].id,
                                      !.todo = @ \ {p}])
  /\ UNCHANGED <<contents, mediaFolder, copyAt, probes, prober, fileImporter, spent>>

\* The filename seeds a quality unless the row, as it was listed, had a better one.
ScanSeed(s) ==
  LET p == scan[s].path
      seeds == /\ p[2] \in NamesSaying
               /\ ~KnownBefore(s, p) \/ scan[s].listed[p].prov \in {"", "filename"}
  IN /\ At(s, "seed")
     /\ files' = IF seeds THEN SetFileQualityFrom(scan[s].id, "filename") ELSE files
     /\ StepScan(s, [scan[s] EXCEPT !.pc = "probe"])
     /\ UNCHANGED <<contents, mediaFolder, copyAt, probes, prober, fileImporter, spent>>

\* The probe is asked for, then the episode links are replaced: a row that was
\* deleted meanwhile fails the insert's foreign key, and the item's scan ends.
ScanProbe(s) ==
  LET p == scan[s].path IN
  /\ At(s, "probe")
  /\ IF scan[s].records[p].id = 0 \/ NeedsProbe(scan[s].records[p], FoundAt(s, p).size)
       THEN EnqueueProbe(scan[s].id) ELSE UNCHANGED probes
  /\ \/ StepScan(s, [scan[s] EXCEPT !.pc = "upsert"])
     \/ PathOf(scan[s].id) = {} /\ StepScan(s, Idling)
  /\ UNCHANGED <<contents, files, mediaFolder, copyAt, prober, fileImporter, spent>>

\* Every found path is recorded: what was listed and not found is pruned.
ScanPruneStart(s) ==
  /\ At(s, "upsert") /\ scan[s].todo = {}
  /\ StepScan(s, [scan[s] EXCEPT !.pc = "prune",
                    !.todo = {p \in Paths \ FoundPaths(s) : KnownBefore(s, p)}])
  /\ ScanOnly

ScanPrune(s) ==
  /\ At(s, "prune")
  /\ \E p \in scan[s].todo :
       /\ files' = DeleteMediaFile(scan[s].listed[p].id)
       /\ StepScan(s, [scan[s] EXCEPT !.todo = @ \ {p}])
  /\ UNCHANGED <<contents, mediaFolder, copyAt, probes, prober, fileImporter, spent>>

ScanEnd(s) ==
  /\ At(s, "prune") /\ scan[s].todo = {} /\ StepScan(s, Idling) /\ ScanOnly

(***************************************************************************)
(* RepairFolder: the title is pointed at the folder its files are in now.  *)
(* The records whose file is found there at the same size move with it.    *)
(***************************************************************************)
MovedTo(p, f) == <<f, p[2]>>

\* Load the title, validate the chosen folder (it holds media) and stat what
\* the known files would be.
RepairRead ==
  /\ At("repair", "idle") /\ spent.sweeps < MaxSweeps
  /\ spent' = [spent EXCEPT !.sweeps = @ + 1]
  /\ \E f \in ItemFolders \ {mediaFolder} :
       /\ \E n \in Names : contents[<<f, n>>] # 0
       /\ StepScan("repair",
            [Idling EXCEPT !.pc = "commit", !.folder = f, !.copyAt = copyAt, !.listed = files,
               !.todo = {p \in Recorded : /\ p[1] = mediaFolder
                                          /\ contents[MovedTo(p, f)] = files[p].size}])
  /\ UNCHANGED <<contents, files, mediaFolder, copyAt, probes, prober, fileImporter>>

\* RepairItemFolder: title and records in one transaction, each compared with
\* the path it was read at; a taken path fails it too, and nothing is changed.
RepairItemFolder(moves, f, listed) ==
  /\ mediaFolder # f
  /\ \A p \in moves : files[p].id = listed[p].id /\ files[MovedTo(p, f)].id = 0

RepairCommit ==
  LET s == scan["repair"] IN
  /\ At("repair", "commit")
  /\ IF RepairItemFolder(s.todo, s.folder, s.listed)
       THEN /\ mediaFolder' = s.folder
            /\ files' = [p \in Paths |->
                 IF p \in s.todo THEN NoRecord
                 ELSE IF p[1] = s.folder /\ MovedTo(p, mediaFolder) \in s.todo
                        THEN files[MovedTo(p, mediaFolder)] ELSE files[p]]
            /\ StepScan("repair", [Idling EXCEPT !.pc = "walk", !.folder = s.folder,
                                                 !.copyAt = s.copyAt])
       ELSE /\ StepScan("repair", Idling) /\ UNCHANGED <<mediaFolder, files>>
  /\ UNCHANGED <<contents, copyAt, probes, prober, fileImporter, spent>>

(***************************************************************************)
(* ProbeFile.                                                              *)
(***************************************************************************)
ProbeOnly == UNCHANGED <<contents, mediaFolder, copyAt, scan, fileImporter, spent>>

GetFileQuality ==
  /\ prober.pc = "idle"
  /\ \E id \in probes :
       prober' = IF GetMediaFile(id) = {} THEN [NoProbe EXCEPT !.pc = "done", !.id = id]
                 ELSE LET p == CHOOSE q \in GetMediaFile(id) : TRUE
                      IN [NoProbe EXCEPT !.pc = "read", !.id = id, !.path = p,
                                         !.known = files[p].known]
  /\ UNCHANGED <<files, probes>> /\ ProbeOnly

\* The bytes are read, or cannot be.
ProbeRead ==
  /\ prober.pc = "read"
  /\ \E readable \in {contents[prober.path], 0} :
       prober' = [prober EXCEPT !.pc = "info", !.size = readable]
  /\ UNCHANGED <<files, probes>> /\ ProbeOnly

ProbeInfo ==
  /\ prober.pc = "info"
  /\ files' = SetFileMediaInfo(prober.id, IF prober.size # 0 THEN "measured"
                                          ELSE IF prober.known THEN "filename" ELSE "failed")
  /\ prober' = [prober EXCEPT !.pc = IF prober.size # 0 THEN "quality" ELSE "done"]
  /\ UNCHANGED probes /\ ProbeOnly

ProbeQuality ==
  /\ prober.pc = "quality"
  /\ files' = SetFileQualityFrom(prober.id, "measured")
  /\ prober' = [prober EXCEPT !.pc = "done"]
  /\ UNCHANGED probes /\ ProbeOnly

\* The job completes and its dedupe key is free again.
ProbeDone ==
  /\ prober.pc = "done"
  /\ probes' = probes \ {prober.id} /\ prober' = NoProbe
  /\ UNCHANGED files /\ ProbeOnly

\* ReprobeItem: a person asks for every file again, whatever the cache says.
ReprobeItem ==
  /\ prober.pc = "idle"
  /\ probes' = probes \cup {files[p].id : p \in Recorded}
  /\ UNCHANGED <<files, prober>> /\ ProbeOnly

(***************************************************************************)
(* An import for one edition: the destination is chosen, the bytes are     *)
(* placed, the record is committed.                                        *)
(***************************************************************************)
ImportOnly == UNCHANGED <<mediaFolder, copyAt, scan, probes, prober>>

ImportPlan ==
  /\ fileImporter.pc = "idle" /\ spent.imports < MaxImports
  /\ \E c \in (IF copyAt = "none" THEN {0} ELSE {0, 1}), n \in Names :
       fileImporter' = [pc |-> "place", copy |-> c,
                    path |-> <<IF c = 1 /\ copyAt = "own" THEN CopyFolder ELSE mediaFolder, n>>]
  /\ spent' = [spent EXCEPT !.imports = @ + 1]
  /\ UNCHANGED <<contents, files>> /\ ImportOnly

ImportPlace ==
  /\ fileImporter.pc = "place"
  /\ \E size \in 1..MaxSize : contents' = [contents EXCEPT ![fileImporter.path] = size]
  /\ fileImporter' = [fileImporter EXCEPT !.pc = "commit"]
  /\ UNCHANGED <<files, spent>> /\ ImportOnly

\* What a commit that trusts the insert's attribution would do.
CommitUpsertOnly(p, copy) ==
  [UpsertMediaFile(files, p, copy, contents[p])
     EXCEPT ![p].prov = "measured", ![p].known = TRUE, ![p].probed = TRUE, ![p].by = copy]

\* The commit of a placement names the edition explicitly: the row may already
\* be there, inserted by a scan that saw the bytes first.
CommitFileRecord(p, copy) ==
  [UpdateMediaFileCopy(UpsertMediaFile(files, p, copy, contents[p]), p, copy)
     EXCEPT ![p].prov = "measured", ![p].known = TRUE, ![p].probed = TRUE, ![p].by = copy]

ImportCommit ==
  /\ fileImporter.pc = "commit"
  /\ files' = CommitFileRecord(fileImporter.path, fileImporter.copy)
  /\ fileImporter' = NoImport
  /\ UNCHANGED <<contents, spent>> /\ ImportOnly

(***************************************************************************)
(* The user.                                                               *)
(***************************************************************************)
DeleteCopyRecords ==
  /\ copyAt # "none"
  /\ files' = DeleteMediaFilesForCopy /\ copyAt' = "none"
  /\ UNCHANGED <<contents, mediaFolder, scan, probes, prober, fileImporter, spent>>

DiskChanges ==
  /\ spent.disk < MaxDiskChanges
  /\ \/ \E p \in Paths, size \in 0..MaxSize : contents' = [contents EXCEPT ![p] = size]
     \/ \E f \in ItemFolders, g \in ItemFolders :      \* the whole folder moved
          /\ f # g /\ \A n \in Names : contents[<<g, n>>] = 0
          /\ contents' = [p \in Paths |-> CASE p[1] = g -> contents[<<f, p[2]>>]
                                        [] p[1] = f -> 0
                                        [] OTHER -> contents[p]]
  /\ spent' = [spent EXCEPT !.disk = @ + 1]
  /\ UNCHANGED <<files, mediaFolder, copyAt, scan, probes, prober, fileImporter>>

ScanItem(s) == \/ WalkItem(s) \/ WalkCopy(s) \/ ListFilesForItem(s) \/ FileQualityRecords(s)
               \/ ScanUpsert(s) \/ ScanSeed(s) \/ ScanProbe(s)
               \/ ScanPruneStart(s) \/ ScanPrune(s) \/ ScanEnd(s)
ProbeFile == GetFileQuality \/ ProbeRead \/ ProbeInfo \/ ProbeQuality \/ ProbeDone

FilesNext ==
  \/ ScanStart \/ ScanCopies
  \/ \E s \in Scanners : ScanItem(s)
  \/ RepairRead \/ RepairCommit
  \/ ProbeFile \/ ReprobeItem
  \/ ImportPlan \/ ImportPlace \/ ImportCommit
  \/ DeleteCopyRecords \/ DiskChanges

FilesSpec == FilesInit /\ [][FilesNext]_fileVars

(***************************************************************************)
(* Properties.                                                             *)
(***************************************************************************)

\* A file an import recorded belongs to the edition that import was for, whether
\* a scan inserted the row before the commit, refreshed it after, or a repair
\* moved it: sqlite/library.go UpsertFile, "rescans must not stomp imports".
ImportAttributionWins == \A p \in Recorded : files[p].by # Nobody => files[p].copy = files[p].by
=============================================================================
