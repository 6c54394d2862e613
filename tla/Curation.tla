------------------------------ MODULE Curation ------------------------------
(* One title from wanted to filed and to replaced by something better: the   *)
(* wanted index, the automatic and the manual grab, the import that first    *)
(* judges the release by its name and then the payload by its measurement,   *)
(* and the removal of what the import replaces.  A scan, a probe and the     *)
(* operator work beside it without the import's lock.                        *)
EXTENDS MediaInfo, Sequences, TLC

CONSTANTS
    Episodes,        \* the episodes of the series' one season
    Releases,        \* [kind, units, claim, languages, info]: name and payload
    Foreign,         \* [kind, units, claim, info]: files a person may drop in
    Profiles,        \* the quality profiles
    Runtime,         \* the title's runtime in minutes, 0 when unknown
    RegrabLimit,     \* failed grabs of one want after which automation rests
    MaxDownloads,    \* bound: download rows
    MaxFiles,        \* bound: library files
    MaxTouches       \* bound: what scans, probes and the operator do

VARIABLES
    kind,       \* "movie", "book" or "series"
    profile,    \* the title's profile
    monitored,  \* the targets that are monitored
    library,    \* the recorded files of the title
    rows,       \* the download rows, oldest first
    blocked,    \* blocklisted releases
    index,      \* the cached wanted list: [fresh, items]
    sweep,      \* the wantables a running RSS sweep works through
    importing,  \* the import that holds the title's lock
    touches     \* how often scans, probes and the operator acted

curationVars ==
    <<kind, profile, monitored, library, rows, blocked, index, sweep, importing, touches>>

Titles == {"movie", "book", "series"}
Targets == IF kind = "series" THEN Episodes ELSE {"title"}
ProfilesFor(k) == {p \in Profiles : (k = "book") = IsBookFormat(p.target.source)}
OfKind(s) == {r \in s : r.kind = kind}

File(path, units, bytes, record, info) ==
    [path |-> path, units |-> units, bytes |-> bytes, quality |-> record.quality,
     provenance |-> record.provenance, confidence |-> record.confidence, info |-> info]

AudioOf(f) == IF f.info = Unprobed THEN NoAudio ELSE AudioLanguages(f.info)
SourceVerified(f) == Verified(f.provenance, f.confidence)

\* A quality with neither source nor resolution is stored as no quality at all.
Known(f) == f.quality # Tier("unknown", 0)

Idle == [step |-> "idle"]

CurationInit ==
    /\ kind \in Titles
    /\ profile \in ProfilesFor(kind)
    /\ monitored = Targets
    /\ library = {}
    /\ rows = <<>>
    /\ blocked = {}
    /\ index = [fresh |-> FALSE, items |-> {}]
    /\ sweep = {}
    /\ importing = Idle
    /\ touches = 0

-----------------------------------------------------------------------------
(* What is on disk for a target, as the decision engine sees it.  A file     *)
(* whose numbers cannot be real counts as absent.                            *)

Believed(files) == {f \in files : f.provenance # "implausible"}

BestOf(files) == CHOOSE f \in files : \A g \in files : Rank(f.quality) >= Rank(g.quality)

DiskState(files) ==
    LET known == {f \in Believed(files) : Known(f)}
    IN  IF known = {}
        THEN [files |-> Believed(files) # {}, have |-> {}, verified |-> FALSE, audio |-> NoAudio]
        ELSE LET best == BestOf(known)
             IN  [files |-> TRUE, have |-> {best.quality},
                  verified |-> SourceVerified(best), audio |-> AudioOf(best)]

DiskStateForItem == DiskState(library)
episodeState(e) == DiskState({f \in library : e \in f.units})

targetState(t) == IF kind = "series" THEN episodeState(t) ELSE DiskStateForItem

targetCopy(t) ==
    LET s == targetState(t)
    IN  [monitored |-> t \in monitored, have |-> s.have, files |-> s.files,
         verified |-> s.verified, audio |-> s.audio]

(* The wanted index.                                                         *)

buildWanted == {[target |-> t, seen |-> targetCopy(t)] :
                   t \in {u \in monitored : wants(profile, targetCopy(u))}}

Wanted == IF index.fresh THEN index.items ELSE buildWanted
Stale == [fresh |-> FALSE, items |-> {}]

Reserves(row, t) == row.state = "active" /\ t \in row.wants
notInFlight(t) == \A d \in DOMAIN rows : ~Reserves(rows[d], t)

-----------------------------------------------------------------------------
(* Grabbing.                                                                 *)

Payload(r) == IF r.kind = "book" THEN Unprobed ELSE r.info

\* A release whose payload was delivered and could not be filed is not fetched
\* again; neither is one that failed in the client.
skipCandidate(r) ==
    \/ r \in blocked
    \/ \E d \in DOMAIN rows : rows[d].release = r /\ rows[d].state = "failed"

alreadyInFlight(r) == \E d \in DOMAIN rows : rows[d].release = r /\ rows[d].state = "active"

Fetched(t) == Cardinality({d \in DOMAIN rows : rows[d].state = "failed" /\ t \in rows[d].wants})
regrabCapped(t) == Fetched(t) >= RegrabLimit

\* The release is for this target, and names nothing else.
releaseMatch(r, t) == IF kind = "series" THEN r.units = {t} ELSE TRUE

sizeImplausible(r) == SizeImplausible(r.claim, r.info.size, Runtime)

Grab(r, wantables, manual) ==
    /\ Len(rows) < MaxDownloads
    /\ ~alreadyInFlight(r)
    /\ rows' = Append(rows, [release |-> r, state |-> "active", manual |-> manual,
                             wants |-> wantables])

\* A sweep works on the list it was given, however old it has become.
SyncRSSStarts ==
    /\ sweep = {}
    /\ sweep' = {w \in Wanted : notInFlight(w.target)}
    /\ index' = [fresh |-> TRUE, items |-> Wanted]
    /\ sweep' # {}
    /\ UNCHANGED <<kind, profile, monitored, library, rows, blocked, importing, touches>>

\* A release of the feed for one entry of the list: judged on the entry, then,
\* under the reservation, on the title as it is now.
SyncRSSTakes(r, w) ==
    LET fresh == targetCopy(w.target)
    IN  /\ ~skipCandidate(r)
        /\ releaseMatch(r, w.target)
        /\ Accepted(r.claim, r.languages, w.seen, profile)
        /\ ~sizeImplausible(r)
        /\ fresh.monitored /\ notInFlight(w.target)
        /\ ~regrabCapped(w.target)
        /\ wants(profile, fresh)
        /\ Accepted(r.claim, r.languages, fresh, profile)
        /\ Grab(r, {w.target}, FALSE)
        /\ sweep' = sweep \ {w}
        /\ UNCHANGED <<kind, profile, monitored, library, blocked, index, importing, touches>>

SyncRSSEnds ==
    /\ sweep # {}
    /\ sweep' = {}
    /\ index' = Stale
    /\ UNCHANGED <<kind, profile, monitored, library, rows, blocked, importing, touches>>

\* The best of what an automatic search found: by rank, then by a score and the
\* seeders, which is any of the best-ranked here.
Candidates(t) ==
    {r \in OfKind(Releases) :
        /\ ~skipCandidate(r) /\ releaseMatch(r, t)
        /\ Accepted(r.claim, r.languages, targetCopy(t), profile)
        /\ ~sizeImplausible(r)}

searchAndGrabBest(t) ==
    /\ t \in monitored
    /\ wants(profile, targetCopy(t)) /\ notInFlight(t)
    /\ ~regrabCapped(t)
    /\ \E r \in Candidates(t) :
          /\ \A other \in Candidates(t) : ~Better(other.claim, r.claim)
          /\ Grab(r, {t}, FALSE)
    /\ index' = Stale
    /\ UNCHANGED <<kind, profile, monitored, library, blocked, sweep, importing, touches>>

\* The search a person asks for of one item; a series is compared by season.
AutoSearchItem(t) ==
    /\ kind # "series"
    /\ t \in monitored /\ notInFlight(t)
    /\ searchAndGrabBest(t)

\* A person's choice is not judged.
GrabManual(r) ==
    /\ Grab(r, IF kind = "series" THEN r.units ELSE Targets, TRUE)
    /\ UNCHANGED <<kind, profile, monitored, library, blocked, index, sweep, importing, touches>>

Failing(d) == rows' = [rows EXCEPT ![d].state = "failed"]

\* The client gives a download up.
handleFailure(d) ==
    /\ rows[d].state = "active"
    /\ ~(importing # Idle /\ importing.row = d)
    /\ Failing(d)
    /\ blocked' = blocked \union {rows[d].release}
    /\ UNCHANGED <<kind, profile, monitored, library, index, sweep, importing, touches>>

-----------------------------------------------------------------------------
(* The import.  First the name is judged against what is there.              *)

UpgradeOver(q, offered, s) ==
    \A cur \in s.have : Upgrade(profile, q, offered, cur, s.verified, s.audio)

Protected(q, offered, s) ==
    \/ s.files /\ s.have = {}
    \/ s.have # {} /\ ~(profile.upgrades /\ UpgradeOver(q, offered, s))

Offered(r) == IF kind = "book" THEN {} ELSE r.languages

\* The state of the worst of several targets.
WorstState(states) ==
    CHOOSE s \in states : \A other \in states :
        \A p \in s.have, q \in other.have : Rank(p) <= Rank(q)

\* A book of the wrong kind is refused whoever asks for it.
BookRefused(r, manual) ==
    /\ kind = "book"
    /\ \/ BookTypeForSource(r.claim.source) # BookTypeForSource(profile.target.source)
       \/ ~manual /\ ~Acceptable(profile, r.claim)

ClaimRefused(r, manual) ==
    /\ ~manual
    /\ \E t \in (IF kind = "series" THEN r.units ELSE Targets) :
          Protected(r.claim, Offered(r), targetState(t))

\* A claim better than what is there asks for the old files to go; over an
\* episode that is missing too, only automation asks for it.
ClaimReplaces(r, manual) ==
    LET states == {targetState(t) : t \in (IF kind = "series" THEN r.units ELSE Targets)}
        present == {s \in states : s.have # {}}
        worst == WorstState(present)
    IN  /\ present # {}
        /\ IF present = states
           THEN \/ UpgradeOver(r.claim, Offered(r), worst)
                \/ /\ \A cur \in worst.have : Better(r.claim, cur)
                   /\ kind = "book" \/ LanguageAcceptable(profile, r.languages)
           ELSE ~manual

\* A file is named for what it holds and the quality claimed for it.
destination(r) == <<r.units, r.claim>>
At(path) == {f \in library : f.path = path}

\* A manual import that replaces nothing never takes a path in use.
manualPlacementDestination(r, replaces, manual) ==
    IF manual /\ ~replaces /\ \E f \in At(destination(r)) : f.bytes # r
    THEN <<r.units, r.claim, r>>
    ELSE destination(r)

MeasuredRecord(r) ==
    LET i == Payload(r)
    IN  IF ~Measured(i)
        THEN Recorded(r.claim, IF kind = "book" THEN "filename" ELSE "release", "none")
        ELSE IF DurationImplausible(i, Runtime)
             THEN Recorded(Tier("unknown", ResolutionTier(i)), "implausible", "none")
             ELSE Resolve(i, r.claim, "release")

\* What the new file would take the place of.
Overlaps(f, p) == p.units = {} \/ f.path = p.path \/ f.units \intersect p.units # {}
SharesSiblings(f, p) == p.units # {} /\ ~(f.units \subseteq p.units)

\* What measured languages the payload has, else what the names say.
placedLanguages(p, r) ==
    IF AudioLanguages(p.info).known THEN AudioLanguages(p.info).languages ELSE r.languages

\* Mutant: the name's claim decides over what was measured.
MayReplaceByClaim(p, offered, f, manual) ==
    LET up == Upgrade(profile, p.bytes.claim, offered, f.quality, SourceVerified(f), AudioOf(f))
    IN  IF manual
        THEN up \/ (Better(p.bytes.claim, f.quality) /\ LanguageAcceptable(profile, offered))
        ELSE profile.upgrades /\ up

MayReplace(p, offered, f, manual) ==
    LET up == Upgrade(profile, p.quality, offered, f.quality, SourceVerified(f), AudioOf(f))
    IN  IF manual
        THEN up \/ (Better(p.quality, f.quality) /\ LanguageAcceptable(profile, offered))
        ELSE profile.upgrades /\ up

\* The files the placement is judged against.
JudgedAgainst(p, replaces, manual) ==
    {f \in library :
        /\ Overlaps(f, p)
        /\ ~(f.path = p.path /\ f.bytes = p.bytes)
        /\ ~(f.provenance = "implausible" /\ ~SharesSiblings(f, p))
        /\ ~(manual /\ ~replaces /\ f.path # p.path /\ ~SharesSiblings(f, p))}

ReplacementUnfit(p, r, replaces, manual) ==
    /\ replaces
    /\ \/ p.provenance = "implausible"
       \/ ~manual /\ ~(/\ Acceptable(profile, p.quality)
                       /\ LanguageAcceptable(profile, placedLanguages(p, r)))

\* Other bytes at the destination go only when their record was judged; a
\* record that cannot be real authorises nothing.
targetAuthorized(p, previous, replaces, manual) ==
    \/ previous \subseteq {p.bytes}
    \/ \E f \in JudgedAgainst(p, replaces, manual) : f.path = p.path

validateMeasuredPlacement(p, r, previous, replaces, manual) ==
    /\ ~ReplacementUnfit(p, r, replaces, manual)
    /\ \A f \in JudgedAgainst(p, replaces, manual) :
          /\ ~SharesSiblings(f, p)
          /\ Known(f)
          /\ MayReplace(p, placedLanguages(p, r), f, manual)
          /\ replaces
    /\ targetAuthorized(p, previous, replaces, manual)

\* A payload measured to carry none of the required languages is not fetched again.
LanguageMismatch(p) ==
    /\ profile.languages # {}
    /\ AudioLanguages(p.info).known
    /\ ~LanguagesSatisfy(AudioLanguages(p.info).languages, profile.languages)

importStarts(d) ==
    LET r == rows[d].release
        manual == rows[d].manual
        replaces == ClaimReplaces(r, manual)
    IN  /\ importing = Idle
        /\ rows[d].state = "active"
        /\ IF BookRefused(r, manual) \/ ClaimRefused(r, manual) \/ Truncated(Payload(r))
           THEN Failing(d) /\ UNCHANGED importing
           ELSE /\ importing' = [step |-> "claimed", row |-> d, replaces |-> replaces,
                                 path |-> manualPlacementDestination(r, replaces, manual)]
                /\ UNCHANGED rows
        /\ UNCHANGED <<kind, profile, monitored, library, blocked, index, sweep, touches>>

Placed(r) == File(importing.path, r.units, r, MeasuredRecord(r), Payload(r))

Refuse(p, replaces) ==
    /\ Failing(importing.row)
    /\ importing' = Idle
    /\ blocked' = IF replaces /\ LanguageMismatch(p) THEN blocked \union {p.bytes} ELSE blocked

Bytes(path) == {f.bytes : f \in At(path)}

\* Then the payload is measured and judged, once before it is staged ...
commitPlacementPrepares ==
    LET r == rows[importing.row].release
        p == Placed(r)
    IN  /\ importing.step = "claimed"
        /\ IF validateMeasuredPlacement(p, r, Bytes(importing.path), importing.replaces,
                                        rows[importing.row].manual)
           THEN /\ importing' = [step |-> "prepared", row |-> importing.row,
                                 replaces |-> importing.replaces, path |-> importing.path, put |-> p,
                                 previous |-> Bytes(importing.path),
                                 superseded |-> {f \in library : Overlaps(f, p)}]
                /\ UNCHANGED <<rows, blocked>>
           ELSE Refuse(p, importing.replaces)
        /\ UNCHANGED <<kind, profile, monitored, library, index, sweep, touches>>

\* ... and once more when it has been.
commitPlacementJudges ==
    LET r == rows[importing.row].release
    IN  /\ importing.step = "prepared"
        /\ IF validateMeasuredPlacement(importing.put, r, importing.previous, importing.replaces,
                                        rows[importing.row].manual)
           THEN /\ importing' = [importing EXCEPT !.step = "judged"]
                                @@ [judged |-> library, by |-> profile]
                /\ UNCHANGED <<rows, blocked>>
           ELSE Refuse(importing.put, importing.replaces)
        /\ UNCHANGED <<kind, profile, monitored, library, index, sweep, touches>>

\* The payload is renamed into place, over the bytes seen before staging only.
publishPlacement ==
    LET p == importing.put
    IN  /\ importing.step = "judged"
        /\ IF Bytes(p.path) # importing.previous
           THEN /\ Failing(importing.row) /\ importing' = Idle
                /\ UNCHANGED <<library, blocked>>
           ELSE /\ library' = (library \ At(p.path)) \union {p}
                /\ importing' = [importing EXCEPT !.step = "placed"]
                /\ blocked' = IF LanguageMismatch(p) THEN blocked \union {p.bytes} ELSE blocked
                /\ UNCHANGED rows
        /\ UNCHANGED <<kind, profile, monitored, index, sweep, touches>>

\* What goes once the new file is in place.  A book takes only the files noted
\* when it was prepared; the others list them again.
removeExistingFiles(p) ==
    {f \in (IF kind = "book" THEN library \intersect importing.superseded ELSE library) :
        f.path # p.path /\ (p.units = {} \/ f.units \intersect p.units # {})}

importEnds ==
    LET p == importing.put
    IN  /\ importing.step = "placed"
        /\ library' = IF importing.replaces THEN library \ removeExistingFiles(p) ELSE library
        /\ rows' = [rows EXCEPT ![importing.row].state = "imported"]
        /\ importing' = Idle
        /\ index' = Stale
        /\ UNCHANGED <<kind, profile, monitored, blocked, sweep, touches>>

-----------------------------------------------------------------------------
(* Beside the import.                                                        *)

Touch == touches < MaxTouches /\ touches' = touches + 1

\* A scan records a file somebody put in the folder, by its name.
ScanFinds(f) ==
    /\ Touch
    /\ Cardinality(library) < MaxFiles
    /\ At(destination(f)) = {}
    /\ library' = library \union {File(destination(f), f.units, f, Recorded(f.claim, "filename", "none"), Unprobed)}
    /\ index' = Stale
    /\ UNCHANGED <<kind, profile, monitored, rows, blocked, sweep, importing>>

\* A probe measures a file the scan only named.
ProbeFile(f) ==
    LET i == f.bytes.info
        record == IF Measured(i) /\ DurationImplausible(i, Runtime)
                  THEN Recorded(Tier("unknown", ResolutionTier(i)), "implausible", "none")
                  ELSE Resolve(i, f.quality, "filename")
    IN  /\ Touch
        /\ kind # "book" /\ f.info = Unprobed /\ f.provenance = "filename"
        /\ library' = (library \ {f}) \union {File(f.path, f.units, f.bytes, record, i)}
        /\ index' = Stale
        /\ UNCHANGED <<kind, profile, monitored, rows, blocked, sweep, importing>>

\* The operator: another profile for the title, the profile itself edited (the
\* index is not told), a target's monitoring, a file deleted.
UpdateItemProfile ==
    /\ Touch
    /\ profile' \in ProfilesFor(kind) \ {profile}
    /\ index' = Stale
    /\ UNCHANGED <<kind, monitored, library, rows, blocked, sweep, importing>>

UpdateProfile ==
    /\ Touch
    /\ profile' \in ProfilesFor(kind) \ {profile}
    /\ UNCHANGED <<kind, monitored, library, rows, blocked, index, sweep, importing>>

SetMonitored(t) ==
    /\ Touch
    /\ monitored' = IF t \in monitored THEN monitored \ {t} ELSE monitored \union {t}
    /\ index' = Stale
    /\ UNCHANGED <<kind, profile, library, rows, blocked, sweep, importing>>

RemoveFile(f) ==
    /\ Touch
    /\ library' = library \ {f}
    /\ index' = Stale
    /\ UNCHANGED <<kind, profile, monitored, rows, blocked, sweep, importing>>

CurationNext ==
    \/ SyncRSSStarts \/ SyncRSSEnds
    \/ \E r \in OfKind(Releases) :
          \/ \E w \in sweep : SyncRSSTakes(r, w)
          \/ GrabManual(r)
    \/ \E t \in Targets : AutoSearchItem(t) \/ searchAndGrabBest(t) \/ SetMonitored(t)
    \/ \E d \in DOMAIN rows : handleFailure(d) \/ importStarts(d)
    \/ commitPlacementPrepares \/ commitPlacementJudges \/ publishPlacement \/ importEnds
    \/ \E f \in OfKind(Foreign) : ScanFinds(f)
    \/ \E f \in library : ProbeFile(f) \/ RemoveFile(f)
    \/ UpdateItemProfile \/ UpdateProfile

CurationSpec == CurationInit /\ [][CurationNext]_curationVars

-----------------------------------------------------------------------------
(* What an import takes away was, when the placement was last judged, worse  *)
(* than what it put there, or lacked every required language, or could not   *)
(* be real; and every episode it served is served by the new file            *)
(* (placement_policy.go validateMeasuredPlacement, import.go                 *)
(* removeExistingFiles).  The name's claim never suffices.  A file recorded  *)
(* after the judgement is outside it: the removal lists the files again.     *)
Justified(f, p, by) ==
    /\ f.units \subseteq p.units
    /\ \/ f.provenance = "implausible"
       \/ Better(p.quality, f.quality)
       \/ ~LanguageMet(by, AudioOf(f))

ReplacedByBetter ==
    [][importing.step \in {"judged", "placed"} =>
          \A f \in importing.judged \intersect (library \ library') :
             touches' = touches /\ f.bytes # importing.put.bytes => Justified(f, importing.put, importing.by)]_curationVars
=============================================================================
