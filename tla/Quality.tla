------------------------------ MODULE Quality ------------------------------
(* What a file or a release is worth and what a profile wants of it: the     *)
(* order on qualities (internal/domain/quality), the language rule           *)
(* (internal/domain/language) and the decision on one release                *)
(* (internal/domain/decision).  Pure definitions, no state.                  *)
EXTENDS Integers, FiniteSets

EbookFormats == {"pdf", "mobi", "azw3", "epub", "cbz", "cbr", "djvu"}

AudiobookFormats ==
    {"mp3", "wma", "aac", "ogg", "opus", "m4a", "m4b", "flac", "wav"}

VideoSources ==
    {"unknown", "cam", "telesync", "dvd", "hdtv", "webrip", "webdl", "bluray", "remux"}

Sources == VideoSources \union EbookFormats \union AudiobookFormats
Resolutions == {0, 480, 720, 1080, 2160}
Qualities == [source : Sources, resolution : Resolutions]

\* The formats of a family of their own.
IsBookFormat(s) == s \in EbookFormats \union AudiobookFormats
IsScreenCapture(s) == s \in {"cam", "telesync"}

BookTypeForSource(s) ==
    CASE s \in EbookFormats -> "ebook"
      [] s \in AudiobookFormats -> "audiobook"
      [] OTHER -> "none"

family(s) ==
    CASE s \in EbookFormats -> 1
      [] s \in AudiobookFormats -> 2
      [] OTHER -> 0

\* Each family has its own ladder; the ladders share their rungs.
sourceRank ==
    [s \in Sources |->
        CASE s \in {"cam", "pdf", "mp3"} -> 1
          [] s \in {"telesync", "mobi", "wma"} -> 2
          [] s \in {"dvd", "azw3", "aac"} -> 3
          [] s \in {"hdtv", "epub", "cbz", "cbr", "djvu", "ogg"} -> 4
          [] s \in {"webrip", "opus"} -> 5
          [] s \in {"webdl", "m4a"} -> 6
          [] s \in {"bluray", "m4b"} -> 7
          [] s \in {"remux", "flac"} -> 8
          [] s = "wav" -> 9
          [] OTHER -> 0]

resolutionRank ==
    [r \in Resolutions |->
        CASE r = 480 -> 1 [] r = 720 -> 2 [] r = 1080 -> 3 [] r = 2160 -> 4 [] OTHER -> 0]

Rank(q) == resolutionRank[q.resolution] * 16 + sourceRank[q.source]
Better(p, q) == Rank(p) > Rank(q)

-----------------------------------------------------------------------------
(* A profile: the quality it hunts for, the floor it never goes below (a set *)
(* of at most one quality), whether a file once present may be improved, and *)
(* the audio languages it requires, one of which must be there.              *)

Multi == "mul"

\* language.Satisfies
LanguagesSatisfy(offered, required) ==
    \/ required = {}
    \/ Multi \in offered
    \/ offered \intersect required # {}

\* What is known of a file's soundtracks.
NoAudio == [languages |-> {}, known |-> FALSE]

LanguageMet(p, audio) ==
    \/ p.languages = {}
    \/ ~audio.known
    \/ LanguagesSatisfy(audio.languages, p.languages)

LanguageAcceptable(p, offered) == LanguagesSatisfy(offered, p.languages)

\* The resolution decides; at the target resolution an unverified source
\* counts as good enough.
Met(p, q, verified) ==
    \/ resolutionRank[q.resolution] > resolutionRank[p.target.resolution]
    \/ /\ resolutionRank[q.resolution] = resolutionRank[p.target.resolution]
       /\ ~verified \/ sourceRank[q.source] >= sourceRank[p.target.source]

Satisfied(p, q, verified, audio) == Met(p, q, verified) /\ LanguageMet(p, audio)

Acceptable(p, q) ==
    /\ family(q.source) = family(p.target.source)
    /\ IsScreenCapture(q.source) => IsScreenCapture(p.target.source)
    /\ resolutionRank[q.resolution] <= resolutionRank[p.target.resolution]
    /\ \A f \in p.floor : Rank(q) >= Rank(f)

Upgrade(p, q, offered, current, verified, audio) ==
    /\ Acceptable(p, q)
    /\ LanguageAcceptable(p, offered)
    /\ \/ ~LanguageMet(p, audio)
       \/ Rank(q) > Rank(current) /\ ~Met(p, current, verified)

ProfileOf(target, floor) ==
    [target |-> target, floor |-> floor, upgrades |-> TRUE, languages |-> {}]

Tier(s, r) == [source |-> s, resolution |-> r]

DefaultProfiles ==
    {ProfileOf(Tier("webdl", 1080), {}),
     ProfileOf(Tier("webdl", 1080), {Tier("hdtv", 1080)}),
     ProfileOf(Tier("webdl", 2160), {Tier("webdl", 2160)}),
     ProfileOf(Tier("epub", 0), {}),
     ProfileOf(Tier("m4b", 0), {})}

-----------------------------------------------------------------------------
(* A wantable: [monitored, have, files, verified, audio], have being the set *)
(* with the best known quality of its files, empty when none is known.       *)

OnDisk(w) == w.files \/ w.have # {}

\* Whether a wantable is on the wanted list.
wants(p, w) ==
    IF w.have = {}
    THEN ~OnDisk(w)
    ELSE p.upgrades /\ \A q \in w.have : ~Satisfied(p, q, w.verified, w.audio)

\* Why a profile never takes a quality, whatever is on disk.
NotAcceptableCode(p, q) ==
    IF \/ IsScreenCapture(q.source) /\ ~IsScreenCapture(p.target.source)
       \/ family(q.source) # family(p.target.source)
    THEN "source_not_allowed"
    ELSE IF \E f \in p.floor : Rank(q) < Rank(f) THEN "below_floor" ELSE "above_target"

\* Decide's verdict, "" for an acceptance.  The order of the questions decides
\* which code is given.
Decide(q, offered, w, p) ==
    IF ~w.monitored THEN "unmonitored"
    ELSE IF q.source = "unknown" /\ q.resolution = 0 THEN "quality_unknown"
    ELSE IF ~Acceptable(p, q) THEN NotAcceptableCode(p, q)
    ELSE IF ~LanguageAcceptable(p, offered) THEN "language_not_wanted"
    ELSE IF w.have = {} THEN (IF OnDisk(w) THEN "on_disk_unverified" ELSE "")
    ELSE IF \E cur \in w.have : Satisfied(p, cur, w.verified, w.audio) THEN "target_met"
    ELSE IF ~p.upgrades THEN "upgrades_disabled"
    ELSE IF \E cur \in w.have : ~Upgrade(p, q, offered, cur, w.verified, w.audio)
         THEN "not_an_upgrade"
    ELSE ""

Accepted(q, offered, w, p) == Decide(q, offered, w, p) = ""
=============================================================================
