----------------------------- MODULE MediaInfo -----------------------------
(* What a measurement of a file says (internal/domain/mediainfo): its        *)
(* resolution, whether its numbers can be real, which source its numbers     *)
(* point to, and how the measurement and the name together give a quality.   *)
(* A measurement is [width, height, interlaced, audio, bitrate, duration,    *)
(* declared, size, makemkv]: audio a set of [codec, language], bitrate in    *)
(* kbps, duration in seconds, declared and size in kB.  Pure definitions.    *)
EXTENDS Quality

Unprobed ==
    [width |-> 0, height |-> 0, interlaced |-> FALSE, audio |-> {}, bitrate |-> 0,
     duration |-> 0, declared |-> 0, size |-> 0, makemkv |-> FALSE]

Measured(i) == i.width > 0 /\ i.height > 0

ResolutionTier(i) ==
    CASE i.width >= 3000 \/ i.height >= 1600 -> 2160
      [] ~(i.width >= 3000 \/ i.height >= 1600) /\ (i.width >= 1700 \/ i.height >= 900) -> 1080
      [] i.width < 1700 /\ i.height < 900 /\ (i.width >= 1150 \/ i.height >= 650) -> 720
      [] i.width < 1150 /\ i.height \in 1..649 -> 480
      [] OTHER -> 0

losslessAudio == {"truehd", "flac", "pcm", "mlp", "alac"}
discAudio == {"dts"}
webAudio == {"eac3", "aac", "opus", "vorbis"}

Codecs(i) == {a.codec : a \in i.audio}
HasLosslessAudio(i) == Codecs(i) \intersect losslessAudio # {}
AudioAllWebOrNeutral(i) ==
    i.audio # {} /\ Codecs(i) \intersect (losslessAudio \union discAudio) = {}
HasWebAudio(i) == Codecs(i) \intersect webAudio # {}

\* Known only when every track says its language.
AudioLanguages(i) ==
    [languages |-> {a.language : a \in i.audio} \ {""},
     known |-> i.audio # {} /\ \A a \in i.audio : a.language # ""]

-----------------------------------------------------------------------------
(* Numbers no encoder produces.                                              *)

TruncationSlack == 4

Truncated(i) == i.declared > 0 /\ i.size > 0 /\ i.declared > i.size + TruncationSlack

bitrateFloorByTier ==
    [t \in Resolutions |->
        CASE t = 2160 -> 1500 [] t = 1080 -> 600 [] t = 720 -> 300 [] t = 480 -> 150 [] OTHER -> 0]

audioFloorOf(codec) ==
    CASE codec \in {"truehd", "mlp", "pcm"} -> 1000
      [] codec \in {"flac", "alac"} -> 400
      [] codec = "dts" -> 700
      [] codec \in {"eac3", "ac3"} -> 96
      [] codec \in {"aac", "opus", "mp3", "vorbis"} -> 32
      [] OTHER -> 0

\* A track's floor that the whole file does not exceed.
AudioFloorBroken(i) == \E c \in Codecs(i) : audioFloorOf(c) > 0 /\ i.bitrate <= audioFloorOf(c)

MinJudgeable == 60

Implausible(i) ==
    /\ Measured(i)
    /\ \/ Truncated(i)
       \/ /\ i.bitrate > 0
          /\ i.duration >= MinJudgeable
          /\ AudioFloorBroken(i) \/ i.bitrate < bitrateFloorByTier[ResolutionTier(i)]

\* The runtime in minutes; zero when nobody knows it.
DurationImplausible(i, runtime) ==
    /\ Measured(i) /\ i.duration > 0 /\ runtime > 0
    /\ 2 * i.duration < runtime * 60

-----------------------------------------------------------------------------
(* Which source the numbers point to.                                        *)

Bands(remuxFloor, bdLow, webLow, webHigh) ==
    [remuxFloor |-> remuxFloor, bdLow |-> bdLow, webLow |-> webLow, webHigh |-> webHigh]

bandsByTier ==
    [t \in Resolutions \ {0} |->
        CASE t = 2160 -> Bands(40000, 15000, 4000, 30000)
          [] t = 1080 -> Bands(20000, 6000, 2000, 12000)
          [] t = 720 -> Bands(10000, 3000, 1000, 6000)
          [] t = 480 -> Bands(8000, 2000, 500, 4000)]

\* A release's advertised size, in kB, against what its name claims.
SizeImplausible(claim, size, runtime) ==
    LET kbps == IF runtime > 0 THEN (size * 8) \div (runtime * 60) ELSE 0
    IN  /\ size > 0 /\ runtime > 0 /\ kbps > 0
        /\ \/ /\ claim.source = "remux" /\ claim.resolution # 0
              /\ kbps < bandsByTier[claim.resolution].bdLow
           \/ kbps < bitrateFloorByTier[claim.resolution]

Inferred(s, c) == [source |-> s, confidence |-> c]

\* The first of these that applies.
InferSource(i) ==
    IF ~Measured(i) \/ ResolutionTier(i) = 0 THEN Inferred("unknown", "none")
    ELSE LET b == bandsByTier[ResolutionTier(i)]
         IN  IF i.interlaced THEN Inferred("hdtv", "high")
             ELSE IF HasLosslessAudio(i)
                  THEN IF i.bitrate >= b.remuxFloor
                       THEN Inferred("remux", "high") ELSE Inferred("bluray", "medium")
             ELSE IF i.makemkv THEN Inferred("remux", "high")
             ELSE IF i.bitrate >= b.remuxFloor THEN Inferred("remux", "medium")
             ELSE IF AudioAllWebOrNeutral(i) /\ i.bitrate \in b.webLow..b.webHigh
                  THEN Inferred("webdl", IF HasWebAudio(i) THEN "medium" ELSE "low")
             ELSE IF i.bitrate >= b.bdLow THEN Inferred("bluray", "low")
             ELSE Inferred("unknown", "none")

\* Whether the numbers rule out the source the name claims.
Contradicts(i, token) ==
    /\ Measured(i) /\ ResolutionTier(i) # 0
    /\ LET b == bandsByTier[ResolutionTier(i)]
       IN  \/ /\ token = "remux"
              /\ \/ i.bitrate > 0 /\ i.bitrate < b.bdLow
                 \/ ~HasLosslessAudio(i) /\ i.bitrate < b.remuxFloor
           \/ token \in {"webdl", "webrip"} /\ HasLosslessAudio(i)

-----------------------------------------------------------------------------
(* The recorded quality, where it comes from and how far it is believed.     *)

Recorded(q, provenance, confidence) ==
    [quality |-> q, provenance |-> provenance, confidence |-> confidence]

Resolve(i, hint, hintProvenance) ==
    LET tier == ResolutionTier(i)
        v == InferSource(i)
    IN  IF ~Measured(i)
        THEN IF hint.source # "unknown" \/ hint.resolution # 0
             THEN Recorded(hint, hintProvenance, "none")
             ELSE Recorded(Tier("unknown", 0), "failed", "none")
        ELSE IF Implausible(i) THEN Recorded(Tier("unknown", tier), "implausible", "none")
        ELSE IF v.source # "unknown" /\ v.confidence = "high"
             THEN Recorded(Tier(v.source, tier), "probe", "high")
        ELSE IF hint.source # "unknown" /\ ~Contradicts(i, hint.source)
             THEN Recorded(Tier(hint.source, tier), hintProvenance, "none")
        ELSE IF v.source # "unknown" THEN Recorded(Tier(v.source, tier), "probe", v.confidence)
        ELSE Recorded(Tier("unknown", tier), "probe", "none")

Verified(provenance, confidence) ==
    \/ provenance \in {"manual", "filename", "release"}
    \/ provenance = "probe" /\ confidence = "high"
=============================================================================
