----------------------------- MODULE MCSearching -----------------------------
(* What is asked of the indexers and what becomes of the answers: the wanted *)
(* searches, the season comparisons, the request budget they spend, and one  *)
(* title from wanted to filed.  "focus" says which of them moves in a        *)
(* behaviour; the others stay in one initial state.                          *)
EXTENDS WantedSearch, SeasonSearch, IndexerBudget, Curation

VARIABLE focus

\* Payloads: what they say they are, in German and smaller than they say, and
\* too small to be real.
Shown(width, height, bitrate, tongue) ==
    [Unprobed EXCEPT !.width = width, !.height = height, !.bitrate = bitrate,
                     !.duration = 2400, !.size = 1000000,
                     !.audio = {[codec |-> "aac", language |-> tongue]}]
Full == Shown(1920, 1080, 3000, "en")
German == Shown(1280, 720, 1500, "de")
Fake == Shown(1920, 1080, 500, "en")

Offer(k, units, source, lines, tongues, info) ==
    [kind |-> k, units |-> units, claim |-> Tier(source, lines), languages |-> tongues, info |-> info]

TheReleases ==
    {Offer("series", {1}, "webdl", 1080, {"en"}, Full),
     Offer("series", {1, 2}, "bluray", 1080, {"en"}, German),
     Offer("movie", {}, "webdl", 1080, {"en"}, Full),
     Offer("movie", {}, "webdl", 1080, {"mul"}, German),
     Offer("movie", {}, "hdtv", 720, {"en"}, Fake),
     Offer("book", {}, "epub", 0, {"en"}, Unprobed),
     Offer("book", {}, "m4b", 0, {"en"}, Unprobed)}

Dropped(k, units, source, lines, info) ==
    [kind |-> k, units |-> units, claim |-> Tier(source, lines), info |-> info]

TheForeign ==
    {Dropped("series", {1, 2}, "hdtv", 720, German),
     Dropped("movie", {}, "hdtv", 1080, Full),
     Dropped("book", {}, "mobi", 0, Unprobed)}

\* Three of the default profiles, and one that requires English.
TheProfiles ==
    {p \in DefaultProfiles : p.floor = {}}
    \union {[ProfileOf(Tier("webdl", 1080), {}) EXCEPT !.languages = {"en"}]}

SearchingInit ==
    /\ focus \in {"wanted", "season", "budget", "curation"}
    /\ WantedInit /\ SeasonInit /\ BudgetInit /\ CurationInit
    /\ focus # "budget" => dailyCap = 0
    /\ focus # "curation" => kind = "movie" /\ profile.languages = {}

SearchingNext ==
    /\ UNCHANGED focus
    /\ \/ focus = "wanted" /\ WantedNext /\ UNCHANGED <<seasonVars, budgetVars, curationVars>>
       \/ focus = "season" /\ SeasonNext /\ UNCHANGED <<wantedVars, budgetVars, curationVars>>
       \/ focus = "budget" /\ BudgetNext /\ UNCHANGED <<wantedVars, seasonVars, curationVars>>
       \/ focus = "curation" /\ CurationNext /\ UNCHANGED <<wantedVars, seasonVars, budgetVars>>

SearchingSpec ==
    SearchingInit /\ [][SearchingNext]_<<focus, wantedVars, seasonVars, budgetVars, curationVars>>
==============================================================================
