------------------------------ MODULE MCFiling ------------------------------
(* What changes the library: an import beside the recovery sweep, the         *)
(* replacement of reviewed files, the items and their identities, and the     *)
(* scans, probes and imports that record an item's files.  "focus" says which *)
(* of them moves in a behaviour; the others stay in one initial state.        *)
EXTENDS ImportControl, Replacement, Library, LibraryFiles

CONSTANTS w1, s1, s2, t1, old1, old12, e1, e2, n

VARIABLE focus

\* Two files of a season: one of a single episode, one of both.
SharedEpisodes == [f \in Old |-> IF f = old1 THEN {e1} ELSE {e1, e2}]

\* The first was filed by hand for one of the episodes its name says.
BothNamed == [f \in Old |-> {e1, e2}]

\* A whole download, of which only the scope differs and no later step reads
\* it, is replaced for being bad and without a scan; only a restart comes
\* between the steps of a scan.
InterestingReplacement ==
    /\ repScan # NoScan => repFaults = 1
    /\ \A o \in Ops : repOperation[o].scope = "download" => repOperation[o].intent = "replace_bad" /\ repScan = NoScan

\* Two works with one title, each known to one of the providers.
SameTitle == [w \in Works |-> "t"]
OneFolder == {<<1, "t">>}
Known(tmdb, tvdb) == [s \in Spaces |-> IF s = "tmdb" THEN tmdb ELSE tvdb]
EitherProvider == {Known(1, 0), Known(0, 1)}
EmptyOrOne == {<<>>, <<Known(1, 0)>>}

FilingInit ==
    /\ focus \in {"import", "replacement", "library", "files"}
    /\ Init /\ RepInit /\ LibraryInit /\ FilesInit
    /\ focus # "import" => row = "downloading"
    /\ focus # "library" => \A i \in ItemIds : ~items[i].live
    /\ focus # "files" => copyAt = "own"

FilingNext ==
    /\ UNCHANGED focus
    /\ \/ focus = "import" /\ Next /\ UNCHANGED <<repVars, libraryVars, fileVars>>
       \/ focus = "replacement" /\ RepNext /\ InterestingReplacement' /\ UNCHANGED <<vars, libraryVars, fileVars>>
       \/ focus = "library" /\ LibraryNext /\ UNCHANGED <<vars, repVars, fileVars>>
       \/ focus = "files" /\ FilesNext /\ UNCHANGED <<vars, repVars, libraryVars>>

FilingSpec == FilingInit /\ [][FilingNext]_<<focus, vars, repVars, libraryVars, fileVars>>
=============================================================================
