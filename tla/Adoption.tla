------------------------------ MODULE Adoption ------------------------------
(***************************************************************************)
(* Adoption of the folders a library root already holds: the scan that     *)
(* reports unclaimed folders, the job that proposes matches and applies    *)
(* them in roots the user has confirmed, the review queue, and the user's  *)
(* answers to it: adopt one, adopt every confident match, dismiss          *)
(* (src/internal/app/library/scan.go, adopt.go, review.go, skip.go).       *)
(*                                                                         *)
(* The scan report, the review queue and the list of confirmed roots are   *)
(* three values of the meta table, each read, changed and written back     *)
(* without a transaction, by the jobs and by API handlers at once.  A      *)
(* folder is <<root, name>>; what Library.tla says about the item that     *)
(* gets the folder is reduced here to the set of held folders.             *)
(***************************************************************************)
EXTENDS Integers, FiniteSets

CONSTANTS
  RootPaths,     \* directories that may be registered as library roots
  Disk,          \* folders that exist directly below them: <<root, name>>
  SkipNames,     \* folder names the skip patterns exclude
  Users,         \* API handlers acting for a person
  MaxUserCalls   \* bound: calls of users in all

VARIABLES
  roots,      \* root_folders: path -> id, 0 when not registered
  confirmed,  \* meta adopted_roots: ids whose matches apply without asking
  held,       \* folders an item or a copy holds
  ignored,    \* ignored_paths
  report,     \* meta scan report: the unmatched folders with their root id
  queue,      \* meta review queue: proposals
  scanner,    \* the library.scan job
  adopter,    \* the library.adopt job
  user,       \* what each user call is doing
  userCalls

adoptionVars ==
  <<roots, confirmed, held, ignored, report, queue, scanner, adopter, user, userCalls>>

IdleJob == [pc |-> "idle", claimed |-> {}, dirs |-> {}, todo |-> {}, review |-> {},
            gone |-> {}, kept |-> {}, dismissed |-> {}]
IdleUser == IdleJob

----------------------------------------------------------------------------
(* Scan *)

\* The folders claimed when the scan lists the items; the walk of every
\* item's folder (LibraryFiles) follows before the roots are read.
Scan ==
  /\ scanner.pc = "idle"
  /\ scanner' = [IdleJob EXCEPT !.pc = "roots", !.claimed = held]
  /\ UNCHANGED <<roots, confirmed, held, ignored, report, queue, adopter, user, userCalls>>

skip(name) == name \in SkipNames

ScanRoots ==
  /\ scanner.pc = "roots"
  /\ scanner' = [scanner EXCEPT !.pc = "save", !.dirs =
       {[path |-> d, root |-> roots[d[1]]] : d \in
          {e \in Disk : /\ roots[e[1]] # 0
                        /\ ~skip(e[2])
                        /\ e \notin ignored
                        /\ e \notin scanner.claimed}}]
  /\ UNCHANGED <<roots, confirmed, held, ignored, report, queue, adopter, user, userCalls>>

\* The report is stored and the matching pass queued; a pass already queued
\* or running takes the request.
ScanThenAdopt ==
  /\ scanner.pc = "save"
  /\ report' = scanner.dirs
  /\ scanner' = IdleJob
  /\ adopter' = IF adopter.pc = "idle" THEN [IdleJob EXCEPT !.pc = "queued"] ELSE adopter
  /\ UNCHANGED <<roots, confirmed, held, ignored, queue, user, userCalls>>

----------------------------------------------------------------------------
(* Proposals *)

\* What the providers say of a folder is outside: a match that clears the bar
\* (exact) or not.  A mixed root never yields one.
propose(d, exact) == [path |-> d.path, root |-> d.root, exact |-> exact]

\* Any folder may get either answer.
ProposeAdoptions(dirs) == {{propose(d, e[d]) : d \in dirs} : e \in [dirs -> BOOLEAN]}

\* The stored proposals, and a bare entry for every reported folder they do
\* not cover.
loadReviewQueue ==
  queue \cup {[path |-> d.path, root |-> d.root, exact |-> FALSE] :
              d \in {e \in report : \A p \in queue : p.path # e.path}}

\* One page shows what is not dismissed.
ReviewQueue == {p \in loadReviewQueue : p.path \notin ignored}

\* adoptOne: a folder somebody holds is answered for; otherwise the match is
\* added, or refused because the title has another folder, or fails.
adoptOne(path, outcome) ==
  held' = IF outcome = "adopted" THEN held \cup {path} ELSE held

Outcomes(path) == IF path \in held THEN {"adopted"} ELSE {"adopted", "exists", "failed"}

----------------------------------------------------------------------------
(* RunAdoption *)

\* Matches of confirmed roots are applied; the first pass over a root is
\* kept for review.
RunAdoption ==
  /\ adopter.pc = "queued"
  /\ \E proposals \in ProposeAdoptions(report) :
       LET auto == {p \in proposals : p.root \in confirmed}
       IN adopter' = IF report = {} THEN IdleJob
            ELSE [IdleJob EXCEPT !.pc = "adopt",
                    !.todo = {p \in auto : p.exact},
                    !.review = (proposals \ auto) \cup {p \in auto : ~p.exact}]
  /\ UNCHANGED <<roots, confirmed, held, ignored, report, queue, scanner, user, userCalls>>

RunAdoptionStep ==
  /\ adopter.pc = "adopt"
  /\ \E p \in adopter.todo : \E outcome \in Outcomes(p.path) :
       /\ adoptOne(p.path, outcome)
       /\ adopter' = [adopter EXCEPT !.todo = @ \ {p},
            !.gone = IF outcome = "adopted" THEN @ \cup {p.path} ELSE @,
            !.review = IF outcome = "exists" THEN @ \cup {p} ELSE @]
  /\ UNCHANGED <<roots, confirmed, ignored, report, queue, scanner, user, userCalls>>

saveReviewQueue ==
  /\ adopter.pc = "adopt"
  /\ adopter.todo = {}
  /\ queue' = adopter.review
  /\ adopter' = [adopter EXCEPT !.pc = IF adopter.gone = {} THEN "idle" ELSE "drop"]
  /\ UNCHANGED <<roots, confirmed, held, ignored, report, scanner, user, userCalls>>

----------------------------------------------------------------------------
(* dropFromOutstanding: the queue is read and written, then the report. *)

KeptQueue(gone) == {p \in loadReviewQueue : p.path \notin gone}
KeptDirs(gone) == {d \in report : d.path \notin gone}

\* Both values are read-modify-write; the steps are shared by the job and by
\* the users' calls, and k is the record of the one that takes them.
dropRead(k, next) == k.pc = "drop" /\ next = [k EXCEPT !.pc = "dropSave", !.kept = KeptQueue(k.gone)]
dropSave(k, next) == k.pc = "dropSave" /\ next = [k EXCEPT !.pc = "pruneRead"] /\ queue' = k.kept
pruneRead(k, next) == k.pc = "pruneRead" /\ next = [k EXCEPT !.pc = "pruneSave", !.dirs = KeptDirs(k.gone)]
pruneSave(k, next) == k.pc = "pruneSave" /\ next = IdleJob /\ report' = k.dirs

dropFromOutstanding(k, next) ==
  \/ dropRead(k, next) /\ UNCHANGED <<queue, report>>
  \/ dropSave(k, next) /\ UNCHANGED report
  \/ pruneRead(k, next) /\ UNCHANGED <<queue, report>>
  \/ pruneSave(k, next) /\ UNCHANGED queue

AdopterDrop ==
  /\ dropFromOutstanding(adopter, adopter')
  /\ UNCHANGED <<roots, confirmed, held, ignored, scanner, user, userCalls>>

UserDrop(u) ==
  /\ \E next \in {[user[u] EXCEPT !.pc = "dropSave", !.kept = KeptQueue(user[u].gone)],
                  [user[u] EXCEPT !.pc = "pruneRead"],
                  [user[u] EXCEPT !.pc = "pruneSave", !.dirs = KeptDirs(user[u].gone)],
                  IdleJob} :
       /\ dropFromOutstanding(user[u], next)
       /\ user' = [user EXCEPT ![u] = next]
  /\ UNCHANGED <<roots, confirmed, held, ignored, scanner, adopter, userCalls>>

----------------------------------------------------------------------------
(* What a person does *)

UserStart(u) == user[u] = IdleUser /\ userCalls < MaxUserCalls /\ userCalls' = userCalls + 1

\* One folder, picked by hand; its root must be registered.
AdoptOne(u) ==
  /\ UserStart(u)
  /\ \E d \in Disk : \E outcome \in Outcomes(d) :
       /\ roots[d[1]] # 0
       /\ adoptOne(d, outcome)
       /\ user' = [user EXCEPT ![u] =
            IF outcome = "adopted" THEN [IdleUser EXCEPT !.pc = "drop", !.gone = {d}] ELSE IdleUser]
  /\ UNCHANGED <<roots, confirmed, ignored, report, queue, scanner, adopter>>

\* Dismissals that have ended.
Dismissed == ignored \ UNION {user[u].gone : u \in {v \in Users : user[v].pc \in {"ignored", "ignoreSave"}}}

\* Every confident match of the queue, whatever its root.
AdoptExact(u) ==
  /\ UserStart(u)
  /\ user' = [user EXCEPT ![u] = [IdleUser EXCEPT
       !.pc = "exact", !.dismissed = Dismissed, !.todo = {p \in loadReviewQueue : p.exact}]]
  /\ UNCHANGED <<roots, confirmed, held, ignored, report, queue, scanner, adopter>>

AdoptExactStep(u) ==
  /\ user[u].pc = "exact"
  /\ \E p \in user[u].todo : \E outcome \in Outcomes(p.path) :
       /\ adoptOne(p.path, outcome)
       /\ user' = [user EXCEPT ![u].todo = @ \ {p},
                               ![u].gone = IF outcome = "adopted" THEN @ \cup {p.path} ELSE @]
  /\ UNCHANGED <<roots, confirmed, ignored, report, queue, scanner, adopter, userCalls>>

AdoptExactEnd(u) ==
  /\ user[u].pc = "exact"
  /\ user[u].todo = {}
  /\ user' = [user EXCEPT ![u] = IF @.gone = {} THEN IdleUser ELSE [@ EXCEPT !.pc = "drop"]]
  /\ UNCHANGED <<roots, confirmed, held, ignored, report, queue, scanner, adopter, userCalls>>

\* The dismissal is stored, and the folder leaves the report; the stored
\* queue keeps it and hides it when it is read.
IgnoreDir(u) ==
  /\ UserStart(u)
  /\ \E d \in Disk \ ignored :
       /\ ignored' = ignored \cup {d}
       /\ user' = [user EXCEPT ![u] = [IdleUser EXCEPT !.pc = "ignored", !.gone = {d}]]
  /\ UNCHANGED <<roots, confirmed, held, report, queue, scanner, adopter>>

IgnoreRead(u) ==
  /\ user[u].pc = "ignored"
  /\ user' = [user EXCEPT ![u] = [@ EXCEPT !.pc = "ignoreSave", !.dirs = KeptDirs(user[u].gone)]]
  /\ UNCHANGED <<roots, confirmed, held, ignored, report, queue, scanner, adopter, userCalls>>

IgnoreSave(u) ==
  /\ user[u].pc = "ignoreSave"
  /\ report' = user[u].dirs
  /\ user' = [user EXCEPT ![u] = IdleUser]
  /\ UNCHANGED <<roots, confirmed, held, ignored, queue, scanner, adopter, userCalls>>

UnignoreDir(u) ==
  /\ UserStart(u)
  /\ \E d \in ignored : ignored' = ignored \ {d}
  /\ UNCHANGED <<roots, confirmed, held, report, queue, scanner, adopter, user>>

SetRootAutoAdopt(u) ==
  /\ UserStart(u)
  /\ \E id \in 1 .. Cardinality(RootPaths), on \in BOOLEAN :
       confirmed' = IF on THEN confirmed \cup {id} ELSE confirmed \ {id}
  /\ UNCHANGED <<roots, held, ignored, report, queue, scanner, adopter, user>>

\* SQLite gives one more than the largest id in the table.
NextRootId == 1 + CHOOSE m \in {roots[r] : r \in RootPaths} \cup {0} :
                    \A r \in RootPaths : roots[r] <= m

AddRootFolder(u) ==
  /\ UserStart(u)
  /\ \E r \in RootPaths : roots[r] = 0 /\ roots' = [roots EXCEPT ![r] = NextRootId]
  /\ UNCHANGED <<confirmed, held, ignored, report, queue, scanner, adopter, user>>

\* The registration goes; the list of confirmed roots keeps the id.
DeleteRootFolder(u) ==
  /\ UserStart(u)
  /\ \E r \in RootPaths : roots[r] # 0 /\ roots' = [roots EXCEPT ![r] = 0]
  /\ UNCHANGED <<confirmed, held, ignored, report, queue, scanner, adopter, user>>

----------------------------------------------------------------------------
AdoptionInit ==
  /\ roots \in {f \in [RootPaths -> 0 .. 1] : Cardinality({r \in RootPaths : f[r] = 1}) = 1}
  /\ confirmed = {}
  /\ held = {}
  /\ ignored = {}
  /\ report = {}
  /\ queue = {}
  /\ scanner = IdleJob
  /\ adopter = IdleJob
  /\ user = [u \in Users |-> IdleUser]
  /\ userCalls = 0

UserStep(u) ==
  \/ AdoptOne(u) \/ AdoptExact(u) \/ AdoptExactStep(u) \/ AdoptExactEnd(u) \/ UserDrop(u)
  \/ IgnoreDir(u) \/ IgnoreRead(u) \/ IgnoreSave(u) \/ UnignoreDir(u)
  \/ SetRootAutoAdopt(u) \/ AddRootFolder(u) \/ DeleteRootFolder(u)

AdoptionNext ==
  \/ Scan \/ ScanRoots \/ ScanThenAdopt
  \/ RunAdoption \/ RunAdoptionStep \/ saveReviewQueue \/ AdopterDrop
  \/ \E u \in Users : UserStep(u)

AdoptionSpec == AdoptionInit /\ [][AdoptionNext]_adoptionVars

----------------------------------------------------------------------------
\* "IgnoreDir dismisses an adoption candidate for good": asking for every
\* confident match adopts no folder whose dismissal had ended before
\* (AdoptExact).  Picking the folder by hand is an answer of its own.
DismissedForGood ==
  [][\A u \in Users : user[u].pc = "exact" /\ user'[u] # user[u] =>
       held' \cap user[u].dismissed \subseteq held]_adoptionVars

=============================================================================
