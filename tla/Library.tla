------------------------------ MODULE Library ------------------------------
(***************************************************************************)
(* The library's media items: which provider identities an item carries,   *)
(* which folder it holds, its copies, its alternate titles, and the        *)
(* in-memory index the release matcher builds from them                    *)
(* (src/internal/app/library, src/internal/infra/sqlite/library.go,        *)
(* identity.go, folder_claims.go, app/acquisition/identityindex.go).       *)
(*                                                                         *)
(* API handlers, import lists and the adoption job call the service at the *)
(* same time, so a call is split at every read that is used after another  *)
(* call may have written: the duplicate check, the provider's answer, the  *)
(* choice of a free folder and the writing transaction are separate steps. *)
(* The model has one kind of media (series); a work is a number that both  *)
(* identifier spaces use.  A provider may answer with any identifier in    *)
(* the space it was not asked in, wrong ones included.                     *)
(***************************************************************************)
EXTENDS Integers, FiniteSets, Sequences

CONSTANTS
  Works,          \* works a provider knows, each numbered the same in both id spaces
  TitleOf,        \* the title of a work; two works may share one
  AddRequests,       \* the ids a request to add a work may carry
  Stocked,        \* libraries a behaviour starts from: sequences of the items' ids
  Folders,        \* folders that exist on disk directly below root 1
  Callers,        \* concurrent API handlers, list syncs and adoption jobs
  MaxItems,       \* bound: rows of media_items alive at once
  MaxLibraryCalls        \* bound: calls started in all

ASSUME LibraryAssumption ==
  /\ Works \subseteq Nat \ {0}
  /\ AddRequests \subseteq [{"tmdb", "tvdb"} -> Works \cup {0}]
  /\ MaxItems \in Nat
  /\ MaxLibraryCalls \in Nat

\* The library a behaviour starts from is one the service could have left.
ASSUME StockedAssumption ==
  \A stock \in Stocked :
    /\ stock \in Seq([{"tmdb", "tvdb"} -> Works \cup {0}])
    /\ \A i, j \in 1 .. Len(stock) : i # j =>
         \A s \in {"tmdb", "tvdb"} : stock[i][s] = 0 \/ stock[i][s] # stock[j][s]

Spaces == {"tmdb", "tvdb"}
ExternalIDs == [Spaces -> Works \cup {0}]
NoIds == [s \in Spaces |-> 0]
ItemIds == 1 .. MaxItems
NoPath == <<>>
AliasRoles == {"provider", "manual", "historical"}

\* A row of media_items; live says whether the row exists.
NoRow == [live |-> FALSE, ids |-> NoIds, source |-> "", title |-> "", path |-> NoPath,
          aliases |-> {}, fetched |-> "none"]

VARIABLES
  items,      \* media_items with media_aliases and media_identity_sources
  copies,     \* media_copies with a folder of their own: <<item, path>>
  revision,   \* identity_revision
  libraryCall,       \* what each caller is doing
  libraryCalls,      \* calls started so far
  identityIndex       \* the release matcher's cached identity index, and its builder

libraryVars == <<items, copies, revision, libraryCall, libraryCalls, identityIndex>>

NoCall == [op |-> "none", pc |-> "idle", req |-> NoIds, ids |-> NoIds, source |-> "",
         title |-> "", id |-> 0, root |-> 0, path |-> NoPath, retried |-> FALSE,
         force |-> FALSE, folder |-> NoPath, seen |-> NoRow]

LiveItems == {i \in ItemIds : items[i].live}

----------------------------------------------------------------------------
(* Identities *)

FindMediaItemsByKindTmdb(w) == {i \in LiveItems : items[i].ids["tmdb"] = w}
FindMediaItemsByKindTvdb(w) == {i \in LiveItems : items[i].ids["tvdb"] = w}

FindMediaItemsByExternalID(space, w) ==
  IF space = "tmdb" THEN FindMediaItemsByKindTmdb(w) ELSE FindMediaItemsByKindTvdb(w)

GetMediaItem(i) == IF i \in LiveItems THEN items[i] ELSE NoRow

\* The lookups an adoption uses: the query gives one of these rows.
GetMediaItemByKindTmdb(w) == {i \in LiveItems : w # 0 /\ items[i].ids["tmdb"] = w}
GetMediaItemByKindTvdb(w) == {i \in LiveItems : w # 0 /\ items[i].ids["tvdb"] = w}

Claimants(ids) ==
  UNION {FindMediaItemsByExternalID(s, ids[s]) : s \in {t \in Spaces : ids[t] # 0}}

Contradicts(a, b) == \E s \in Spaces : a[s] # 0 /\ b[s] # 0 /\ a[s] # b[s]

\* What the rows of the library say to somebody who wants to add these ids.
existingByAnyID(ids) ==
  LET claimed == Claimants(ids) IN
  CASE ids = NoIds -> "missing"
    [] claimed = {} -> "free"
    [] Cardinality(claimed) > 1 \/ \E i \in claimed : Contradicts(ids, items[i].ids) -> "conflict"
    [] OTHER -> "exists"

\* Mutant: the transaction relies on the check made before the provider call.
CheckedBefore(ids) == "free"

\* The same question, asked again inside the inserting transaction.
checkCreateIdentity(ids) ==
  LET claimed == Claimants(ids) IN
  CASE claimed = {} -> "free"
    [] Cardinality(claimed) > 1 \/ \E i \in claimed : Contradicts(ids, items[i].ids) -> "conflict"
    [] OTHER -> "exists"

\* Known ids stay, unknown ones are filled in.
Enrich(stored, incoming) == [s \in Spaces |-> IF stored[s] # 0 THEN stored[s] ELSE incoming[s]]

\* An answer of the provider asked for id w of a space (external service).
Answers(space, w) == {ids \in ExternalIDs : ids[space] = w}

----------------------------------------------------------------------------
(* Folders *)

baseFolder(root, title) == <<root, title>>

folderTag(ids, id) ==
  CASE ids["tmdb"] # 0 -> <<"tmdb", ids["tmdb"]>>
    [] ids["tmdb"] = 0 /\ ids["tvdb"] # 0 -> <<"tvdb", ids["tvdb"]>>
    [] ids = NoIds /\ id # 0 -> <<"monarr", id>>
    [] OTHER -> <<"(2)">>

\* Every folder an item or a copy holds, with its holder.
ListFolderClaims ==
  {<<i, items[i].path>> : i \in {j \in LiveItems : items[j].path # NoPath}} \cup copies

TakenFor(id) == {c[2] : c \in {d \in ListFolderClaims : d[1] # id \/ id = 0}}

freeFolder(root, title, ids, id) ==
  LET base == baseFolder(root, title)
      tagged(n) == IF n = 1 THEN base \o folderTag(ids, id) ELSE base \o folderTag(ids, id) \o <<n>>
      free == {n \in 1 .. (Cardinality(ListFolderClaims) + 1) : tagged(n) \notin TakenFor(id)}
  IN IF base \notin TakenFor(id) THEN base
     ELSE tagged(CHOOSE n \in free : \A m \in free : n <= m)

folderHeld(path, self) == \E c \in ListFolderClaims : c[1] # self /\ c[2] = path

\* The unique index over media_items.path (migration 0032).
PathIndexRefuses(id, path) == path # NoPath /\ \E j \in LiveItems \ {id} : items[j].path = path

----------------------------------------------------------------------------
(* Calls.  Return ends a call; its result is only used inside the service. *)

CallGoes(c, pc) == libraryCall' = [libraryCall EXCEPT ![c].pc = pc]
EndCall(c) == libraryCall' = [libraryCall EXCEPT ![c] = NoCall]

StartCall(c, record) ==
  /\ libraryCall[c] = NoCall
  /\ libraryCalls < MaxLibraryCalls
  /\ libraryCalls' = libraryCalls + 1
  /\ libraryCall' = [libraryCall EXCEPT ![c] = record]
  /\ UNCHANGED <<items, copies, revision, identityIndex>>

WriteItem(i, row) == items' = [items EXCEPT ![i] = row]

\* What the queries make of a row and of the tables that belong to it.
InsertMediaItem(ids, source, title, path) ==
  [NoRow EXCEPT !.live = TRUE, !.ids = ids, !.source = source, !.title = title, !.path = path]
UpdateMediaItemPlacement(row, path) == [row EXCEPT !.path = path]
UpdateMediaExternalIDs(row, ids) == [row EXCEPT !.ids = ids]
UpdateMediaItemMetadata(row, title) == [row EXCEPT !.title = title]
InsertMediaAlias(row, role) == [row EXCEPT !.aliases = @ \cup {role}]
DeleteManualAlias(row) == [row EXCEPT !.aliases = @ \ {"manual"}]
DeleteReplaceableProviderAliases(row) == [row EXCEPT !.aliases = @ \ {"provider"}]
UpsertIdentitySource(row, outcome) == [row EXCEPT !.fetched = outcome]

BumpIdentityRevision == revision' = revision + 1

\* The id SQLite gives: one more than the largest in the table.
NextItemId == IF LiveItems = {} THEN 1 ELSE 1 + CHOOSE i \in LiveItems : \A j \in LiveItems : j <= i

(* ---- Add ---- *)

Add(c) ==
  \E ids \in AddRequests, root \in {0, 1} :
    StartCall(c, [NoCall EXCEPT !.op = "add", !.pc = "check", !.req = ids, !.root = root])

AddCheck(c) ==
  /\ libraryCall[c].pc = "check"
  /\ CASE existingByAnyID(libraryCall[c].req) = "free" -> CallGoes(c, "hydrate")
       [] existingByAnyID(libraryCall[c].req) = "exists" /\ libraryCall[c].op = "adopt" -> CallGoes(c, "relink")
       [] OTHER -> EndCall(c)
  /\ UNCHANGED <<items, copies, revision, libraryCalls, identityIndex>>

\* The provider answers, its ids are merged with the request's, and the
\* duplicate check is repeated with what was learned.
hydrateAdd(c) ==
  /\ libraryCall[c].pc = "hydrate"
  /\ \E source \in {s \in Spaces : libraryCall[c].req[s] # 0} :
       \E fetched \in Answers(source, libraryCall[c].req[source]) :
         LET ids == Enrich(fetched, libraryCall[c].req)
             found == existingByAnyID(ids)
         IN CASE Contradicts(libraryCall[c].req, fetched) -> EndCall(c)
              [] ~Contradicts(libraryCall[c].req, fetched) /\ found = "free" ->
                   libraryCall' = [libraryCall EXCEPT ![c] =
                     [@ EXCEPT !.pc = IF libraryCall[c].root = 0 THEN "create" ELSE "place",
                               !.ids = ids, !.source = source,
                               !.title = TitleOf[libraryCall[c].req[source]]]]
              [] ~Contradicts(libraryCall[c].req, fetched) /\ found = "exists" /\ libraryCall[c].op = "adopt" ->
                   CallGoes(c, "relink")
              [] OTHER -> EndCall(c)
  /\ UNCHANGED <<items, copies, revision, libraryCalls, identityIndex>>

AddPlace(c) ==
  /\ libraryCall[c].pc = "place"
  /\ libraryCall' = [libraryCall EXCEPT ![c] =
       [@ EXCEPT !.pc = "create",
                 !.path = freeFolder(libraryCall[c].root, libraryCall[c].title, libraryCall[c].ids, 0)]]
  /\ UNCHANGED <<items, copies, revision, libraryCalls, identityIndex>>

\* One transaction.  A refused folder is chosen again once.
CreateMediaItem(c) ==
  LET verdict == checkCreateIdentity(libraryCall[c].ids) IN
  /\ libraryCall[c].pc = "create"
  /\ \/ /\ verdict # "free"
        /\ IF verdict = "exists" /\ libraryCall[c].op = "adopt" THEN CallGoes(c, "relink") ELSE EndCall(c)
        /\ UNCHANGED <<items, revision>>
     \/ /\ verdict = "free"
        /\ PathIndexRefuses(0, libraryCall[c].path)
        /\ IF libraryCall[c].root # 0 /\ ~libraryCall[c].retried
             THEN libraryCall' = [libraryCall EXCEPT ![c] = [@ EXCEPT !.pc = "place", !.retried = TRUE]]
             ELSE EndCall(c)
        /\ UNCHANGED <<items, revision>>
     \/ /\ verdict = "free"
        /\ ~PathIndexRefuses(0, libraryCall[c].path)
        /\ NextItemId <= MaxItems
        /\ WriteItem(NextItemId, InsertMediaItem(libraryCall[c].ids, libraryCall[c].source,
                                                 libraryCall[c].title, libraryCall[c].path))
        /\ BumpIdentityRevision
        /\ IF libraryCall[c].op = "adopt"
             THEN libraryCall' = [libraryCall EXCEPT ![c] =
                    [@ EXCEPT !.pc = "read", !.id = NextItemId, !.root = 0,
                              !.path = libraryCall[c].folder]]
             ELSE EndCall(c)
  /\ UNCHANGED <<copies, libraryCalls, identityIndex>>

\* A manual entry: a folder the caller names, no provider identity.
AddManual(c) ==
  \E folder \in Folders :
    /\ ~folderHeld(folder, 0)
    /\ StartCall(c, [NoCall EXCEPT !.op = "manual", !.pc = "create", !.source = "manual",
                             !.title = "manual", !.path = folder])

(* ---- UpdateItem ---- *)

\* root 0 and no path edits the flags only, and the row's placement is
\* written back as it was read; root Clear takes the folder away.
ClearFolder == 9

UpdateItem(c) ==
  \E i \in LiveItems, root \in {0, 1, ClearFolder}, path \in Folders \cup {NoPath} :
    StartCall(c, [NoCall EXCEPT !.op = "update", !.pc = "read", !.id = i, !.root = root, !.path = path])

UpdateRead(c) ==
  /\ libraryCall[c].pc = "read"
  /\ IF GetMediaItem(libraryCall[c].id) # NoRow
       THEN libraryCall' = [libraryCall EXCEPT ![c] =
              [@ EXCEPT !.pc = "claims", !.seen = GetMediaItem(libraryCall[c].id)]]
       ELSE EndCall(c)
  /\ UNCHANGED <<items, copies, revision, libraryCalls, identityIndex>>

\* A folder the caller chose must be free; a root asks for a free folder.
\* A refused adoption removes the item it had created.
UpdateClaims(c) ==
  LET k == libraryCall[c] IN
  /\ k.pc = "claims"
  /\ \/ /\ k.path # NoPath
        /\ folderHeld(k.path, k.id)
        /\ IF k.op = "adopt" /\ k.source # "" THEN CallGoes(c, "undo") ELSE EndCall(c)
     \/ /\ k.path # NoPath
        /\ ~folderHeld(k.path, k.id)
        /\ CallGoes(c, "write")
     \/ /\ k.path = NoPath
        /\ libraryCall' = [libraryCall EXCEPT ![c] =
             [@ EXCEPT !.pc = "write",
                       !.path = CASE k.root = 0 -> k.seen.path
                                  [] k.root = ClearFolder -> NoPath
                                  [] OTHER -> freeFolder(k.root, k.seen.title, k.seen.ids, k.id)]]
  /\ UNCHANGED <<items, copies, revision, libraryCalls, identityIndex>>

\* An update of a row that is gone changes nothing and ends in ErrNotFound.
UpdateMediaItemSettings(c) ==
  LET k == libraryCall[c] IN
  /\ k.pc = "write"
  /\ \/ /\ ~PathIndexRefuses(k.id, k.path)
        /\ items[k.id].live
        /\ WriteItem(k.id, UpdateMediaItemPlacement(items[k.id], k.path))
        /\ EndCall(c)
     \/ /\ PathIndexRefuses(k.id, k.path) \/ ~items[k.id].live
        /\ IF k.op = "adopt" /\ k.source # "" THEN CallGoes(c, "undo") ELSE EndCall(c)
        /\ UNCHANGED items
  /\ UNCHANGED <<copies, revision, libraryCalls, identityIndex>>

(* ---- adoption of a folder on disk ---- *)

adoptOne(c) ==
  \E folder \in Folders, ids \in AddRequests, force \in BOOLEAN :
    /\ ~folderHeld(folder, 0)
    /\ StartCall(c, [NoCall EXCEPT !.op = "adopt", !.pc = "check", !.req = ids, !.root = 1,
                             !.folder = folder, !.force = force])

\* The title is in the library already: point that item at the folder, unless
\* it points at another folder that exists.
relinkExisting(c) ==
  LET k == libraryCall[c]
      found == IF k.req["tmdb"] # 0 THEN GetMediaItemByKindTmdb(k.req["tmdb"])
               ELSE GetMediaItemByKindTvdb(k.req["tvdb"])
  IN /\ k.pc = "relink"
     /\ \/ /\ found = {}
           /\ EndCall(c)
        \/ \E i \in found :
             IF \/ items[i].path = k.folder
                \/ items[i].path # NoPath /\ ~k.force /\ items[i].path \in Folders
               THEN EndCall(c)
               ELSE libraryCall' = [libraryCall EXCEPT ![c] =
                      [@ EXCEPT !.pc = "read", !.id = i, !.root = 1, !.path = k.folder, !.source = ""]]
     /\ UNCHANGED <<items, copies, revision, libraryCalls, identityIndex>>

\* The copies go with their item.
ListMediaCopies(i) == {cp \in copies : cp[1] = i}

DeleteMediaItem(i) ==
  /\ items' = [items EXCEPT ![i] = NoRow]
  /\ copies' = copies \ ListMediaCopies(i)

DeleteRow(i) == DeleteMediaItem(i) /\ BumpIdentityRevision

adoptUndo(c) ==
  /\ libraryCall[c].pc = "undo"
  /\ DeleteRow(libraryCall[c].id)
  /\ EndCall(c)
  /\ UNCHANGED <<libraryCalls, identityIndex>>

(* ---- Delete, copies ---- *)

Delete(c) ==
  \E i \in LiveItems :
    /\ libraryCall[c] = NoCall
    /\ libraryCalls < MaxLibraryCalls
    /\ libraryCalls' = libraryCalls + 1
    /\ DeleteRow(i)
    /\ UNCHANGED <<libraryCall, identityIndex>>

\* A copy in another root, in a folder of its own.
AddCopy(c) ==
  \E i \in LiveItems, root \in {1, 2} :
    StartCall(c, [NoCall EXCEPT !.op = "copy", !.pc = "folder", !.id = i, !.root = root, !.seen = items[i]])

AddCopyFolder(c) ==
  LET k == libraryCall[c]
      path == freeFolder(k.root, k.seen.title, k.seen.ids, k.id)
  IN /\ k.pc = "folder"
     /\ IF path = k.seen.path \/ <<k.id, path>> \in ListMediaCopies(k.id)
          THEN EndCall(c)
          ELSE libraryCall' = [libraryCall EXCEPT ![c] = [@ EXCEPT !.pc = "ensure", !.path = path]]
     /\ UNCHANGED <<items, copies, revision, libraryCalls, identityIndex>>

AddCopyEnsure(c) ==
  /\ libraryCall[c].pc = "ensure"
  /\ IF folderHeld(libraryCall[c].path, libraryCall[c].id) THEN EndCall(c) ELSE CallGoes(c, "insert")
  /\ UNCHANGED <<items, copies, revision, libraryCalls, identityIndex>>

\* The insert has no unique index to refuse it; the foreign key refuses a
\* copy of an item that is gone.
InsertMediaCopy(i, path) == copies' = IF items[i].live THEN copies \cup {<<i, path>>} ELSE copies

AddMediaCopy(c) ==
  /\ libraryCall[c].pc = "insert"
  /\ InsertMediaCopy(libraryCall[c].id, libraryCall[c].path)
  /\ EndCall(c)
  /\ UNCHANGED <<items, revision, libraryCalls, identityIndex>>

DeleteMediaCopy(cp) == copies' = copies \ {cp}

DeleteCopy(c) ==
  \E cp \in copies :
    /\ libraryCall[c] = NoCall
    /\ libraryCalls < MaxLibraryCalls
    /\ libraryCalls' = libraryCalls + 1
    /\ DeleteMediaCopy(cp)
    /\ UNCHANGED <<items, revision, libraryCall, identityIndex>>

(* ---- provider refreshes ---- *)

RefreshItem(c) ==
  \E i \in LiveItems :
    /\ items[i].source # "manual"
    /\ StartCall(c, [NoCall EXCEPT !.op = "refresh", !.pc = "refresh", !.id = i, !.seen = items[i]])

MergedIds(c, fresh) == Enrich(items[libraryCall[c].id].ids, fresh)

\* mergeExternalIDs and the claim check of the transaction.
MergeAllowed(c, fresh) ==
  /\ ~Contradicts(items[libraryCall[c].id].ids, fresh)
  /\ Claimants(MergedIds(c, fresh)) \subseteq {libraryCall[c].id}

\* Another title than the stored one is remembered as a historical alias.
RefreshMediaItemMetadata(c) ==
  LET k == libraryCall[c] IN
  /\ k.pc = "refresh"
  /\ \E answer \in Answers(k.seen.source, k.seen.ids[k.seen.source]),
       title \in {TitleOf[k.seen.ids[k.seen.source]], "renamed"} :
       LET fresh == [s \in Spaces |-> IF answer[s] = 0 /\ s = "tvdb" THEN k.seen.ids[s] ELSE answer[s]]
       IN IF items[k.id].live /\ MergeAllowed(c, fresh)
            THEN /\ LET known == IF title = items[k.id].title THEN items[k.id]
                                 ELSE InsertMediaAlias(items[k.id], "historical")
                    IN WriteItem(k.id, UpdateMediaExternalIDs(UpdateMediaItemMetadata(known, title), MergedIds(c, fresh)))
                 /\ BumpIdentityRevision
            ELSE UNCHANGED <<items, revision>>
  /\ EndCall(c)
  /\ UNCHANGED <<copies, libraryCalls, identityIndex>>

\* The identity job: aliases of the provider replaced, or the failure kept.
\* Manual and historical aliases survive.
RefreshIdentity(c) ==
  \E i \in LiveItems :
    /\ items[i].source # "manual"
    /\ StartCall(c, [NoCall EXCEPT !.op = "identity", !.pc = "identity", !.id = i])

ReplaceIdentitySnapshot(i) ==
  LET kept == DeleteReplaceableProviderAliases(items[i]) IN
  /\ \E row \in {kept, InsertMediaAlias(kept, "provider")} : WriteItem(i, UpsertIdentitySource(row, "complete"))
  /\ BumpIdentityRevision

\* The last complete snapshot stays; the failure is recorded beside it.
RecordIdentityFailure(i) ==
  /\ WriteItem(i, UpsertIdentitySource(items[i], "failed"))
  /\ BumpIdentityRevision

IdentityAnswered(c) ==
  LET i == libraryCall[c].id IN
  /\ libraryCall[c].pc = "identity"
  /\ \/ items[i].live /\ ReplaceIdentitySnapshot(i)
     \/ items[i].live /\ RecordIdentityFailure(i)
     \/ ~items[i].live /\ UNCHANGED <<items, revision>>
  /\ EndCall(c)
  /\ UNCHANGED <<copies, libraryCalls, identityIndex>>

ManualAlias(c) ==
  \E i \in LiveItems :
    /\ libraryCall[c] = NoCall
    /\ libraryCalls < MaxLibraryCalls
    /\ libraryCalls' = libraryCalls + 1
    /\ WriteItem(i, IF "manual" \in items[i].aliases THEN DeleteManualAlias(items[i])
                    ELSE InsertMediaAlias(items[i], "manual"))
    /\ BumpIdentityRevision
    /\ UNCHANGED <<copies, libraryCall, identityIndex>>

\* The caller's request is cancelled: every later database call fails.
CallCancelled(c) ==
  /\ libraryCall[c] # NoCall
  /\ EndCall(c)
  /\ UNCHANGED <<items, copies, revision, libraryCalls, identityIndex>>

----------------------------------------------------------------------------
(* The identity index of the release matcher, under its mutex: the revision *)
(* is read, the rows, then the aliases and sources, and the revision again. *)

IndexIdentity(row) == [live |-> row.live, ids |-> row.ids, title |-> row.title,
                  aliases |-> row.aliases, fetched |-> row.fetched]

NoIdentity == [i \in ItemIds |-> IndexIdentity(NoRow)]
IdentityNow == [i \in ItemIds |-> IndexIdentity(items[i])]

IndexStart ==
  /\ identityIndex.pc = "idle"
  /\ ~(identityIndex.built /\ identityIndex.revision = revision)
  /\ identityIndex' = [identityIndex EXCEPT !.pc = "rows", !.at = revision, !.gave = FALSE]
  /\ UNCHANGED <<items, copies, revision, libraryCall, libraryCalls>>

MediaItemRows == [i \in ItemIds |-> [IndexIdentity(items[i]) EXCEPT !.aliases = {}, !.fetched = "none"]]

\* ListMediaItems: the rows of media_items.
ListMediaItems ==
  /\ identityIndex.pc = "rows"
  /\ identityIndex' = [identityIndex EXCEPT !.pc = "aliases", !.draft = MediaItemRows]
  /\ UNCHANGED <<items, copies, revision, libraryCall, libraryCalls>>

ListAllMediaAliases == [i \in ItemIds |-> items[i].aliases]
ListAllIdentitySources == [i \in ItemIds |-> items[i].fetched]

\* loadAllIdentity: aliases and sources of the rows that were read.
loadAllIdentity ==
  /\ identityIndex.pc = "aliases"
  /\ identityIndex' = [identityIndex EXCEPT !.pc = "confirm",
       !.draft = [i \in ItemIds |->
         IF identityIndex.draft[i].live
           THEN [identityIndex.draft[i] EXCEPT !.aliases = ListAllMediaAliases[i], !.fetched = ListAllIdentitySources[i]]
           ELSE identityIndex.draft[i]]]
  /\ UNCHANGED <<items, copies, revision, libraryCall, libraryCalls>>

\* Mutant: what was read is taken as one state of the library.
UnconfirmedDraft == TRUE

DraftConfirmed == revision = identityIndex.at

\* A second attempt starts over; a second failure leaves the cache alone.
allIdentity ==
  /\ identityIndex.pc = "confirm"
  /\ identityIndex' = IF DraftConfirmed
       THEN [identityIndex EXCEPT !.pc = "idle", !.built = TRUE, !.gave = TRUE,
                           !.revision = identityIndex.at, !.works = identityIndex.draft]
       ELSE [identityIndex EXCEPT !.pc = "idle"]
  /\ UNCHANGED <<items, copies, revision, libraryCall, libraryCalls>>

----------------------------------------------------------------------------
LibraryInit ==
  /\ \E stock \in Stocked :
       items = [i \in ItemIds |-> IF i > Len(stock) THEN NoRow ELSE
         LET source == IF stock[i]["tmdb"] # 0 THEN "tmdb" ELSE "tvdb"
         IN [NoRow EXCEPT !.live = TRUE, !.ids = stock[i], !.source = source,
                          !.title = TitleOf[stock[i][source]]]]
  /\ copies = {}
  /\ revision = 0
  /\ libraryCall = [c \in Callers |-> NoCall]
  /\ libraryCalls = 0
  /\ identityIndex = [pc |-> "idle", built |-> FALSE, gave |-> FALSE, revision |-> 0, at |-> 0,
              draft |-> NoIdentity, works |-> NoIdentity]

CallStart(c) ==
  \/ Add(c) \/ AddManual(c) \/ UpdateItem(c) \/ adoptOne(c) \/ Delete(c)
  \/ AddCopy(c) \/ DeleteCopy(c) \/ RefreshItem(c) \/ RefreshIdentity(c) \/ ManualAlias(c)

CallStep(c) ==
  \/ AddCheck(c) \/ hydrateAdd(c) \/ AddPlace(c) \/ CreateMediaItem(c)
  \/ UpdateRead(c) \/ UpdateClaims(c) \/ UpdateMediaItemSettings(c)
  \/ relinkExisting(c) \/ adoptUndo(c)
  \/ AddCopyFolder(c) \/ AddCopyEnsure(c) \/ AddMediaCopy(c)
  \/ RefreshMediaItemMetadata(c) \/ IdentityAnswered(c)
  \/ CallCancelled(c)

LibraryNext ==
  \/ \E c \in Callers : CallStart(c) \/ CallStep(c)
  \/ IndexStart \/ ListMediaItems \/ loadAllIdentity \/ allIdentity

LibrarySpec == LibraryInit /\ [][LibraryNext]_libraryVars

----------------------------------------------------------------------------
\* Rows, calls and the index have the fields the code gives them.
LibraryTypeOK ==
  /\ \A i \in ItemIds : items[i].ids \in ExternalIDs /\ items[i].aliases \subseteq AliasRoles
  /\ \A cp \in copies : cp[1] \in LiveItems
  /\ revision \in Nat
  /\ identityIndex.revision <= revision

\* Two items never carry the same provider identity, although the TVDB ids
\* have no unique index and a request, a provider's answer and a refresh may
\* each be the first to say that two titles are one (checkCreateIdentity,
\* RefreshMediaItemMetadata).
OneItemPerIdentity ==
  \A i, j \in LiveItems : i # j => \A s \in Spaces : items[i].ids[s] = 0 \/ items[i].ids[s] # items[j].ids[s]

\* An index the matcher is handed, freshly built or cached under the current
\* revision, is the identity of the library at that moment: no write of ids,
\* titles, aliases or sources goes unnoticed, and no index is put together
\* from two states (allIdentity).
HandedOutIndexIsCurrent ==
  [][/\ identityIndex'.built /\ identityIndex'.revision = revision' => identityIndex'.works = IdentityNow'
     /\ identityIndex.pc = "confirm" /\ identityIndex'.gave => identityIndex'.works = IdentityNow']_libraryVars

=============================================================================
