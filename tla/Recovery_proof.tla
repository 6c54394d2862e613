---------------------------- MODULE Recovery_proof ----------------------------
(***************************************************************************)
(* Proofs about Recovery, for any set of staged files, any number of       *)
(* publications and of troubles.                                           *)
(*                                                                         *)
(* The argument: the title's lock keeps a queueing request out of a run    *)
(* that places files (Locking), so that nothing but the run itself moves a *)
(* row on towards its receipt (Running) and a late save finds the row      *)
(* where it may be overwritten (Saving).  The Runner never leaves a final  *)
(* state except for a new generation, which the row does not match, and a  *)
(* receipt given up on can only be received while the row still waits for  *)
(* it (Receipting).  An edit of the title leaves the accepted revision     *)
(* behind for good, so that what the preview showed is still there where   *)
(* a publication replaces anything (Reviewing).                            *)
(***************************************************************************)
EXTENDS Recovery, TLAPS

Matches(state) == IdentityMatches => remote.state = state

Locking ==
    /\ sweep.pc \in Placing \cup {"down", "rolling"} => titleLock = "sweep"
    /\ queuer.pc # "idle" => titleLock = "queuer"

\* A run, until it has settled without an error, has a row that is neither
\* receipted nor cancelled.
Running ==
    /\ sweep.pc \notin {"down", "idle"} /\ (sweep.pc = "settle" => sweep.err) =>
         rec.state \notin {"receipt_pending", "imported", "cancelled"}
    /\ rec.state = "none" => sweep.pc \in {"down", "idle"} /\ courier = "idle"
    /\ sweep.err => sweep.pc = "settle"

\* The row a queueing request is about to overwrite.
Saving ==
    queuer.pc = "save" =>
        /\ rec.state \in {"review", "cancel_pending", "cancelled"}
        /\ queuer.read.state = "queued" /\ queuer.read.gen = rec.gen

\* The generations seen here were published.
Generations ==
    /\ rec.gen <= remote.gen /\ offer.gen <= remote.gen
    /\ queuer.want.gen <= remote.gen

\* A receipt that may still arrive finds its row waiting, or is refused.
Receipting ==
    /\ "receipt" \in wire =>
         rec.state \in {"receipt_pending", "imported"} \/ remote.state \in {"cancel_pending", "cancelled"}
    /\ courier = "accepted" => Matches("imported")
    /\ rec.state \in {"receipt_pending", "imported"} => AllCommitted
    /\ outbox = "delivered" <=> rec.state = "imported"

\* A cancellation that is about to be finished was answered, with nothing left
\* to roll back.
Cancelling ==
    /\ sweep.pc \in {"cancel", "cancel-ack", "finish"} => PreparedFiles = {}
    /\ sweep.pc = "finish" => Matches("cancelled")
    /\ sweep.pc \in {"rollback", "rolling"} /\ sweep.saw => Matches("cancelled")

\* The bytes a rollback would put back are not the staged ones.
Journal ==
    /\ sweep.pc \in {"publish", "commit"} =>
         sweep.file \in StagedFiles /\ place[sweep.file].state \in {"prepared", "committed"}
    /\ \A f \in StagedFiles :
         /\ place[f].state \in {"none", "rolled_back"} => onDisk[f] # "new"
         /\ place[f].state = "prepared" => place[f].prev # "new"

RecoveryInv ==
    /\ RecoveryTypeOK
    /\ Locking /\ Running /\ Saving /\ Generations /\ Receipting /\ Cancelling /\ Journal
    /\ EndsAgree

----------------------------------------------------------------------------
(* The calls *)

Records == [state : RunnerStates, owner : {"none", "us", "other"}, gen : Nat]

\* What a call may do at the Runner: a final state stays, a cancellation goes
\* on to its end, and only a receipt of ours makes a hand-off imported.
LEMMA RunnerAfterFacts ==
  ASSUME remote \in Records, NEW call \in Calls
  PROVE  /\ RunnerAfter(call) \in Records
         /\ RunnerAfter(call).gen = remote.gen
         /\ remote.state \in {"cancelled", "imported"} => RunnerAfter(call) = remote
         /\ remote.state = "cancel_pending" => RunnerAfter(call).state \in {"cancel_pending", "cancelled"}
         /\ RunnerAfter(call).state = "imported" =>
              \/ RunnerAfter(call) = remote
              \/ call = "receipt" /\ remote.owner = "us" /\ remote.state = "claimed"
BY DEF RunnerAfter, Records, Calls, RunnerStates

\* A call from here has its effect or none, and one that is answered is over.
LEMMA CallFacts ==
  ASSUME RecoveryTypeOK, NEW call \in Calls, NEW ok \in BOOLEAN, Call(call, ok)
  PROVE  /\ remote' \in {remote, RunnerAfter(call)}
         /\ remote' \in Records /\ remote'.gen = remote.gen
         /\ wire' \subseteq Calls /\ troubles' \in 0 .. MaxTroubles
         /\ wire' \in {wire, wire \cup {call}}
         /\ ok => remote' = RunnerAfter(call) /\ Answered(call) /\ wire' = wire
<1>1. remote \in Records /\ wire \subseteq Calls /\ troubles \in 0 .. MaxTroubles
  BY DEF RecoveryTypeOK, Records
<1>2. RunnerAfter(call) \in Records /\ RunnerAfter(call).gen = remote.gen
  BY <1>1, RunnerAfterFacts
<1>3. CASE ok
  BY <1>1, <1>2, <1>3 DEF Call
<1>4. CASE ~ok
  <2>1. remote' \in {remote, RunnerAfter(call)} /\ wire' \in {wire, wire \cup {call}}
    BY <1>4 DEF Call
  <2>2. troubles' = troubles \/ (troubles < MaxTroubles /\ troubles' = troubles + 1)
    BY <1>4 DEF Call, Trouble
  <2>3. troubles' \in 0 .. MaxTroubles
    BY <1>1, <2>2, RecoveryAssumption
  <2> QED
    BY <1>1, <1>2, <1>4, <2>1, <2>3
<1> QED
  BY <1>3, <1>4
----------------------------------------------------------------------------
(* Types *)

Trees == [StagedFiles -> BytesAt]
Shelves == [StagedFiles -> Seen]
Snapshots == [lease : Nat, onDisk : Shelves]
Offers == [state : {"none", "running", "ready", "failed"}, seen : Snapshots, gen : Nat]
Rows == [state : LocalStates, accepted : Nat, snap : Shelves, gen : Nat, claimed : BOOLEAN]
Entries == [state : {"none", "prepared", "committed", "rolled_back"}, prev : BytesAt, published : BOOLEAN]
Journals == [StagedFiles -> Entries]
Sweeps == [pc : SweepSteps, stop : BOOLEAN, err : BOOLEAN, failed : BOOLEAN, saw : BOOLEAN,
           tried : SUBSET StagedFiles, file : StagedFiles \cup {0}]
Queuers == [pc : {"idle", "insert", "save"}, want : Offers, read : Rows]
Holders == {"free", "sweep", "queuer", "other"}

Typed ==
    /\ offer \in Offers /\ rec \in Rows /\ outbox \in {"none", "pending", "delivered"}
    /\ place \in Journals /\ onDisk \in Trees /\ recorded \subseteq StagedFiles
    /\ lease \in Nat /\ titleLock \in Holders
    /\ sweep \in Sweeps /\ courier \in {"idle", "accepted", "refused"} /\ queuer \in Queuers
    /\ remote \in Records /\ wire \subseteq Calls /\ troubles \in 0 .. MaxTroubles

LEMMA TypedIsTypeOK == Typed <=> RecoveryTypeOK
BY DEF Typed, RecoveryTypeOK, Trees, Shelves, Snapshots, Offers, Rows, Entries, Journals, Sweeps, Queuers, Holders, Records

\* What a write to a field of the row, of the sweep and of an entry gives.
LEMMA RowWrites ==
  ASSUME NEW r \in Rows, NEW state \in LocalStates
  PROVE  /\ [r EXCEPT !.state = state] \in Rows
         /\ [r EXCEPT !.state = state].state = state
         /\ [r EXCEPT !.state = state].gen = r.gen
         /\ [r EXCEPT !.state = state].accepted = r.accepted
         /\ [r EXCEPT !.state = state].snap = r.snap
         /\ [r EXCEPT !.state = state].claimed = r.claimed
BY DEF Rows

LEMMA RowAccepts ==
  ASSUME NEW r \in Rows, NEW revision \in Nat
  PROVE  /\ [r EXCEPT !.accepted = revision] \in Rows
         /\ [r EXCEPT !.accepted = revision].state = r.state
         /\ [r EXCEPT !.accepted = revision].gen = r.gen
         /\ [r EXCEPT !.accepted = revision].accepted = revision
         /\ [r EXCEPT !.claimed = TRUE] \in Rows
         /\ [r EXCEPT !.claimed = TRUE].state = r.state
         /\ [r EXCEPT !.claimed = TRUE].gen = r.gen
         /\ [r EXCEPT !.claimed = TRUE].accepted = r.accepted
BY DEF Rows

\* What is written where nothing was read, seen or asked for.
LEMMA Blanks ==
  ASSUME onDisk \in Trees
  PROVE
  /\ Shelf \in Shelves /\ Nothing \in Shelves
  /\ NoRow \in Rows /\ NoRow.state = "none" /\ NoRow.gen = 0 /\ NoRow.accepted = 0
  /\ NoPreview \in Offers /\ NoPreview.gen = 0
  /\ NoRequest \in Queuers /\ NoRequest.pc = "idle" /\ NoRequest.want.gen = 0 /\ NoRequest.read.accepted = 0
<1>1. Shelf \in Shelves /\ Nothing \in Shelves
  BY DEF Shelf, Nothing, Shelves, Seen, Trees
<1>2. NoRow \in Rows /\ NoRow.state = "none" /\ NoRow.gen = 0 /\ NoRow.accepted = 0
  BY <1>1 DEF NoRow, Rows, LocalStates
<1>3. NoPreview \in Offers /\ NoPreview.gen = 0
  BY <1>1 DEF NoPreview, Offers, Snapshots
<1> QED
  BY <1>1, <1>2, <1>3 DEF NoRequest, Queuers

LEMMA OfferWrites ==
  ASSUME NEW o \in Offers, NEW state \in {"none", "running", "ready", "failed"}
  PROVE  [o EXCEPT !.state = state] \in Offers /\ [o EXCEPT !.state = state].gen = o.gen
BY DEF Offers

LEMMA AcceptedRow ==
  ASSUME NEW r \in Rows, lease \in Nat, NEW g \in Nat, Shelf \in Shelves
  PROVE  /\ Accepted(r) \in Rows /\ Accepted(r).state = "queued" /\ Accepted(r).gen = r.gen
         /\ Accepted(r).accepted = lease /\ [Accepted(r) EXCEPT !.gen = g].accepted = lease
         /\ [Accepted(r) EXCEPT !.gen = g] \in Rows
         /\ [Accepted(r) EXCEPT !.gen = g].state = "queued"
         /\ [Accepted(r) EXCEPT !.gen = g].gen = g
<1> DEFINE queued == "queued"
           shelf == Shelf
<1>1. queued \in LocalStates /\ shelf \in Shelves
  BY DEF LocalStates
<1> HIDE DEF queued, shelf
<1>2. /\ [r EXCEPT !.state = queued, !.accepted = lease, !.snap = shelf] \in Rows
      /\ [r EXCEPT !.state = queued, !.accepted = lease, !.snap = shelf].state = queued
      /\ [r EXCEPT !.state = queued, !.accepted = lease, !.snap = shelf].gen = r.gen
      /\ [r EXCEPT !.state = queued, !.accepted = lease, !.snap = shelf].accepted = lease
  BY <1>1 DEF Rows
<1>3. Accepted(r) \in Rows /\ Accepted(r).state = "queued" /\ Accepted(r).gen = r.gen /\ Accepted(r).accepted = lease
  BY <1>2 DEF Accepted, queued, shelf
<1>4. /\ [Accepted(r) EXCEPT !.gen = g] \in Rows
      /\ [Accepted(r) EXCEPT !.gen = g].state = Accepted(r).state
      /\ [Accepted(r) EXCEPT !.gen = g].gen = g
      /\ [Accepted(r) EXCEPT !.gen = g].accepted = Accepted(r).accepted
  BY <1>3 DEF Rows
<1> QED
  BY <1>3, <1>4

LEMMA SweepGoes ==
  ASSUME NEW s \in Sweeps, NEW pc \in SweepSteps
  PROVE  /\ [s EXCEPT !.pc = pc] \in Sweeps
         /\ [s EXCEPT !.pc = pc].pc = pc
         /\ [s EXCEPT !.pc = pc].saw = s.saw
         /\ [s EXCEPT !.pc = pc].err = s.err
         /\ [s EXCEPT !.pc = pc].file = s.file
         /\ [s EXCEPT !.pc = pc].stop = s.stop
         /\ [s EXCEPT !.pc = pc].tried = s.tried
         /\ [s EXCEPT !.pc = pc].failed = s.failed
BY DEF Sweeps

LEMMA SweepStops ==
  ASSUME sweep \in Sweeps, NEW b \in BOOLEAN
  PROVE  /\ [sweep EXCEPT !.stop = b] \in Sweeps
         /\ [sweep EXCEPT !.stop = b].pc = sweep.pc
         /\ [sweep EXCEPT !.stop = b].saw = sweep.saw
         /\ [sweep EXCEPT !.stop = b].err = sweep.err
         /\ [sweep EXCEPT !.stop = b].file = sweep.file
BY DEF Sweeps

LEMMA RestingSweep ==
  ASSUME NEW pc \in SweepSteps
  PROVE  /\ Resting \in Sweeps /\ Resting.pc = "idle" /\ ~Resting.err /\ ~Resting.saw
         /\ [Resting EXCEPT !.pc = pc] \in Sweeps
         /\ [Resting EXCEPT !.pc = pc].pc = pc
         /\ ~[Resting EXCEPT !.pc = pc].err
<1>1. Resting \in Sweeps /\ Resting.pc = "idle" /\ ~Resting.err /\ ~Resting.saw
  BY DEF Resting, Sweeps, SweepSteps
<1> QED
  BY <1>1, SweepGoes

LEMMA Steps == \A pc \in {"down", "idle", "start", "lock", "settle", "save", "ack", "rollback", "rolling", "keep", "cancel",
                            "cancel-ack", "finish", "validate", "claim", "record", "files", "publish",
                            "commit", "verify", "receipt"} : pc \in SweepSteps
BY DEF SweepSteps, Placing

LEMMA SweepGo ==
  ASSUME sweep \in Sweeps, NEW pc \in SweepSteps, Go(pc)
  PROVE  /\ sweep' \in Sweeps /\ sweep'.pc = pc /\ sweep'.err = sweep.err
         /\ sweep'.saw = sweep.saw /\ sweep'.file = sweep.file
BY SweepGoes DEF Go

LEMMA SweepGivesUp ==
  ASSUME sweep \in Sweeps, GiveUp
  PROVE  sweep' \in Sweeps /\ sweep'.pc = "settle" /\ sweep'.err
<1> DEFINE settle == "settle"
<1>1. settle \in SweepSteps
  BY DEF SweepSteps
<1> HIDE DEF settle
<1>2. /\ [sweep EXCEPT !.pc = settle, !.err = TRUE] \in Sweeps
      /\ [sweep EXCEPT !.pc = settle, !.err = TRUE].pc = settle
      /\ [sweep EXCEPT !.pc = settle, !.err = TRUE].err
  BY <1>1 DEF Sweeps
<1> QED
  BY <1>2 DEF GiveUp, settle

LEMMA SweepFiles ==
  ASSUME sweep \in Sweeps, NEW f \in StagedFiles, NEW failed \in BOOLEAN, FileDone(f, failed)
  PROVE  sweep' \in Sweeps /\ sweep'.pc = "files" /\ sweep'.err = sweep.err
<1> DEFINE files == "files"
           done == sweep.tried \cup {f}
           bad == sweep.failed \/ failed
<1>1. files \in SweepSteps /\ done \in SUBSET StagedFiles /\ bad \in BOOLEAN
  BY DEF SweepSteps, Placing, Sweeps
<1>2. sweep' = [sweep EXCEPT !.pc = files, !.tried = done, !.failed = bad]
  BY DEF FileDone
<1> HIDE DEF files, done, bad
<1>3. /\ [sweep EXCEPT !.pc = files, !.tried = done, !.failed = bad] \in Sweeps
      /\ [sweep EXCEPT !.pc = files, !.tried = done, !.failed = bad].pc = files
      /\ [sweep EXCEPT !.pc = files, !.tried = done, !.failed = bad].err = sweep.err
  BY <1>1 DEF Sweeps
<1> QED
  BY <1>2, <1>3 DEF files

LEMMA SweepTries ==
  ASSUME sweep \in Sweeps, NEW f \in StagedFiles, sweep' = [sweep EXCEPT !.tried = @ \cup {f}]
  PROVE  sweep' \in Sweeps /\ sweep'.pc = sweep.pc /\ sweep'.err = sweep.err
<1> DEFINE done == sweep.tried \cup {f}
<1>1. done \in SUBSET StagedFiles
  BY DEF Sweeps
<1> HIDE DEF done
<1>2. /\ [sweep EXCEPT !.tried = done] \in Sweeps
      /\ [sweep EXCEPT !.tried = done].pc = sweep.pc
      /\ [sweep EXCEPT !.tried = done].err = sweep.err
  BY <1>1 DEF Sweeps
<1> QED
  BY <1>2 DEF done

LEMMA SweepPublishes ==
  ASSUME sweep \in Sweeps, NEW f \in StagedFiles, sweep' = [sweep EXCEPT !.pc = "publish", !.file = f]
  PROVE  sweep' \in Sweeps /\ sweep'.pc = "publish" /\ sweep'.file = f /\ sweep'.err = sweep.err
<1> DEFINE publish == "publish"
<1>1. publish \in SweepSteps
  BY DEF SweepSteps, Placing
<1> HIDE DEF publish
<1>2. /\ [sweep EXCEPT !.pc = publish, !.file = f] \in Sweeps
      /\ [sweep EXCEPT !.pc = publish, !.file = f].pc = publish
      /\ [sweep EXCEPT !.pc = publish, !.file = f].file = f
      /\ [sweep EXCEPT !.pc = publish, !.file = f].err = sweep.err
  BY <1>1 DEF Sweeps
<1> QED
  BY <1>2 DEF publish

LEMMA SweepSees ==
  ASSUME sweep \in Sweeps, NEW saw \in BOOLEAN, sweep' = [sweep EXCEPT !.pc = "rollback", !.saw = saw]
  PROVE  sweep' \in Sweeps /\ sweep'.pc = "rollback" /\ sweep'.saw = saw /\ sweep'.err = sweep.err
<1> DEFINE rollback == "rollback"
<1>1. rollback \in SweepSteps
  BY DEF SweepSteps
<1> HIDE DEF rollback
<1>2. /\ [sweep EXCEPT !.pc = rollback, !.saw = saw] \in Sweeps
      /\ [sweep EXCEPT !.pc = rollback, !.saw = saw].pc = rollback
      /\ [sweep EXCEPT !.pc = rollback, !.saw = saw].saw = saw
      /\ [sweep EXCEPT !.pc = rollback, !.saw = saw].err = sweep.err
  BY <1>1 DEF Sweeps
<1> QED
  BY <1>2 DEF rollback

\* The writes to the journal and to the disk.
LEMMA EntryPublished ==
  ASSUME place \in Journals, NEW f \in StagedFiles, place' = [place EXCEPT ![f].published = TRUE]
  PROVE  /\ place' \in Journals
         /\ \A g \in StagedFiles : place'[g].state = place[g].state /\ place'[g].prev = place[g].prev
         /\ place'[f].published
         /\ \A g \in StagedFiles \ {f} : place'[g] = place[g]
<1> DEFINE done == TRUE
           entry == [place[f] EXCEPT !.published = done]
<1>1. place[f] \in Entries /\ done \in BOOLEAN
  BY DEF Journals
<1> HIDE DEF done
<1>2. entry \in Entries /\ entry.state = place[f].state /\ entry.prev = place[f].prev /\ entry.published = done
  BY <1>1 DEF Entries
<1> HIDE DEF entry
<1>3. /\ [place EXCEPT ![f] = entry] \in Journals
      /\ [place EXCEPT ![f] = entry][f] = entry
      /\ \A g \in StagedFiles \ {f} : [place EXCEPT ![f] = entry][g] = place[g]
  BY <1>2 DEF Journals
<1> QED
  BY <1>2, <1>3 DEF entry, done

LEMMA EntryPrepared ==
  ASSUME place \in Journals, NEW f \in StagedFiles, NEW prev \in BytesAt,
         place' = [place EXCEPT ![f] = [state |-> "prepared", prev |-> prev, published |-> FALSE]]
  PROVE  /\ place' \in Journals
         /\ place'[f].state = "prepared" /\ place'[f].prev = prev
         /\ \A g \in StagedFiles \ {f} : place'[g] = place[g]
<1> DEFINE entry == [state |-> "prepared", prev |-> prev, published |-> FALSE]
<1>1. entry \in Entries /\ entry.state = "prepared" /\ entry.prev = prev
  BY DEF Entries
<1> HIDE DEF entry
<1>2. /\ [place EXCEPT ![f] = entry] \in Journals
      /\ [place EXCEPT ![f] = entry][f] = entry
      /\ \A g \in StagedFiles \ {f} : [place EXCEPT ![f] = entry][g] = place[g]
  BY <1>1 DEF Journals
<1> QED
  BY <1>1, <1>2 DEF entry

LEMMA EntryWrites ==
  ASSUME place \in Journals, NEW f \in StagedFiles, NEW state \in {"committed", "rolled_back"},
         place' = [place EXCEPT ![f].state = state]
  PROVE  /\ place' \in Journals
         /\ place'[f].state = state /\ place'[f].prev = place[f].prev
         /\ place'[f].published = place[f].published
         /\ \A g \in StagedFiles \ {f} : place'[g] = place[g]
<1> DEFINE entry == [place[f] EXCEPT !.state = state]
           ended == [place EXCEPT ![f] = entry]
<1>1. place[f] \in Entries
  BY DEF Journals
<1>2. entry \in Entries /\ entry.state = state /\ entry.prev = place[f].prev /\ entry.published = place[f].published
  BY <1>1 DEF Entries
<1> HIDE DEF entry
<1>3. ended \in Journals /\ ended[f] = entry /\ \A g \in StagedFiles \ {f} : ended[g] = place[g]
  BY <1>2 DEF Journals
<1> QED
  BY <1>2, <1>3 DEF entry

LEMMA DiskWrites ==
  ASSUME onDisk \in Trees, NEW f \in StagedFiles, NEW b \in BytesAt, onDisk' = [onDisk EXCEPT ![f] = b]
  PROVE  /\ onDisk' \in Trees /\ onDisk'[f] = b
         /\ \A g \in StagedFiles \ {f} : onDisk'[g] = onDisk[g]
BY DEF Trees

LEMMA RollBackFacts ==
  ASSUME Typed, NEW f \in PreparedFiles, RollBack(f)
  PROVE  /\ f \in StagedFiles /\ place[f].state = "prepared" /\ place' \in Journals /\ onDisk' \in Trees
         /\ place'[f].state = "rolled_back" /\ onDisk'[f] = place[f].prev
         /\ \A g \in StagedFiles \ {f} : place'[g] = place[g] /\ onDisk'[g] = onDisk[g]
<1>1. /\ f \in StagedFiles /\ place[f].state = "prepared"
      /\ place \in Journals /\ onDisk \in Trees
  BY DEF Typed, PreparedFiles
<1>2. place[f].prev \in BytesAt
  BY <1>1 DEF Journals, Entries
<1>3. /\ onDisk' \in Trees /\ onDisk'[f] = place[f].prev
      /\ \A g \in StagedFiles \ {f} : onDisk'[g] = onDisk[g]
  BY <1>1, <1>2, DiskWrites DEF RollBack
<1>4. /\ place' \in Journals /\ place'[f].state = "rolled_back"
      /\ \A g \in StagedFiles \ {f} : place'[g] = place[g]
  BY <1>1, EntryWrites DEF RollBack
<1> QED
  BY <1>1, <1>3, <1>4

\* What is left of a call that is not a receipt.
LEMMA QuietCall ==
  ASSUME Typed, NEW call \in Calls \ {"receipt"}, NEW ok \in BOOLEAN, Call(call, ok)
  PROVE  /\ remote' \in Records /\ remote'.gen = remote.gen
         /\ remote.state \in {"cancelled", "imported"} => remote' = remote
         /\ remote.state = "cancel_pending" => remote'.state \in {"cancel_pending", "cancelled"}
         /\ remote'.state = "imported" => remote' = remote
         /\ wire' \subseteq Calls /\ wire' \subseteq wire \cup {call} /\ troubles' \in 0 .. MaxTroubles
<1>1. remote \in Records /\ RecoveryTypeOK
  BY TypedIsTypeOK DEF Typed
<1>2. /\ remote' \in {remote, RunnerAfter(call)} /\ remote' \in Records /\ remote'.gen = remote.gen
      /\ wire' \subseteq Calls /\ troubles' \in 0 .. MaxTroubles /\ wire' \in {wire, wire \cup {call}}
  BY <1>1, CallFacts
<1>3. /\ remote.state \in {"cancelled", "imported"} => RunnerAfter(call) = remote
      /\ remote.state = "cancel_pending" => RunnerAfter(call).state \in {"cancel_pending", "cancelled"}
      /\ RunnerAfter(call).state = "imported" => RunnerAfter(call) = remote
  BY <1>1, RunnerAfterFacts
<1> QED
  BY <1>2, <1>3
----------------------------------------------------------------------------
(* Each step keeps the invariant *)

Safe == Locking /\ Running /\ Saving /\ Generations /\ Receipting /\ Cancelling /\ Journal /\ EndsAgree

LEMMA InvParts == RecoveryInv <=> Typed /\ Safe
BY TypedIsTypeOK DEF RecoveryInv, Safe

LEMMA InvPartsPrimed == RecoveryInv' <=> Typed' /\ Safe'
BY InvParts, PTL

\* A cancellation is written before the run is told.
LEMMA CancelKeeps == ASSUME RecoveryInv, CancelRecoveryImport PROVE RecoveryInv'
<1>0. Typed /\ Safe
  BY InvParts
<1> SUFFICES Typed' /\ Safe'
  BY InvPartsPrimed
<1>1. CASE CancelRecoveryImport
  <2>1. /\ rec.state \in {"queued", "importing", "review"}
        /\ rec' \in Rows /\ rec'.state = "cancel_pending" /\ rec'.gen = rec.gen
        /\ sweep' \in Sweeps /\ sweep'.pc = sweep.pc /\ sweep'.err = sweep.err
        /\ sweep'.saw = sweep.saw /\ sweep'.file = sweep.file
        /\ UNCHANGED <<offer, outbox, place, onDisk, recorded, lease, titleLock, courier, queuer, remote, wire, troubles>>
    <3> DEFINE b == sweep.pc \in {"start", "lock"} \cup Placing
    <3>1. b \in BOOLEAN /\ sweep' = [sweep EXCEPT !.stop = b]
      BY <1>1 DEF CancelRecoveryImport
    <3> HIDE DEF b
    <3>2. rec \in Rows /\ sweep \in Sweeps /\ "cancel_pending" \in LocalStates
      BY <1>0 DEF Typed, LocalStates
    <3> QED
      BY <1>1, <3>1, <3>2, RowWrites, SweepStops DEF CancelRecoveryImport
  <2>2. Typed'
    BY <1>0, <2>1 DEF Typed, Holders
  <2>3. Locking'
    BY <1>0, <2>1 DEF Safe, Locking, Placing
  <2>4. Running'
    BY <1>0, <2>1 DEF Safe, Running
  <2>5. Saving'
    BY <1>0, <2>1 DEF Safe, Saving
  <2>6. Generations'
    BY <1>0, <2>1 DEF Safe, Generations, Matches, IdentityMatches
  <2>7. Receipting'
    BY <1>0, <2>1 DEF Safe, Receipting, Matches, IdentityMatches, AllCommitted
  <2>8. Cancelling'
    BY <1>0, <2>1 DEF Safe, Cancelling, Matches, IdentityMatches, PreparedFiles
  <2>9. Journal'
    BY <1>0, <2>1 DEF Safe, Journal
  <2>10. EndsAgree'
    BY <1>0, <2>1 DEF Safe, EndsAgree, AllCommitted, IdentityMatches, PreparedFiles
  <2> QED
    BY <2>2, <2>3, <2>4, <2>5, <2>6, <2>7, <2>8, <2>9, <2>10 DEF Safe
<1> QED
  BY <1>1 DEF CancelRecoveryImport

\* A request: a preview, an acceptance, a cancellation.
LEMMA RequestStepKeeps == ASSUME RecoveryInv, RequestStep PROVE RecoveryInv'
<1>0. Typed /\ Safe
  BY InvParts
<1> SUFFICES Typed' /\ Safe'
  BY InvPartsPrimed
<1>1. CASE StartRecoveryPreview
  <2>1. /\ offer' \in Offers /\ offer'.gen = 0
        /\ UNCHANGED <<rec, outbox, place, onDisk, recorded, lease, titleLock, sweep, courier, queuer, remote, wire, troubles>>
    BY <1>0, <1>1, Blanks, OfferWrites DEF Typed, StartRecoveryPreview
  <2>2. Typed'
    BY <1>0, <2>1 DEF Typed, Holders
  <2>3. Locking' /\ Running' /\ Saving' /\ Receipting' /\ Cancelling' /\ Journal' /\ EndsAgree'
    BY <1>0, <2>1 DEF Safe, Locking, Placing, Running, Saving, Receipting, Matches, IdentityMatches, AllCommitted, Cancelling, PreparedFiles, Journal, EndsAgree
  <2>4. Generations'
    BY <1>0, <2>1 DEF Safe, Generations, Typed, Records
  <2> QED
    BY <2>2, <2>3, <2>4 DEF Safe
<1>2. CASE RecoveryPreviewSweep
  <2>1. /\ offer' \in Offers /\ offer'.gen \in {0, remote.gen}
        /\ UNCHANGED <<rec, outbox, place, onDisk, recorded, lease, titleLock, sweep, courier, queuer, remote, wire, troubles>>
    <3>1. remote.gen \in Nat /\ lease \in Nat /\ onDisk \in Trees
      BY <1>0 DEF Typed, Records
    <3>2. CASE offer' = PreviewRecovery
      <4>1. Shelf \in Shelves
        BY <3>1, Blanks
      <4>2. PreviewRecovery \in Offers /\ PreviewRecovery.gen = remote.gen
        BY <3>1, <4>1 DEF PreviewRecovery, TargetSnapshot, Offers, Snapshots
      <4> QED
        BY <1>2, <3>2, <4>2 DEF RecoveryPreviewSweep
    <3>3. CASE offer' = [NoPreview EXCEPT !.state = "failed"]
      BY <1>2, <3>1, <3>3, Blanks, OfferWrites DEF RecoveryPreviewSweep
    <3> QED
      BY <1>2, <3>2, <3>3 DEF RecoveryPreviewSweep
  <2>2. Typed'
    BY <1>0, <2>1 DEF Typed, Holders
  <2>3. Locking' /\ Running' /\ Saving' /\ Receipting' /\ Cancelling' /\ Journal' /\ EndsAgree'
    BY <1>0, <2>1 DEF Safe, Locking, Placing, Running, Saving, Receipting, Matches, IdentityMatches, AllCommitted, Cancelling, PreparedFiles, Journal, EndsAgree
  <2>4. Generations'
    BY <1>0, <2>1 DEF Safe, Generations, Matches, IdentityMatches, Typed, Rows, Offers, Records
  <2> QED
    BY <2>2, <2>3, <2>4 DEF Safe
<1>3. CASE QueueLock
  <2>1. /\ titleLock = "free" /\ titleLock' = "queuer"
        /\ queuer' \in Queuers /\ queuer'.pc = "insert" /\ queuer'.want = offer
        /\ UNCHANGED <<offer, rec, outbox, place, onDisk, recorded, lease, sweep, courier, remote, wire, troubles>>
    <3> DEFINE insert == "insert"
    <3>1. queuer \in Queuers /\ offer \in Offers /\ insert \in {"idle", "insert", "save"}
      BY <1>0 DEF Typed
    <3>2. queuer' = [queuer EXCEPT !.pc = insert, !.want = offer]
      BY <1>3 DEF QueueLock
    <3> HIDE DEF insert
    <3>3. queuer' \in Queuers /\ queuer'.pc = insert /\ queuer'.want = offer
      BY <3>1, <3>2 DEF Queuers
    <3> QED
      BY <1>3, <3>3 DEF QueueLock, insert
  <2>2. Typed'
    BY <1>0, <2>1 DEF Typed, Holders
  <2>3. Running' /\ Generations' /\ Receipting' /\ Cancelling' /\ Journal' /\ EndsAgree'
    BY <1>0, <2>1 DEF Safe, Running, Generations, Matches, IdentityMatches, Receipting, AllCommitted, Cancelling, PreparedFiles, Journal, EndsAgree
  <2>4. Locking'
    BY <1>0, <2>1 DEF Safe, Locking, Placing
  <2>5. Saving'
    BY <1>0, <2>1 DEF Safe, Saving
  <2> QED
    BY <2>2, <2>3, <2>4, <2>5 DEF Safe
<1>4. CASE QueueInsert
  <2>1. /\ queuer.pc = "insert" /\ queuer' \in Queuers /\ rec' \in Rows
        /\ \/ queuer'.pc = "idle" /\ titleLock' = "free" /\ rec' = rec
           \/ /\ queuer'.pc = "idle" /\ titleLock' = "free" /\ rec.state = "none"
              /\ rec'.state = "queued" /\ rec'.gen = queuer.want.gen
           \/ /\ queuer'.pc = "save" /\ titleLock' = titleLock /\ rec' = rec /\ rec.state = "review"
              /\ queuer'.read.state = "queued" /\ queuer'.read.gen = rec.gen
        /\ queuer'.want.gen \in {0, queuer.want.gen}
        /\ UNCHANGED <<offer, outbox, place, onDisk, recorded, lease, sweep, courier, remote, wire, troubles>>
    <3>1. rec \in Rows /\ lease \in Nat /\ Shelf \in Shelves /\ queuer.want.gen \in Nat /\ queuer \in Queuers
      BY <1>0, Blanks DEF Typed, Queuers, Offers
    <3>2. /\ Accepted(rec) \in Rows /\ Accepted(rec).state = "queued" /\ Accepted(rec).gen = rec.gen
          /\ [Accepted(rec) EXCEPT !.gen = queuer.want.gen] \in Rows
          /\ [Accepted(rec) EXCEPT !.gen = queuer.want.gen].state = "queued"
          /\ [Accepted(rec) EXCEPT !.gen = queuer.want.gen].gen = queuer.want.gen
      BY <3>1, AcceptedRow
    <3>3. QueueDone => queuer' \in Queuers /\ queuer'.pc = "idle" /\ queuer'.want.gen = 0 /\ titleLock' = "free"
      BY <1>0, Blanks DEF Typed, QueueDone
    <3>4. CASE QueueDone /\ UNCHANGED rec
      BY <1>4, <3>1, <3>3, <3>4 DEF QueueInsert
    <3>5. CASE /\ QueueDone /\ rec.state = "none"
               /\ rec' = [Accepted(rec) EXCEPT !.gen = queuer.want.gen]
      BY <1>4, <3>1, <3>2, <3>3, <3>5 DEF QueueInsert
    <3>6. CASE /\ rec.state = "review" /\ UNCHANGED <<rec, titleLock>>
               /\ queuer' = [queuer EXCEPT !.pc = "save", !.read = Accepted(rec)]
      <4> DEFINE save == "save"
                 row == Accepted(rec)
      <4>1. save \in {"idle", "insert", "save"} /\ row \in Rows /\ queuer' = [queuer EXCEPT !.pc = save, !.read = row]
        BY <3>2, <3>6
      <4> HIDE DEF save, row
      <4>2. queuer' \in Queuers /\ queuer'.pc = save /\ queuer'.read = row /\ queuer'.want = queuer.want
        BY <3>1, <4>1 DEF Queuers
      <4> QED
        BY <1>4, <3>1, <3>2, <3>6, <4>2 DEF QueueInsert, save, row
    <3> QED
      BY <1>4, <3>4, <3>5, <3>6 DEF QueueInsert
  <2>2. Typed'
    BY <1>0, <2>1 DEF Typed, Holders
  <2>3. Journal'
    BY <1>0, <2>1 DEF Safe, Journal
  <2>4. Locking'
    BY <1>0, <2>1 DEF Safe, Locking, Placing
  <2>5. Running'
    BY <1>0, <2>1 DEF Safe, Running
  <2>6. Saving'
    BY <1>0, <2>1 DEF Safe, Saving
  <2>7. Generations'
    BY <1>0, <2>1 DEF Safe, Generations, Typed, Records
  <2>8. Receipting'
    BY <1>0, <2>1 DEF Safe, Receipting, Matches, IdentityMatches, AllCommitted, Running
  <2>9. Cancelling'
    BY <1>0, <2>1 DEF Safe, Cancelling, Matches, IdentityMatches, PreparedFiles, Running
  <2>10. EndsAgree'
    BY <1>0, <2>1 DEF Safe, EndsAgree, AllCommitted, IdentityMatches, PreparedFiles
  <2> QED
    BY <2>2, <2>3, <2>4, <2>5, <2>6, <2>7, <2>8, <2>9, <2>10 DEF Safe
<1>5. CASE QueueSave
  <2>1. /\ queuer.pc = "save" /\ rec' = queuer.read /\ rec' \in Rows
        /\ titleLock' = "free" /\ queuer' \in Queuers /\ queuer'.pc = "idle" /\ queuer'.want.gen = 0
        /\ UNCHANGED <<offer, outbox, place, onDisk, recorded, lease, sweep, courier, remote, wire, troubles>>
    <3>1. queuer.read \in Rows /\ onDisk \in Trees
      BY <1>0 DEF Typed, Queuers
    <3> QED
      BY <1>5, <3>1, Blanks DEF QueueSave, QueueDone
  <2>2. Typed'
    BY <1>0, <2>1 DEF Typed, Holders
  <2>3. Journal'
    BY <1>0, <2>1 DEF Safe, Journal
  <2>4. Locking'
    BY <1>0, <2>1 DEF Safe, Locking, Placing
  <2>5. Running'
    BY <1>0, <2>1 DEF Safe, Running, Saving
  <2>6. Saving'
    BY <1>0, <2>1 DEF Safe, Saving
  <2>7. Generations'
    BY <1>0, <2>1 DEF Safe, Generations, Saving, Typed, Records
  <2>8. Receipting'
    BY <1>0, <2>1 DEF Safe, Receipting, Matches, IdentityMatches, AllCommitted, Saving
  <2>9. Cancelling'
    BY <1>0, <2>1 DEF Safe, Cancelling, Matches, IdentityMatches, PreparedFiles, Saving
  <2>10. EndsAgree'
    BY <1>0, <2>1 DEF Safe, EndsAgree, AllCommitted, IdentityMatches, PreparedFiles, Saving
  <2> QED
    BY <2>2, <2>3, <2>4, <2>5, <2>6, <2>7, <2>8, <2>9, <2>10 DEF Safe
<1>6. CASE CancelRecoveryImport
  BY <1>6, CancelKeeps, InvPartsPrimed
<1> QED
  BY <1>1, <1>2, <1>3, <1>4, <1>5, <1>6 DEF RequestStep

\* The steps of a run that write files.
FileStep == PublishRecoveryFile \/ CommitRecoveryFile \/ \E f \in StagedFiles : PrepareRecoveryFile(f)

\* Preparing, publishing and committing a file.
LEMMA FileStepKeeps == ASSUME RecoveryInv, FileStep PROVE RecoveryInv'
<1>0. Typed /\ Safe
  BY InvParts
<1> SUFFICES Typed' /\ Safe'
  BY InvPartsPrimed
<1>1. ASSUME NEW f \in StagedFiles, PrepareRecoveryFile(f) PROVE Typed' /\ Safe'
  <2> DEFINE Prepared ==
             /\ sweep.pc = "files"
             /\ sweep' \in Sweeps /\ place' \in Journals /\ onDisk' \in Trees
             /\ \/ /\ place' = place /\ onDisk' = onDisk
                   /\ (sweep'.pc = "files" /\ sweep'.err = sweep.err) \/ (sweep'.pc = "settle" /\ sweep'.err)
                \/ /\ sweep'.pc = "publish" /\ sweep'.file = f /\ sweep'.err = sweep.err
                   /\ \/ place' = place /\ onDisk' = onDisk /\ place[f].state \in {"prepared", "committed"}
                      \/ /\ place[f].state # "committed"
                         /\ place'[f].state = "prepared" /\ place'[f].prev # "new" /\ onDisk'[f] # "new"
                         /\ \A g \in StagedFiles \ {f} : place'[g] = place[g] /\ onDisk'[g] = onDisk[g]
             /\ UNCHANGED <<offer, rec, outbox, recorded, lease, titleLock, courier, queuer, remote, wire, troubles>>
  <2>1. Prepared
    <3>1. sweep.pc = "files" /\ sweep \in Sweeps /\ place \in Journals /\ onDisk \in Trees
      BY <1>0, <1>1 DEF PrepareRecoveryFile, Typed
    <3>2. FileDone(f, TRUE) => sweep' \in Sweeps /\ sweep'.pc = "files" /\ sweep'.err = sweep.err
      BY <3>1, SweepFiles
    <3>3. sweep' = [sweep EXCEPT !.pc = "publish", !.file = f] =>
            sweep' \in Sweeps /\ sweep'.pc = "publish" /\ sweep'.file = f /\ sweep'.err = sweep.err
      BY <3>1, SweepPublishes
    <3>4. GiveUp => sweep' \in Sweeps /\ sweep'.pc = "settle" /\ sweep'.err
      BY <3>1, SweepGivesUp
    <3>5. CASE (FileDone(f, TRUE) \/ GiveUp) /\ UNCHANGED <<onDisk, place>>
      BY <1>1, <3>1, <3>2, <3>4, <3>5 DEF PrepareRecoveryFile
    <3>6. ASSUME place[f].state \in {"prepared", "committed"}, UNCHANGED <<onDisk, place>>,
                 sweep' = [sweep EXCEPT !.pc = "publish", !.file = f]
          PROVE  Prepared
      BY <1>1, <3>1, <3>3, <3>6 DEF PrepareRecoveryFile
    <3>7. ASSUME NEW prev \in BytesAt \ {"new"}, place[f].state # "committed",
                 place' = [place EXCEPT ![f] = [state |-> "prepared", prev |-> prev, published |-> FALSE]],
                 onDisk' \in Trees, onDisk'[f] = prev, \A g \in StagedFiles \ {f} : onDisk'[g] = onDisk[g],
                 sweep' = [sweep EXCEPT !.pc = "publish", !.file = f]
          PROVE  Prepared
      <4>1. /\ place' \in Journals
            /\ place'[f].state = "prepared" /\ place'[f].prev = prev
            /\ \A g \in StagedFiles \ {f} : place'[g] = place[g]
        BY <3>1, <3>7, EntryPrepared
      <4> QED
        BY <1>1, <3>1, <3>3, <3>7, <4>1 DEF PrepareRecoveryFile
    <3>8. CASE /\ place[f].state = "none" /\ UNCHANGED onDisk
               /\ place' = [place EXCEPT ![f] = [state |-> "prepared", prev |-> onDisk[f], published |-> FALSE]]
               /\ sweep' = [sweep EXCEPT !.pc = "publish", !.file = f]
      <4>1. onDisk[f] \in BytesAt \ {"new"}
        BY <1>0, <3>1, <3>8 DEF Safe, Journal, Trees
      <4> QED
        BY <3>1, <3>7, <3>8, <4>1
    <3>9. CASE PlacedBeside(f) /\ sweep' = [sweep EXCEPT !.pc = "publish", !.file = f]
      <4>1. "none" \in BytesAt \ {"new"}
        BY DEF BytesAt
      <4>2. /\ onDisk' \in Trees /\ onDisk'[f] = "none"
            /\ \A g \in StagedFiles \ {f} : onDisk'[g] = onDisk[g]
        BY <3>1, <3>9, <4>1, DiskWrites DEF PlacedBeside
      <4> QED
        BY <3>7, <3>9, <4>1, <4>2 DEF PlacedBeside
    <3> QED
      BY <1>1, <3>5, <3>6, <3>8, <3>9 DEF PrepareRecoveryFile, Ready
  <2>2. Typed'
    BY <1>0, <2>1 DEF Typed, Holders
  <2>3. Saving' /\ Generations'
    BY <1>0, <2>1 DEF Safe, Saving, Generations, Matches, IdentityMatches
  <2>4. Locking'
    BY <1>0, <2>1 DEF Safe, Locking, Placing
  <2>5. Running'
    BY <1>0, <2>1 DEF Safe, Running
  <2>6. Receipting'
    BY <1>0, <2>1 DEF Safe, Receipting, Matches, IdentityMatches, AllCommitted
  <2>7. Cancelling'
    BY <1>0, <2>1 DEF Safe, Cancelling, Matches, IdentityMatches, PreparedFiles
  <2>8. Journal'
    BY <1>0, <2>1 DEF Safe, Journal
  <2>9. EndsAgree'
    BY <1>0, <2>1 DEF Safe, EndsAgree, AllCommitted, IdentityMatches, PreparedFiles, Running
  <2> QED
    BY <2>2, <2>3, <2>4, <2>5, <2>6, <2>7, <2>8, <2>9 DEF Safe
<1>2. CASE PublishRecoveryFile
  <2>1. /\ sweep.pc = "publish" /\ sweep.file \in StagedFiles
        /\ sweep' \in Sweeps /\ place' \in Journals /\ onDisk' \in Trees
        /\ \/ place' = place /\ onDisk' = onDisk /\ sweep'.pc = "settle" /\ sweep'.err
           \/ /\ sweep'.pc = "commit" /\ sweep'.file = sweep.file /\ sweep'.err = sweep.err
              /\ onDisk'[sweep.file] = "new" /\ \A g \in StagedFiles \ {sweep.file} : onDisk'[g] = onDisk[g]
              /\ \A g \in StagedFiles : place'[g].state = place[g].state /\ place'[g].prev = place[g].prev
        /\ UNCHANGED <<offer, rec, outbox, recorded, lease, titleLock, courier, queuer, remote, wire, troubles>>
    <3>1. sweep.pc = "publish" /\ sweep.file \in StagedFiles
      BY <1>0, <1>2 DEF PublishRecoveryFile, Safe, Journal
    <3>2. sweep \in Sweeps /\ place \in Journals /\ onDisk \in Trees
      BY <1>0 DEF Typed
    <3>3. CASE GiveUp /\ UNCHANGED <<onDisk, place>>
      BY <1>2, <3>1, <3>2, <3>3, SweepGivesUp DEF PublishRecoveryFile
    <3>4. CASE /\ onDisk' = [onDisk EXCEPT ![sweep.file] = "new"] /\ Go("commit")
               /\ place' = [place EXCEPT ![sweep.file].published = TRUE]
      <4>1. "new" \in BytesAt /\ "commit" \in SweepSteps
        BY Steps DEF BytesAt
      <4>2. /\ place' \in Journals
            /\ \A g \in StagedFiles : place'[g].state = place[g].state /\ place'[g].prev = place[g].prev
        BY <3>1, <3>2, <3>4, <4>1, EntryPublished
      <4>3. /\ onDisk' \in Trees /\ onDisk'[sweep.file] = "new"
            /\ \A g \in StagedFiles \ {sweep.file} : onDisk'[g] = onDisk[g]
        BY <3>1, <3>2, <3>4, <4>1, DiskWrites
      <4>4. sweep' \in Sweeps /\ sweep'.pc = "commit" /\ sweep'.err = sweep.err /\ sweep'.file = sweep.file
        BY <3>2, <3>4, <4>1, SweepGoes DEF Go
      <4> QED
        BY <1>2, <3>1, <4>2, <4>3, <4>4 DEF PublishRecoveryFile
    <3> QED
      BY <1>2, <3>3, <3>4 DEF PublishRecoveryFile
  <2>2. Typed'
    BY <1>0, <2>1 DEF Typed, Holders
  <2>3. Saving' /\ Generations'
    BY <1>0, <2>1 DEF Safe, Saving, Generations, Matches, IdentityMatches
  <2>4. Locking'
    BY <1>0, <2>1 DEF Safe, Locking, Placing
  <2>5. Running'
    BY <1>0, <2>1 DEF Safe, Running
  <2>6. Receipting'
    BY <1>0, <2>1 DEF Safe, Receipting, Matches, IdentityMatches, AllCommitted
  <2>7. Cancelling'
    BY <1>0, <2>1 DEF Safe, Cancelling, Matches, IdentityMatches, PreparedFiles
  <2>8. Journal'
    BY <1>0, <2>1 DEF Safe, Journal
  <2>9. EndsAgree'
    BY <1>0, <2>1 DEF Safe, EndsAgree, AllCommitted, IdentityMatches, PreparedFiles, Running, Journal
  <2> QED
    BY <2>2, <2>3, <2>4, <2>5, <2>6, <2>7, <2>8, <2>9 DEF Safe
<1>3. CASE CommitRecoveryFile
  <2>1. /\ sweep.pc = "commit" /\ sweep.file \in StagedFiles
        /\ sweep' \in Sweeps /\ place' \in Journals
        /\ (sweep'.pc = "files" /\ sweep'.err = sweep.err) \/ (sweep'.pc = "settle" /\ sweep'.err)
        /\ rec' \in Rows /\ rec'.state = rec.state /\ rec'.gen = rec.gen
        /\ lease' \in Nat /\ recorded' \subseteq StagedFiles
        /\ \/ place' = place
           \/ /\ place'[sweep.file].state = "committed" /\ place'[sweep.file].prev = place[sweep.file].prev
              /\ \A g \in StagedFiles \ {sweep.file} : place'[g] = place[g]
        /\ UNCHANGED <<offer, outbox, onDisk, titleLock, courier, queuer, remote, wire, troubles>>
    <3>1. sweep.pc = "commit" /\ sweep.file \in StagedFiles
      BY <1>0, <1>3 DEF CommitRecoveryFile, Safe, Journal
    <3>2. /\ sweep \in Sweeps /\ place \in Journals /\ rec \in Rows
          /\ lease \in Nat /\ lease + 1 \in Nat /\ recorded \subseteq StagedFiles
      BY <1>0 DEF Typed
    <3>3. FileDone(sweep.file, FALSE) => sweep' \in Sweeps /\ sweep'.pc = "files" /\ sweep'.err = sweep.err
      BY <3>1, <3>2, SweepFiles
    <3>4. GiveUp => sweep' \in Sweeps /\ sweep'.pc = "settle" /\ sweep'.err
      BY <3>2, SweepGivesUp
    <3>5. CASE CommitStep(sweep.file) /\ FileDone(sweep.file, FALSE)
      <4>1. /\ place' \in Journals
            /\ place'[sweep.file].state = "committed" /\ place'[sweep.file].prev = place[sweep.file].prev
            /\ \A g \in StagedFiles \ {sweep.file} : place'[g] = place[g]
        BY <3>1, <3>2, <3>5, EntryWrites DEF CommitStep
      <4>2. rec' \in Rows /\ rec'.state = rec.state /\ rec'.gen = rec.gen /\ lease' \in Nat
        BY <3>2, <3>5, RowAccepts DEF CommitStep
      <4>3. recorded' \subseteq StagedFiles
        BY <3>1, <3>2, <3>5 DEF CommitStep
      <4> QED
        BY <1>3, <3>1, <3>3, <3>5, <4>1, <4>2, <4>3 DEF CommitRecoveryFile
    <3>6. CASE (FileDone(sweep.file, FALSE) \/ GiveUp) /\ UNCHANGED <<rec, place, recorded, lease>>
      BY <1>3, <3>1, <3>2, <3>3, <3>4, <3>6 DEF CommitRecoveryFile
    <3> QED
      BY <1>3, <3>5, <3>6 DEF CommitRecoveryFile
  <2>2. Typed'
    BY <1>0, <2>1 DEF Typed, Holders
  <2>3. Locking'
    BY <1>0, <2>1 DEF Safe, Locking, Placing
  <2>4. Running'
    BY <1>0, <2>1 DEF Safe, Running
  <2>5. Saving'
    BY <1>0, <2>1 DEF Safe, Saving
  <2>6. Generations'
    BY <1>0, <2>1 DEF Safe, Generations, Matches, IdentityMatches
  <2>7. Receipting'
    BY <1>0, <2>1 DEF Safe, Receipting, Matches, IdentityMatches, AllCommitted
  <2>8. Cancelling'
    BY <1>0, <2>1 DEF Safe, Cancelling, Matches, IdentityMatches, PreparedFiles
  <2>9. Journal'
    BY <1>0, <2>1 DEF Safe, Journal
  <2>10. EndsAgree'
    BY <1>0, <2>1 DEF Safe, EndsAgree, AllCommitted, IdentityMatches, PreparedFiles
  <2> QED
    BY <2>2, <2>3, <2>4, <2>5, <2>6, <2>7, <2>8, <2>9, <2>10 DEF Safe
<1> QED
  BY <1>1, <1>2, <1>3 DEF FileStep

\* The steps of a run.
LEMMA RunStepKeeps == ASSUME RecoveryInv, RunStep PROVE RecoveryInv'
<1>0. Typed /\ Safe
  BY InvParts
<1> SUFFICES Typed' /\ Safe'
  BY InvPartsPrimed
<1>1. CASE SweepTake
  <2>1. /\ sweep.pc = "idle" /\ rec.state \in {"queued", "importing", "cancel_pending"}
        /\ sweep' \in Sweeps /\ sweep'.pc \in {"ack", "start"} /\ ~sweep'.err
        /\ UNCHANGED <<offer, rec, outbox, place, onDisk, recorded, lease, titleLock, courier, queuer, remote, wire, troubles>>
    BY <1>0, <1>1, RestingSweep DEF Typed, SweepTake, SweepSteps
  <2>2. Typed'
    BY <1>0, <2>1 DEF Typed, Holders
  <2>3. Saving' /\ Generations' /\ Receipting' /\ EndsAgree'
    BY <1>0, <2>1 DEF Safe, Saving, Generations, Matches, IdentityMatches, Receipting, AllCommitted, EndsAgree, PreparedFiles
  <2>4. Locking'
    BY <1>0, <2>1 DEF Safe, Locking, Placing
  <2>5. Running'
    BY <1>0, <2>1 DEF Safe, Running
  <2>6. Cancelling'
    BY <1>0, <2>1 DEF Safe, Cancelling, Matches, IdentityMatches, PreparedFiles
  <2>7. Journal'
    BY <1>0, <2>1 DEF Safe, Journal
  <2> QED
    BY <2>2, <2>3, <2>4, <2>5, <2>6, <2>7 DEF Safe
<1>2. CASE SweepStart
  <2>1. /\ sweep.pc = "start"
        /\ sweep' \in Sweeps /\ sweep'.err = sweep.err /\ rec' \in Rows /\ rec'.gen = rec.gen
        /\ \/ rec.state \in {"queued", "importing"} /\ rec'.state = "importing" /\ sweep'.pc = "lock"
           \/ rec' = rec /\ sweep'.pc = "settle"
        /\ UNCHANGED <<offer, outbox, place, onDisk, recorded, lease, titleLock, courier, queuer, remote, wire, troubles>>
    <3>1. sweep \in Sweeps /\ rec \in Rows /\ "importing" \in LocalStates /\ {"lock", "settle"} \subseteq SweepSteps
      BY <1>0, Steps DEF Typed, LocalStates
    <3>2. CASE rec' = [rec EXCEPT !.state = "importing"] /\ Go("lock") /\ rec.state \in {"queued", "importing"}
      <4>1. rec' \in Rows /\ rec'.state = "importing" /\ rec'.gen = rec.gen
        BY <3>1, <3>2, RowWrites
      <4>2. sweep' \in Sweeps /\ sweep'.pc = "lock" /\ sweep'.err = sweep.err
        BY <3>1, <3>2, SweepGo
      <4> QED
        BY <1>2, <3>2, <4>1, <4>2 DEF SweepStart
    <3>3. CASE rec' = rec /\ Go("settle")
      BY <1>2, <3>1, <3>3, SweepGo DEF SweepStart
    <3> QED
      BY <1>2, <3>2, <3>3 DEF SweepStart
  <2>2. Typed'
    BY <1>0, <2>1 DEF Typed, Holders
  <2>3. Locking'
    BY <1>0, <2>1 DEF Safe, Locking, Placing
  <2>4. Running'
    BY <1>0, <2>1 DEF Safe, Running
  <2>5. Saving'
    BY <1>0, <2>1 DEF Safe, Saving
  <2>6. Generations'
    BY <1>0, <2>1 DEF Safe, Generations, Matches, IdentityMatches
  <2>7. Receipting'
    BY <1>0, <2>1 DEF Safe, Receipting, Matches, IdentityMatches, AllCommitted
  <2>8. Cancelling'
    BY <1>0, <2>1 DEF Safe, Cancelling, Matches, IdentityMatches, PreparedFiles
  <2>9. Journal'
    BY <1>0, <2>1 DEF Safe, Journal
  <2>10. EndsAgree'
    BY <1>0, <2>1 DEF Safe, EndsAgree, AllCommitted, IdentityMatches, PreparedFiles
  <2> QED
    BY <2>2, <2>3, <2>4, <2>5, <2>6, <2>7, <2>8, <2>9, <2>10 DEF Safe
<1>3. CASE LockTitleForRecovery
  <2>1. /\ sweep.pc = "lock" /\ sweep' \in Sweeps
        /\ \/ titleLock = "free" /\ titleLock' = "sweep" /\ sweep'.pc = "validate" /\ sweep'.err = sweep.err
           \/ titleLock' = titleLock /\ sweep'.pc = "settle" /\ sweep'.err
        /\ UNCHANGED <<offer, rec, outbox, place, onDisk, recorded, lease, courier, queuer, remote, wire, troubles>>
    BY <1>0, <1>3, Steps, SweepGo, SweepGivesUp DEF Typed, LockTitleForRecovery
  <2>2. Typed'
    BY <1>0, <2>1 DEF Typed, Holders
  <2>3. Saving' /\ Generations' /\ Receipting' /\ EndsAgree'
    BY <1>0, <2>1 DEF Safe, Saving, Generations, Matches, IdentityMatches, Receipting, AllCommitted, EndsAgree, PreparedFiles
  <2>4. Locking'
    BY <1>0, <2>1 DEF Safe, Locking, Placing
  <2>5. Running'
    BY <1>0, <2>1 DEF Safe, Running
  <2>6. Cancelling'
    BY <1>0, <2>1 DEF Safe, Cancelling, Matches, IdentityMatches, PreparedFiles
  <2>7. Journal'
    BY <1>0, <2>1 DEF Safe, Journal
  <2> QED
    BY <2>2, <2>3, <2>4, <2>5, <2>6, <2>7 DEF Safe
<1>4. CASE ValidateRecoveryTarget
  <2>1. /\ sweep.pc = "validate"
        /\ sweep' \in Sweeps
        /\ (sweep'.pc = "claim" /\ sweep'.err = sweep.err) \/ (sweep'.pc = "settle" /\ sweep'.err)
        /\ UNCHANGED <<offer, rec, outbox, place, onDisk, recorded, lease, titleLock, courier, queuer, remote, wire, troubles>>
    BY <1>0, <1>4, Steps, SweepGo, SweepGivesUp DEF Typed, ValidateRecoveryTarget
  <2>2. Typed'
    BY <1>0, <2>1 DEF Typed, Holders
  <2>3. Saving' /\ Generations' /\ Receipting' /\ EndsAgree'
    BY <1>0, <2>1 DEF Safe, Saving, Generations, Matches, IdentityMatches, Receipting, AllCommitted, EndsAgree, PreparedFiles
  <2>4. Locking'
    BY <1>0, <2>1 DEF Safe, Locking, Placing
  <2>5. Running'
    BY <1>0, <2>1 DEF Safe, Running
  <2>6. Cancelling'
    BY <1>0, <2>1 DEF Safe, Cancelling, Matches, IdentityMatches, PreparedFiles
  <2>7. Journal'
    BY <1>0, <2>1 DEF Safe, Journal
  <2> QED
    BY <2>2, <2>3, <2>4, <2>5, <2>6, <2>7 DEF Safe
<1>5. CASE ClaimRecovery
  <2>1. /\ sweep.pc = "claim"
        /\ sweep' \in Sweeps
        /\ (sweep'.pc = "record" /\ sweep'.err = sweep.err) \/ (sweep'.pc = "settle" /\ sweep'.err)
        /\ remote' \in Records /\ remote'.gen = remote.gen
        /\ remote.state \in {"cancelled", "imported"} => remote' = remote
        /\ remote.state = "cancel_pending" => remote'.state \in {"cancel_pending", "cancelled"}
        /\ remote'.state = "imported" => remote' = remote
        /\ wire' \subseteq Calls /\ wire' \subseteq wire \cup {"claim"} /\ troubles' \in 0 .. MaxTroubles
        /\ UNCHANGED <<offer, rec, outbox, place, onDisk, recorded, lease, titleLock, courier, queuer>>
    <3>1. PICK ok \in BOOLEAN : Call("claim", ok) /\ (IF ok THEN Go("record") ELSE GiveUp)
      BY <1>5 DEF ClaimRecovery
    <3>3. /\ remote' \in Records /\ remote'.gen = remote.gen
          /\ remote.state \in {"cancelled", "imported"} => remote' = remote
          /\ remote.state = "cancel_pending" => remote'.state \in {"cancel_pending", "cancelled"}
          /\ remote'.state = "imported" => remote' = remote
          /\ wire' \subseteq Calls /\ wire' \subseteq wire \cup {"claim"} /\ troubles' \in 0 .. MaxTroubles
      BY <1>0, <3>1, QuietCall DEF Calls
    <3>4. sweep \in Sweeps /\ "record" \in SweepSteps
      BY <1>0 DEF Typed, SweepSteps, Placing
    <3>5. sweep' \in Sweeps /\ ((sweep'.pc = "record" /\ sweep'.err = sweep.err) \/ (sweep'.pc = "settle" /\ sweep'.err))
      BY <3>1, <3>4, SweepGo, SweepGivesUp
    <3> QED
      BY <1>5, <3>3, <3>5 DEF ClaimRecovery
  <2>2. Typed'
    BY <1>0, <2>1 DEF Typed, Holders
  <2>3. Saving'
    BY <1>0, <2>1 DEF Safe, Saving
  <2>4. Locking'
    BY <1>0, <2>1 DEF Safe, Locking, Placing
  <2>5. Running'
    BY <1>0, <2>1 DEF Safe, Running
  <2>6. Generations'
    BY <1>0, <2>1 DEF Safe, Generations, Matches, IdentityMatches
  <2>7. Receipting'
    BY <1>0, <2>1 DEF Safe, Receipting, Matches, IdentityMatches, AllCommitted
  <2>8. Cancelling'
    BY <1>0, <2>1 DEF Safe, Cancelling, Matches, IdentityMatches, PreparedFiles
  <2>9. Journal'
    BY <1>0, <2>1 DEF Safe, Journal
  <2>10. EndsAgree'
    BY <1>0, <2>1 DEF Safe, EndsAgree, AllCommitted, IdentityMatches, PreparedFiles
  <2> QED
    BY <2>2, <2>3, <2>4, <2>5, <2>6, <2>7, <2>8, <2>9, <2>10 DEF Safe
<1>6. CASE RecordClaim
  <2>1. /\ sweep.pc = "record"
        /\ sweep' \in Sweeps
        /\ (sweep'.pc = "files" /\ sweep'.err = sweep.err) \/ (sweep'.pc = "settle" /\ sweep'.err)
        /\ rec' \in Rows /\ rec'.state = rec.state /\ rec'.gen = rec.gen
        /\ UNCHANGED <<offer, outbox, place, onDisk, recorded, lease, titleLock, courier, queuer, remote, wire, troubles>>
    BY <1>0, <1>6, Steps, SweepGo, SweepGivesUp, RowAccepts DEF Typed, RecordClaim
  <2>2. Typed'
    BY <1>0, <2>1 DEF Typed, Holders
  <2>3. Locking'
    BY <1>0, <2>1 DEF Safe, Locking, Placing
  <2>4. Running'
    BY <1>0, <2>1 DEF Safe, Running
  <2>5. Saving'
    BY <1>0, <2>1 DEF Safe, Saving
  <2>6. Generations'
    BY <1>0, <2>1 DEF Safe, Generations, Matches, IdentityMatches
  <2>7. Receipting'
    BY <1>0, <2>1 DEF Safe, Receipting, Matches, IdentityMatches, AllCommitted
  <2>8. Cancelling'
    BY <1>0, <2>1 DEF Safe, Cancelling, Matches, IdentityMatches, PreparedFiles
  <2>9. Journal'
    BY <1>0, <2>1 DEF Safe, Journal
  <2>10. EndsAgree'
    BY <1>0, <2>1 DEF Safe, EndsAgree, AllCommitted, IdentityMatches, PreparedFiles
  <2> QED
    BY <2>2, <2>3, <2>4, <2>5, <2>6, <2>7, <2>8, <2>9, <2>10 DEF Safe
<1>7. CASE RunCancelled
  <2>1. /\ sweep.pc \in {"lock"} \cup Placing
        /\ sweep' \in Sweeps /\ sweep'.pc = "settle" /\ sweep'.err
        /\ UNCHANGED <<offer, rec, outbox, place, onDisk, recorded, lease, titleLock, courier, queuer, remote, wire, troubles>>
    BY <1>0, <1>7, Steps, SweepGo, SweepGivesUp DEF Typed, RunCancelled
  <2>2. Typed'
    BY <1>0, <2>1 DEF Typed, Holders
  <2>3. Saving' /\ Generations' /\ Receipting' /\ EndsAgree'
    BY <1>0, <2>1 DEF Safe, Saving, Generations, Matches, IdentityMatches, Receipting, AllCommitted, EndsAgree, PreparedFiles
  <2>4. Locking'
    BY <1>0, <2>1 DEF Safe, Locking, Placing
  <2>5. Running'
    BY <1>0, <2>1 DEF Safe, Running, Placing
  <2>6. Cancelling'
    BY <1>0, <2>1 DEF Safe, Cancelling, Matches, IdentityMatches, PreparedFiles
  <2>7. Journal'
    BY <1>0, <2>1 DEF Safe, Journal
  <2> QED
    BY <2>2, <2>3, <2>4, <2>5, <2>6, <2>7 DEF Safe
<1>8. CASE PayloadRefused
  <2>1. /\ sweep.pc = "files"
        /\ sweep' \in Sweeps /\ sweep'.pc = "settle" /\ sweep'.err
        /\ UNCHANGED <<offer, rec, outbox, place, onDisk, recorded, lease, titleLock, courier, queuer, remote, wire, troubles>>
    BY <1>0, <1>8, Steps, SweepGo, SweepGivesUp DEF Typed, PayloadRefused
  <2>2. Typed'
    BY <1>0, <2>1 DEF Typed, Holders
  <2>3. Saving' /\ Generations' /\ Receipting' /\ EndsAgree'
    BY <1>0, <2>1 DEF Safe, Saving, Generations, Matches, IdentityMatches, Receipting, AllCommitted, EndsAgree, PreparedFiles
  <2>4. Locking'
    BY <1>0, <2>1 DEF Safe, Locking, Placing
  <2>5. Running'
    BY <1>0, <2>1 DEF Safe, Running
  <2>6. Cancelling'
    BY <1>0, <2>1 DEF Safe, Cancelling, Matches, IdentityMatches, PreparedFiles
  <2>7. Journal'
    BY <1>0, <2>1 DEF Safe, Journal
  <2> QED
    BY <2>2, <2>3, <2>4, <2>5, <2>6, <2>7 DEF Safe
<1>9. CASE HeartbeatCancels
  BY <1>9, CancelKeeps, InvPartsPrimed DEF HeartbeatCancels
<1>10. CASE FilesTried
  <2>1. /\ sweep.pc = "files"
        /\ sweep' \in Sweeps
        /\ (sweep'.pc = "verify" /\ sweep'.err = sweep.err) \/ (sweep'.pc = "settle" /\ sweep'.err)
        /\ UNCHANGED <<offer, rec, outbox, place, onDisk, recorded, lease, titleLock, courier, queuer, remote, wire, troubles>>
    BY <1>0, <1>10, Steps, SweepGo, SweepGivesUp DEF Typed, FilesTried
  <2>2. Typed'
    BY <1>0, <2>1 DEF Typed, Holders
  <2>3. Saving' /\ Generations' /\ Receipting' /\ EndsAgree'
    BY <1>0, <2>1 DEF Safe, Saving, Generations, Matches, IdentityMatches, Receipting, AllCommitted, EndsAgree, PreparedFiles
  <2>4. Locking'
    BY <1>0, <2>1 DEF Safe, Locking, Placing
  <2>5. Running'
    BY <1>0, <2>1 DEF Safe, Running
  <2>6. Cancelling'
    BY <1>0, <2>1 DEF Safe, Cancelling, Matches, IdentityMatches, PreparedFiles
  <2>7. Journal'
    BY <1>0, <2>1 DEF Safe, Journal
  <2> QED
    BY <2>2, <2>3, <2>4, <2>5, <2>6, <2>7 DEF Safe
<1>11. CASE VerifyRecoveryPublications
  <2>1. /\ sweep.pc = "verify"
        /\ sweep' \in Sweeps
        /\ (sweep'.pc = "receipt" /\ sweep'.err = sweep.err) \/ (sweep'.pc = "settle" /\ sweep'.err)
        /\ UNCHANGED <<offer, rec, outbox, place, onDisk, recorded, lease, titleLock, courier, queuer, remote, wire, troubles>>
    BY <1>0, <1>11, Steps, SweepGo, SweepGivesUp DEF Typed, VerifyRecoveryPublications
  <2>2. Typed'
    BY <1>0, <2>1 DEF Typed, Holders
  <2>3. Saving' /\ Generations' /\ Receipting' /\ EndsAgree'
    BY <1>0, <2>1 DEF Safe, Saving, Generations, Matches, IdentityMatches, Receipting, AllCommitted, EndsAgree, PreparedFiles
  <2>4. Locking'
    BY <1>0, <2>1 DEF Safe, Locking, Placing
  <2>5. Running'
    BY <1>0, <2>1 DEF Safe, Running
  <2>6. Cancelling'
    BY <1>0, <2>1 DEF Safe, Cancelling, Matches, IdentityMatches, PreparedFiles
  <2>7. Journal'
    BY <1>0, <2>1 DEF Safe, Journal
  <2> QED
    BY <2>2, <2>3, <2>4, <2>5, <2>6, <2>7 DEF Safe
<1>12. CASE RecordReceipt
  <2>1. /\ sweep.pc = "receipt"
        /\ sweep' \in Sweeps /\ rec' \in Rows /\ rec'.gen = rec.gen
        /\ \/ /\ rec.state # "cancel_pending" /\ rec'.state = "receipt_pending" /\ AllCommitted
              /\ outbox' = (IF outbox = "none" THEN "pending" ELSE outbox) /\ sweep'.pc = "settle" /\ sweep'.err = sweep.err
           \/ rec' = rec /\ outbox' = outbox /\ sweep'.pc = "settle" /\ sweep'.err
        /\ UNCHANGED <<offer, place, onDisk, recorded, lease, titleLock, courier, queuer, remote, wire, troubles>>
    <3>1. sweep \in Sweeps /\ rec \in Rows /\ "receipt_pending" \in LocalStates /\ "settle" \in SweepSteps
      BY <1>0, Steps DEF Typed, LocalStates
    <3>2. CASE /\ rec.state # "cancel_pending" /\ AllCommitted
               /\ rec' = [rec EXCEPT !.state = "receipt_pending"] /\ Go("settle")
               /\ outbox' = (IF outbox = "none" THEN "pending" ELSE outbox)
      <4>1. rec' \in Rows /\ rec'.state = "receipt_pending" /\ rec'.gen = rec.gen
        BY <3>1, <3>2, RowWrites
      <4>2. sweep' \in Sweeps /\ sweep'.pc = "settle" /\ sweep'.err = sweep.err
        BY <3>1, <3>2, SweepGo
      <4> QED
        BY <1>12, <3>2, <4>1, <4>2 DEF RecordReceipt
    <3>3. CASE GiveUp /\ rec' = rec /\ outbox' = outbox
      BY <1>12, <3>1, <3>3, SweepGivesUp DEF RecordReceipt
    <3> QED
      BY <1>12, <3>2, <3>3 DEF RecordReceipt, AllCommitted
  <2>2. Typed'
    BY <1>0, <2>1 DEF Typed, Holders
  <2>3. Locking'
    BY <1>0, <2>1 DEF Safe, Locking, Placing
  <2>4. Running'
    BY <1>0, <2>1 DEF Safe, Running, Placing
  <2>5. Saving'
    BY <1>0, <2>1 DEF Safe, Saving, Locking, Placing
  <2>6. Generations'
    BY <1>0, <2>1 DEF Safe, Generations, Matches, IdentityMatches
  <2>7. Receipting'
    BY <1>0, <2>1 DEF Safe, Receipting, Matches, IdentityMatches, AllCommitted, Running
  <2>8. Cancelling'
    BY <1>0, <2>1 DEF Safe, Cancelling, Matches, IdentityMatches, PreparedFiles
  <2>9. Journal'
    BY <1>0, <2>1 DEF Safe, Journal
  <2>10. EndsAgree'
    BY <1>0, <2>1 DEF Safe, EndsAgree, AllCommitted, IdentityMatches, PreparedFiles
  <2> QED
    BY <2>2, <2>3, <2>4, <2>5, <2>6, <2>7, <2>8, <2>9, <2>10 DEF Safe
<1>13. CASE SweepSettle
  <2>1. /\ sweep.pc = "settle"
        /\ sweep' \in Sweeps /\ ~sweep'.err
        /\ titleLock' = IF titleLock = "sweep" THEN "free" ELSE titleLock
        /\ sweep'.pc = IF rec.state = "cancel_pending" THEN "ack" ELSE IF sweep.err THEN "save" ELSE "idle"
        /\ UNCHANGED <<offer, rec, outbox, place, onDisk, recorded, lease, courier, queuer, remote, wire, troubles>>
    BY <1>0, <1>13, RestingSweep DEF Typed, SweepSettle, SweepSteps
  <2>2. Typed'
    BY <1>0, <2>1 DEF Typed, Holders
  <2>3. Saving' /\ Generations' /\ Receipting' /\ EndsAgree'
    BY <1>0, <2>1 DEF Safe, Saving, Generations, Matches, IdentityMatches, Receipting, AllCommitted, EndsAgree, PreparedFiles
  <2>4. Locking'
    BY <1>0, <2>1 DEF Safe, Locking, Placing
  <2>5. Running'
    BY <1>0, <2>1 DEF Safe, Running
  <2>6. Cancelling'
    BY <1>0, <2>1 DEF Safe, Cancelling, Matches, IdentityMatches, PreparedFiles
  <2>7. Journal'
    BY <1>0, <2>1 DEF Safe, Journal
  <2> QED
    BY <2>2, <2>3, <2>4, <2>5, <2>6, <2>7 DEF Safe
<1>14. CASE FileStep
  BY <1>14, FileStepKeeps, InvPartsPrimed
<1>15. CASE SaveReview
  <2>1. /\ sweep.pc = "save"
        /\ sweep' \in Sweeps /\ sweep'.pc = "idle" /\ sweep'.err = sweep.err
        /\ rec' \in Rows /\ rec'.state = "review" /\ rec'.gen = rec.gen
        /\ UNCHANGED <<offer, outbox, place, onDisk, recorded, lease, titleLock, courier, queuer, remote, wire, troubles>>
    BY <1>0, <1>15, Steps, SweepGo, RowWrites DEF Typed, SaveReview, LocalStates
  <2>2. Typed'
    BY <1>0, <2>1 DEF Typed, Holders
  <2>3. Locking'
    BY <1>0, <2>1 DEF Safe, Locking, Placing
  <2>4. Running'
    BY <1>0, <2>1 DEF Safe, Running
  <2>5. Saving'
    BY <1>0, <2>1 DEF Safe, Saving
  <2>6. Generations'
    BY <1>0, <2>1 DEF Safe, Generations, Matches, IdentityMatches
  <2>7. Receipting'
    BY <1>0, <2>1 DEF Safe, Receipting, Matches, IdentityMatches, AllCommitted, Running
  <2>8. Cancelling'
    BY <1>0, <2>1 DEF Safe, Cancelling, Matches, IdentityMatches, PreparedFiles
  <2>9. Journal'
    BY <1>0, <2>1 DEF Safe, Journal
  <2>10. EndsAgree'
    BY <1>0, <2>1 DEF Safe, EndsAgree, AllCommitted, IdentityMatches, PreparedFiles, Running
  <2> QED
    BY <2>2, <2>3, <2>4, <2>5, <2>6, <2>7, <2>8, <2>9, <2>10 DEF Safe
<1> QED
  BY <1>1, <1>2, <1>3, <1>4, <1>5, <1>6, <1>7, <1>8, <1>9, <1>10, <1>11, <1>12, <1>13, <1>14, <1>15 DEF RunStep, FileStep

\* The cancellation of an import.
LEMMA CancellationStepKeeps == ASSUME RecoveryInv, CancellationStep PROVE RecoveryInv'
<1>0. Typed /\ Safe
  BY InvParts
<1> SUFFICES Typed' /\ Safe'
  BY InvPartsPrimed
<1>1. CASE AckObserve
  <2>1. /\ sweep.pc = "ack" /\ sweep' \in Sweeps /\ sweep'.err = sweep.err
        /\ troubles' \in 0 .. MaxTroubles
        /\ \/ sweep'.pc = "idle"
           \/ sweep'.pc = "rollback" /\ (sweep'.saw => Matches("cancelled"))
        /\ UNCHANGED <<offer, rec, outbox, place, onDisk, recorded, lease, titleLock, courier, queuer, remote, wire>>
    <3>1. sweep \in Sweeps /\ "idle" \in SweepSteps /\ troubles \in 0 .. MaxTroubles
      BY <1>0, Steps DEF Typed
    <3>2. CASE /\ CancellationMatches(outbox # "none")
               /\ sweep' = [sweep EXCEPT !.pc = "rollback", !.saw = remote.state = "cancelled"] /\ UNCHANGED troubles
      <4> DEFINE saw == remote.state = "cancelled"
      <4>1. saw \in BOOLEAN /\ (saw => Matches("cancelled"))
        BY DEF Matches
      <4>2. sweep' = [sweep EXCEPT !.pc = "rollback", !.saw = saw]
        BY <3>2
      <4> HIDE DEF saw
      <4>3. sweep' \in Sweeps /\ sweep'.pc = "rollback" /\ sweep'.saw = saw /\ sweep'.err = sweep.err
        BY <3>1, <4>1, <4>2, SweepSees
      <4> QED
        BY <1>1, <3>1, <3>2, <4>1, <4>3 DEF AckObserve
    <3>3. CASE Go("idle") /\ (UNCHANGED troubles \/ Trouble)
      <4>1. troubles' \in 0 .. MaxTroubles
        BY <3>1, <3>3, RecoveryAssumption DEF Trouble
      <4> QED
        BY <1>1, <3>1, <3>3, <4>1, SweepGo DEF AckObserve
    <3> QED
      BY <1>1, <3>2, <3>3 DEF AckObserve
  <2>2. Typed'
    BY <1>0, <2>1 DEF Typed, Holders
  <2>3. Saving' /\ Generations' /\ Receipting' /\ EndsAgree'
    BY <1>0, <2>1 DEF Safe, Saving, Generations, Matches, IdentityMatches, Receipting, AllCommitted, EndsAgree, PreparedFiles
  <2>4. Locking'
    BY <1>0, <2>1 DEF Safe, Locking, Placing
  <2>5. Running'
    BY <1>0, <2>1 DEF Safe, Running
  <2>6. Cancelling'
    BY <1>0, <2>1 DEF Safe, Cancelling, Matches, IdentityMatches, PreparedFiles
  <2>7. Journal'
    BY <1>0, <2>1 DEF Safe, Journal
  <2> QED
    BY <2>2, <2>3, <2>4, <2>5, <2>6, <2>7 DEF Safe
<1>2. CASE RollbackRecoveryPlacements
  <2>1. /\ sweep.pc = "rolling" /\ sweep' \in Sweeps /\ sweep'.err = sweep.err
        /\ place' \in Journals /\ onDisk' \in Trees
        /\ \/ /\ place' = place /\ onDisk' = onDisk /\ titleLock' = "free"
              /\ \/ sweep'.pc = "keep"
                 \/ sweep'.pc = (IF sweep.saw THEN "finish" ELSE "cancel") /\ PreparedFiles = {}
           \/ \E f \in StagedFiles :
                /\ sweep' = sweep /\ titleLock' = titleLock
                /\ place[f].state = "prepared" /\ place'[f].state = "rolled_back"
                /\ onDisk'[f] = place[f].prev
                /\ \A g \in StagedFiles \ {f} : place'[g] = place[g] /\ onDisk'[g] = onDisk[g]
        /\ UNCHANGED <<offer, rec, outbox, recorded, lease, courier, queuer, remote, wire, troubles>>
    <3>1. /\ sweep \in Sweeps /\ {"keep", "finish", "cancel"} \subseteq SweepSteps
          /\ place \in Journals /\ onDisk \in Trees
      BY <1>0, Steps DEF Typed
    <3>2. CASE titleLock' = "free" /\ Go("keep") /\ UNCHANGED <<place, onDisk>>
      BY <1>2, <3>1, <3>2, SweepGo DEF RollbackRecoveryPlacements
    <3>3. CASE /\ PreparedFiles = {} /\ titleLock' = "free" /\ UNCHANGED <<place, onDisk>>
               /\ Go(IF sweep.saw THEN "finish" ELSE "cancel")
      <4>1. (IF sweep.saw THEN "finish" ELSE "cancel") \in SweepSteps
        BY <3>1
      <4>2. sweep' \in Sweeps /\ sweep'.pc = (IF sweep.saw THEN "finish" ELSE "cancel") /\ sweep'.err = sweep.err
        BY <3>1, <3>3, <4>1, SweepGo
      <4> QED
        BY <1>2, <3>1, <3>3, <4>2 DEF RollbackRecoveryPlacements
    <3>4. ASSUME NEW f \in PreparedFiles, RollBack(f), UNCHANGED <<titleLock, sweep>>
          PROVE  /\ f \in StagedFiles /\ place[f].state = "prepared" /\ place' \in Journals /\ onDisk' \in Trees
                 /\ place'[f].state = "rolled_back" /\ onDisk'[f] = place[f].prev
                 /\ \A g \in StagedFiles \ {f} : place'[g] = place[g] /\ onDisk'[g] = onDisk[g]
      BY <1>0, <3>4, RollBackFacts
    <3> QED
      BY <1>2, <3>1, <3>2, <3>3, <3>4 DEF RollbackRecoveryPlacements
  <2>2. Typed'
    BY <1>0, <2>1 DEF Typed, Holders
  <2>3. Saving' /\ Generations'
    BY <1>0, <2>1 DEF Safe, Saving, Generations, Matches, IdentityMatches
  <2>4. Locking'
    BY <1>0, <2>1 DEF Safe, Locking, Placing
  <2>5. Running'
    BY <1>0, <2>1 DEF Safe, Running
  <2>6. Receipting'
    BY <1>0, <2>1 DEF Safe, Receipting, Matches, IdentityMatches, AllCommitted, Running
  <2>7. Cancelling'
    BY <1>0, <2>1 DEF Safe, Cancelling, Matches, IdentityMatches, PreparedFiles
  <2>8. Journal'
    BY <1>0, <2>1 DEF Safe, Journal
  <2>9. EndsAgree'
    BY <1>0, <2>1 DEF Safe, EndsAgree, AllCommitted, IdentityMatches, PreparedFiles, Running, Journal
  <2> QED
    BY <2>2, <2>3, <2>4, <2>5, <2>6, <2>7, <2>8, <2>9 DEF Safe
<1>3. CASE CancelAtRunner
  <2>1. /\ sweep.pc = "cancel" /\ sweep' \in Sweeps /\ sweep'.err = sweep.err
        /\ \/ sweep'.pc \in {"idle", "cancel-ack"}
           \/ sweep'.pc = "finish" /\ remote'.state = "cancelled"
        /\ remote' \in Records /\ remote'.gen = remote.gen
        /\ remote.state \in {"cancelled", "imported"} => remote' = remote
        /\ remote.state = "cancel_pending" => remote'.state \in {"cancel_pending", "cancelled"}
        /\ remote'.state = "imported" => remote' = remote
        /\ wire' \subseteq Calls /\ wire' \subseteq wire \cup {"cancel"} /\ troubles' \in 0 .. MaxTroubles
        /\ UNCHANGED <<offer, rec, outbox, place, onDisk, recorded, lease, titleLock, courier, queuer>>
    <3>1. PICK ok \in BOOLEAN : Call("cancel", ok)
      BY <1>3 DEF CancelAtRunner
    <3>2. sweep \in Sweeps /\ {"idle", "cancel-ack", "finish"} \subseteq SweepSteps
      BY <1>0, Steps DEF Typed
    <3>3. /\ remote' \in Records /\ remote'.gen = remote.gen
          /\ remote.state \in {"cancelled", "imported"} => remote' = remote
          /\ remote.state = "cancel_pending" => remote'.state \in {"cancel_pending", "cancelled"}
          /\ remote'.state = "imported" => remote' = remote
          /\ wire' \subseteq Calls /\ wire' \subseteq wire \cup {"cancel"} /\ troubles' \in 0 .. MaxTroubles
      BY <1>0, <3>1, QuietCall DEF Calls
    <3>4. \/ Go("idle") \/ Go("cancel-ack")
          \/ Go("finish") /\ RunnerAfter("cancel").state = "cancelled" /\ Call("cancel", TRUE)
      BY <1>3 DEF CancelAtRunner
    <3>5. Call("cancel", TRUE) => remote' = RunnerAfter("cancel")
      BY DEF Call
    <3> QED
      BY <1>3, <3>2, <3>3, <3>4, <3>5, SweepGo DEF CancelAtRunner
  <2>2. Typed'
    BY <1>0, <2>1 DEF Typed, Holders
  <2>3. Saving'
    BY <1>0, <2>1 DEF Safe, Saving
  <2>4. Locking'
    BY <1>0, <2>1 DEF Safe, Locking, Placing
  <2>5. Running'
    BY <1>0, <2>1 DEF Safe, Running
  <2>6. Generations'
    BY <1>0, <2>1 DEF Safe, Generations, Matches, IdentityMatches
  <2>7. Receipting'
    BY <1>0, <2>1 DEF Safe, Receipting, Matches, IdentityMatches, AllCommitted
  <2>8. Cancelling'
    BY <1>0, <2>1 DEF Safe, Cancelling, Matches, IdentityMatches, PreparedFiles
  <2>9. Journal'
    BY <1>0, <2>1 DEF Safe, Journal
  <2>10. EndsAgree'
    BY <1>0, <2>1 DEF Safe, EndsAgree, AllCommitted, IdentityMatches, PreparedFiles
  <2> QED
    BY <2>2, <2>3, <2>4, <2>5, <2>6, <2>7, <2>8, <2>9, <2>10 DEF Safe
<1>4. CASE AcknowledgeAtRunner
  <2>1. /\ sweep.pc = "cancel-ack" /\ sweep' \in Sweeps /\ sweep'.err = sweep.err
        /\ \/ sweep'.pc = "idle"
           \/ sweep'.pc = "finish" /\ remote'.state = "cancelled"
        /\ remote' \in Records /\ remote'.gen = remote.gen
        /\ remote.state \in {"cancelled", "imported"} => remote' = remote
        /\ remote.state = "cancel_pending" => remote'.state \in {"cancel_pending", "cancelled"}
        /\ remote'.state = "imported" => remote' = remote
        /\ wire' \subseteq Calls /\ wire' \subseteq wire \cup {"cancel-ack"} /\ troubles' \in 0 .. MaxTroubles
        /\ UNCHANGED <<offer, rec, outbox, place, onDisk, recorded, lease, titleLock, courier, queuer>>
    <3>1. PICK ok \in BOOLEAN : Call("cancel-ack", ok)
      BY <1>4 DEF AcknowledgeAtRunner
    <3>2. sweep \in Sweeps /\ {"idle", "finish"} \subseteq SweepSteps
      BY <1>0, Steps DEF Typed
    <3>3. /\ remote' \in Records /\ remote'.gen = remote.gen
          /\ remote.state \in {"cancelled", "imported"} => remote' = remote
          /\ remote.state = "cancel_pending" => remote'.state \in {"cancel_pending", "cancelled"}
          /\ remote'.state = "imported" => remote' = remote
          /\ wire' \subseteq Calls /\ wire' \subseteq wire \cup {"cancel-ack"} /\ troubles' \in 0 .. MaxTroubles
      BY <1>0, <3>1, QuietCall DEF Calls
    <3>4. Go("idle") \/ (Go("finish") /\ Call("cancel-ack", TRUE))
      BY <1>4 DEF AcknowledgeAtRunner
    <3>5. Call("cancel-ack", TRUE) => remote' = RunnerAfter("cancel-ack") /\ RunnerAfter("cancel-ack").state = "cancelled"
      BY DEF Call, Answered
    <3> QED
      BY <1>4, <3>2, <3>3, <3>4, <3>5, SweepGo DEF AcknowledgeAtRunner
  <2>2. Typed'
    BY <1>0, <2>1 DEF Typed, Holders
  <2>3. Saving'
    BY <1>0, <2>1 DEF Safe, Saving
  <2>4. Locking'
    BY <1>0, <2>1 DEF Safe, Locking, Placing
  <2>5. Running'
    BY <1>0, <2>1 DEF Safe, Running
  <2>6. Generations'
    BY <1>0, <2>1 DEF Safe, Generations, Matches, IdentityMatches
  <2>7. Receipting'
    BY <1>0, <2>1 DEF Safe, Receipting, Matches, IdentityMatches, AllCommitted
  <2>8. Cancelling'
    BY <1>0, <2>1 DEF Safe, Cancelling, Matches, IdentityMatches, PreparedFiles
  <2>9. Journal'
    BY <1>0, <2>1 DEF Safe, Journal
  <2>10. EndsAgree'
    BY <1>0, <2>1 DEF Safe, EndsAgree, AllCommitted, IdentityMatches, PreparedFiles
  <2> QED
    BY <2>2, <2>3, <2>4, <2>5, <2>6, <2>7, <2>8, <2>9, <2>10 DEF Safe
<1>5. CASE FinishRecoveryCancellation
  <2>1. /\ sweep.pc = "finish" /\ sweep' \in Sweeps /\ sweep'.err = sweep.err /\ sweep'.pc = "idle"
        /\ rec' \in Rows /\ rec'.gen = rec.gen
        /\ \/ rec' = rec
           \/ rec.state = "cancel_pending" /\ outbox # "delivered" /\ rec'.state = "cancelled"
        /\ UNCHANGED <<offer, outbox, place, onDisk, recorded, lease, titleLock, courier, queuer, remote, wire, troubles>>
    BY <1>0, <1>5, Steps, SweepGo, RowWrites DEF Typed, FinishRecoveryCancellation, LocalStates
  <2>2. Typed'
    BY <1>0, <2>1 DEF Typed, Holders
  <2>3. Locking'
    BY <1>0, <2>1 DEF Safe, Locking, Placing
  <2>4. Running'
    BY <1>0, <2>1 DEF Safe, Running
  <2>5. Saving'
    BY <1>0, <2>1 DEF Safe, Saving
  <2>6. Generations'
    BY <1>0, <2>1 DEF Safe, Generations, Matches, IdentityMatches
  <2>7. Receipting'
    BY <1>0, <2>1 DEF Safe, Receipting, Matches, IdentityMatches, AllCommitted
  <2>8. Cancelling'
    BY <1>0, <2>1 DEF Safe, Cancelling, Matches, IdentityMatches, PreparedFiles
  <2>9. Journal'
    BY <1>0, <2>1 DEF Safe, Journal
  <2>10. EndsAgree'
    BY <1>0, <2>1 DEF Safe, EndsAgree, AllCommitted, IdentityMatches, PreparedFiles, Cancelling, Matches
  <2> QED
    BY <2>2, <2>3, <2>4, <2>5, <2>6, <2>7, <2>8, <2>9, <2>10 DEF Safe
<1>6. CASE LockTitleForRollback
  <2>1. /\ sweep.pc = "rollback" /\ sweep' \in Sweeps /\ sweep'.err = sweep.err
        /\ \/ sweep'.pc = "idle" /\ titleLock' = titleLock
           \/ sweep'.pc = "rolling" /\ sweep'.saw = sweep.saw /\ titleLock = "free" /\ titleLock' = "sweep"
        /\ UNCHANGED <<offer, rec, outbox, place, onDisk, recorded, lease, courier, queuer, remote, wire, troubles>>
    <3>1. sweep \in Sweeps /\ {"idle", "rolling"} \subseteq SweepSteps
      BY <1>0, Steps DEF Typed
    <3> QED
      BY <1>6, <3>1, SweepGo DEF LockTitleForRollback
  <2>2. Typed'
    BY <1>0, <2>1 DEF Typed, Holders
  <2>3. Locking'
    BY <1>0, <2>1 DEF Safe, Locking, Placing
  <2>4. Running'
    BY <1>0, <2>1 DEF Safe, Running
  <2>5. Saving'
    BY <1>0, <2>1 DEF Safe, Saving
  <2>6. Generations'
    BY <1>0, <2>1 DEF Safe, Generations
  <2>7. Receipting'
    BY <1>0, <2>1 DEF Safe, Receipting, Matches, IdentityMatches, AllCommitted, Running
  <2>8. Cancelling'
    BY <1>0, <2>1 DEF Safe, Cancelling, Matches, IdentityMatches, PreparedFiles
  <2>9. Journal'
    BY <1>0, <2>1 DEF Safe, Journal
  <2>10. EndsAgree'
    BY <1>0, <2>1 DEF Safe, EndsAgree, AllCommitted, IdentityMatches, PreparedFiles, Running
  <2> QED
    BY <2>2, <2>3, <2>4, <2>5, <2>6, <2>7, <2>8, <2>9, <2>10 DEF Safe
<1>7. CASE KeepCancellation
  <2>1. /\ sweep.pc = "keep" /\ sweep' \in Sweeps /\ sweep'.pc = "idle" /\ sweep'.err = sweep.err
        /\ rec' \in Rows /\ rec'.state = "cancel_pending" /\ rec'.gen = rec.gen
        /\ UNCHANGED <<offer, outbox, place, onDisk, recorded, lease, titleLock, courier, queuer, remote, wire, troubles>>
    BY <1>0, <1>7, Steps, SweepGo, RowWrites DEF Typed, KeepCancellation, LocalStates
  <2>2. Typed'
    BY <1>0, <2>1 DEF Typed, Holders
  <2>3. Locking'
    BY <1>0, <2>1 DEF Safe, Locking, Placing
  <2>4. Running'
    BY <1>0, <2>1 DEF Safe, Running
  <2>5. Saving'
    BY <1>0, <2>1 DEF Safe, Saving
  <2>6. Generations'
    BY <1>0, <2>1 DEF Safe, Generations
  <2>7. Receipting'
    BY <1>0, <2>1 DEF Safe, Receipting, Matches, IdentityMatches, AllCommitted, Running
  <2>8. Cancelling'
    BY <1>0, <2>1 DEF Safe, Cancelling, Matches, IdentityMatches, PreparedFiles
  <2>9. Journal'
    BY <1>0, <2>1 DEF Safe, Journal
  <2>10. EndsAgree'
    BY <1>0, <2>1 DEF Safe, EndsAgree, AllCommitted, IdentityMatches, PreparedFiles, Running
  <2> QED
    BY <2>2, <2>3, <2>4, <2>5, <2>6, <2>7, <2>8, <2>9, <2>10 DEF Safe
<1> QED
  BY <1>1, <1>2, <1>3, <1>4, <1>5, <1>6, <1>7 DEF CancellationStep

\* The delivery of a receipt.
LEMMA DeliverStepKeeps == ASSUME RecoveryInv, DeliverStep PROVE RecoveryInv'
<1>0. Typed /\ Safe
  BY InvParts
<1> SUFFICES Typed' /\ Safe'
  BY InvPartsPrimed
<1>1. CASE PostReceipt
  <2>1. /\ rec.state = "receipt_pending" /\ courier = "idle"
        /\ remote' \in Records /\ remote'.gen = remote.gen
        /\ remote.state \in {"cancelled", "imported"} => remote' = remote
        /\ remote.state = "cancel_pending" => remote'.state \in {"cancel_pending", "cancelled"}
        /\ wire' \subseteq Calls /\ troubles' \in 0 .. MaxTroubles
        /\ courier' = "refused" \/ (courier' = "accepted" /\ remote'.state = "imported")
        /\ UNCHANGED <<offer, rec, outbox, place, onDisk, recorded, lease, titleLock, sweep, queuer>>
    <3>1. PICK ok \in BOOLEAN : Call("receipt", ok) /\ courier' = (IF ok THEN "accepted" ELSE "refused")
      BY <1>1 DEF PostReceipt
    <3>2. "receipt" \in Calls /\ remote \in Records /\ RecoveryTypeOK
      BY <1>0, TypedIsTypeOK DEF Calls, Typed
    <3>3. /\ remote' \in {remote, RunnerAfter("receipt")}
          /\ remote' \in Records /\ remote'.gen = remote.gen
          /\ wire' \subseteq Calls /\ troubles' \in 0 .. MaxTroubles
          /\ ok => remote' = RunnerAfter("receipt") /\ Answered("receipt")
      BY <3>1, <3>2, CallFacts
    <3>4. ok => remote'.state = "imported"
      BY <3>3 DEF Answered
    <3>5. /\ remote.state \in {"cancelled", "imported"} => RunnerAfter("receipt") = remote
          /\ remote.state = "cancel_pending" => RunnerAfter("receipt").state \in {"cancel_pending", "cancelled"}
      BY <3>2, RunnerAfterFacts
    <3> QED
      BY <1>1, <3>1, <3>3, <3>4, <3>5 DEF PostReceipt
  <2>2. Typed'
    BY <1>0, <2>1 DEF Typed, Holders
  <2>3. Locking' /\ Saving' /\ Journal'
    BY <1>0, <2>1 DEF Safe, Locking, Placing, Saving, Journal
  <2>4. Running'
    BY <1>0, <2>1 DEF Safe, Running
  <2>5. Generations'
    BY <1>0, <2>1 DEF Safe, Generations, Matches, IdentityMatches
  <2>6. Receipting'
    BY <1>0, <2>1 DEF Safe, Receipting, Matches, IdentityMatches, AllCommitted
  <2>7. Cancelling'
    BY <1>0, <2>1 DEF Safe, Cancelling, Matches, IdentityMatches, PreparedFiles
  <2>8. EndsAgree'
    BY <1>0, <2>1 DEF Safe, EndsAgree, AllCommitted, IdentityMatches, PreparedFiles, Receipting
  <2> QED
    BY <2>2, <2>3, <2>4, <2>5, <2>6, <2>7, <2>8 DEF Safe
<1>2. CASE AcceptReceipt
  <2>1. /\ courier = "accepted" /\ courier' = "idle" /\ rec' \in Rows /\ rec'.gen = rec.gen
        /\ \/ rec' = rec /\ outbox' = outbox
           \/ rec.state = "receipt_pending" /\ rec'.state = "imported" /\ outbox' = "delivered"
        /\ UNCHANGED <<offer, place, onDisk, recorded, lease, titleLock, sweep, queuer, remote, wire, troubles>>
    <3>1. rec \in Rows /\ "imported" \in LocalStates
      BY <1>0 DEF Typed, LocalStates
    <3>2. CASE rec.state = "receipt_pending" /\ outbox = "pending"
      <4>1. rec' = [rec EXCEPT !.state = "imported"] /\ outbox' = "delivered"
        BY <1>2, <3>2 DEF AcceptReceipt
      <4>2. rec' \in Rows /\ rec'.state = "imported" /\ rec'.gen = rec.gen
        BY <3>1, <4>1, RowWrites
      <4> QED
        BY <1>2, <3>2, <4>1, <4>2 DEF AcceptReceipt
    <3>3. CASE ~(rec.state = "receipt_pending" /\ outbox = "pending")
      BY <1>2, <3>1, <3>3 DEF AcceptReceipt
    <3> QED
      BY <3>2, <3>3
  <2>2. Typed'
    BY <1>0, <2>1 DEF Typed, Holders
  <2>3. Locking' /\ Journal'
    BY <1>0, <2>1 DEF Safe, Locking, Placing, Journal
  <2>4. Running'
    BY <1>0, <2>1 DEF Safe, Running
  <2>5. Saving'
    BY <1>0, <2>1 DEF Safe, Saving
  <2>6. Generations'
    BY <1>0, <2>1 DEF Safe, Generations, Matches, IdentityMatches
  <2>7. Receipting'
    BY <1>0, <2>1 DEF Safe, Receipting, Matches, IdentityMatches, AllCommitted
  <2>8. Cancelling'
    BY <1>0, <2>1 DEF Safe, Cancelling, Matches, IdentityMatches, PreparedFiles
  <2>9. EndsAgree'
    BY <1>0, <2>1 DEF Safe, EndsAgree, AllCommitted, IdentityMatches, PreparedFiles, Receipting, Matches
  <2> QED
    BY <2>2, <2>3, <2>4, <2>5, <2>6, <2>7, <2>8, <2>9 DEF Safe
<1>3. CASE ReconcileReceiptCancellation
  <2>1. /\ courier = "refused" /\ courier' = "idle" /\ rec' \in Rows /\ rec'.gen = rec.gen
        /\ \/ rec' = rec
           \/ /\ rec.state = "receipt_pending" /\ rec'.state = "cancel_pending" /\ outbox = "pending"
              /\ remote.state \in {"cancel_pending", "cancelled"}
        /\ UNCHANGED <<offer, outbox, place, onDisk, recorded, lease, titleLock, sweep, queuer, remote, wire, troubles>>
    <3>1. rec \in Rows /\ "cancel_pending" \in LocalStates
      BY <1>0 DEF Typed, LocalStates
    <3>2. CASE /\ rec' = [rec EXCEPT !.state = "cancel_pending"]
               /\ rec.state = "receipt_pending" /\ outbox = "pending" /\ remote.state \in {"cancel_pending", "cancelled"}
      <4>1. rec' \in Rows /\ rec'.state = "cancel_pending" /\ rec'.gen = rec.gen
        BY <3>1, <3>2, RowWrites
      <4> QED
        BY <1>3, <3>2, <4>1 DEF ReconcileReceiptCancellation
    <3>3. CASE rec' = rec
      BY <1>3, <3>1, <3>3 DEF ReconcileReceiptCancellation
    <3> QED
      BY <1>3, <3>2, <3>3 DEF ReconcileReceiptCancellation
  <2>2. Typed'
    BY <1>0, <2>1 DEF Typed, Holders
  <2>3. Locking' /\ Journal'
    BY <1>0, <2>1 DEF Safe, Locking, Placing, Journal
  <2>4. Running'
    BY <1>0, <2>1 DEF Safe, Running
  <2>5. Saving'
    BY <1>0, <2>1 DEF Safe, Saving
  <2>6. Generations'
    BY <1>0, <2>1 DEF Safe, Generations, Matches, IdentityMatches
  <2>7. Receipting'
    BY <1>0, <2>1 DEF Safe, Receipting, Matches, IdentityMatches, AllCommitted
  <2>8. Cancelling'
    BY <1>0, <2>1 DEF Safe, Cancelling, Matches, IdentityMatches, PreparedFiles
  <2>9. EndsAgree'
    BY <1>0, <2>1 DEF Safe, EndsAgree, AllCommitted, IdentityMatches, PreparedFiles
  <2> QED
    BY <2>2, <2>3, <2>4, <2>5, <2>6, <2>7, <2>8, <2>9 DEF Safe
<1> QED
  BY <1>1, <1>2, <1>3 DEF DeliverStep

\* The world, and a restart.
LEMMA WorldStepKeeps == ASSUME RecoveryInv, WorldStep PROVE RecoveryInv'
<1>0. Typed /\ Safe
  BY InvParts
<1> SUFFICES Typed' /\ Safe'
  BY InvPartsPrimed
<1>1. CASE RunnerActs
  <2>1. /\ remote' \in Records /\ troubles' \in 0 .. MaxTroubles
        /\ \/ /\ remote'.gen = remote.gen /\ wire' = wire /\ remote.state \in {"published", "claimed"}
              /\ remote'.state \in {"cancel_pending", "cancelled", "claimed"}
           \/ remote'.gen = remote.gen + 1 /\ wire' = {} /\ remote'.state = "published"
        /\ UNCHANGED <<offer, rec, outbox, place, onDisk, recorded, lease, titleLock, sweep, courier, queuer>>
    <3>1. remote \in Records /\ troubles \in 0 .. MaxTroubles
      BY <1>0 DEF Typed
    <3>2. troubles' \in 0 .. MaxTroubles
      BY <1>1, <3>1, RecoveryAssumption DEF RunnerActs, Trouble
    <3> DEFINE cancels == IF remote.state = "claimed" THEN "cancel_pending" ELSE "cancelled"
               other == "other"
               claimed == "claimed"
    <3>3. cancels \in RunnerStates /\ claimed \in RunnerStates /\ other \in {"none", "us", "other"}
      BY DEF RunnerStates
    <3>4. remote.state \in {"published", "claimed"} /\ remote' = [remote EXCEPT !.state = cancels]
            => remote' \in Records /\ remote'.gen = remote.gen /\ remote'.state = cancels
      <4> HIDE DEF cancels
      <4> QED
        BY <3>1, <3>3 DEF Records
    <3>5. remote' = [remote EXCEPT !.state = claimed, !.owner = other]
            => remote' \in Records /\ remote'.gen = remote.gen /\ remote'.state = claimed
      <4> HIDE DEF claimed, other
      <4> QED
        BY <3>1, <3>3 DEF Records
    <3>6. remote' = [state |-> "published", owner |-> "none", gen |-> remote.gen + 1]
            => remote' \in Records /\ remote'.gen = remote.gen + 1 /\ remote'.state = "published" /\ remote'.gen # remote.gen
      BY <3>1 DEF Records, RunnerStates
    <3>7. \/ remote.state \in {"published", "claimed"} /\ remote' = [remote EXCEPT !.state = cancels]
          \/ remote.state = "published" /\ remote' = [remote EXCEPT !.state = claimed, !.owner = other]
          \/ remote' = [state |-> "published", owner |-> "none", gen |-> remote.gen + 1]
      BY <1>1 DEF RunnerActs
    <3>8. wire' = IF remote'.gen = remote.gen THEN wire ELSE {}
      BY <1>1 DEF RunnerActs
    <3> QED
      BY <1>1, <3>2, <3>4, <3>5, <3>6, <3>7, <3>8 DEF RunnerActs
  <2>2. Typed'
    BY <1>0, <2>1 DEF Typed, Holders
  <2>3. Locking' /\ Running' /\ Saving' /\ Journal'
    BY <1>0, <2>1 DEF Safe, Locking, Placing, Running, Saving, Journal
  <2>4. Generations'
    BY <1>0, <2>1 DEF Safe, Generations, Typed, Rows, Offers, Queuers, Records
  <2>5. Receipting'
    BY <1>0, <2>1 DEF Safe, Receipting, Matches, IdentityMatches, AllCommitted, Generations, Typed, Rows, Records
  <2>6. Cancelling'
    BY <1>0, <2>1 DEF Safe, Cancelling, Matches, IdentityMatches, PreparedFiles, Generations, Typed, Rows, Records
  <2>7. EndsAgree'
    BY <1>0, <2>1 DEF Safe, EndsAgree, AllCommitted, IdentityMatches, PreparedFiles, Generations, Typed, Rows, Records
  <2> QED
    BY <2>2, <2>3, <2>4, <2>5, <2>6, <2>7 DEF Safe
<1>2. CASE TitleEdited
  <2>1. /\ lease' \in Nat /\ troubles' \in 0 .. MaxTroubles /\ recorded' \subseteq StagedFiles
        /\ UNCHANGED <<offer, rec, outbox, place, onDisk, titleLock, sweep, courier, queuer, remote, wire>>
    BY <1>0, <1>2, RecoveryAssumption DEF Typed, TitleEdited, Trouble
  <2>2. Typed'
    BY <1>0, <2>1 DEF Typed, Holders
  <2>3. Locking' /\ Running' /\ Saving' /\ Generations' /\ Receipting' /\ Cancelling' /\ Journal' /\ EndsAgree'
    BY <1>0, <2>1 DEF Safe, Locking, Placing, Running, Saving, Generations, Matches, IdentityMatches, Receipting, AllCommitted, Cancelling, PreparedFiles, Journal, EndsAgree
  <2> QED
    BY <2>2, <2>3 DEF Safe
<1>3. CASE OtherImport
  <2>1. /\ lease' \in Nat /\ troubles' \in 0 .. MaxTroubles
        /\ \/ titleLock = "free" /\ titleLock' = "other"
           \/ titleLock = "other" /\ titleLock' = "free"
        /\ UNCHANGED <<offer, rec, outbox, place, onDisk, recorded, sweep, courier, queuer, remote, wire>>
    BY <1>0, <1>3, RecoveryAssumption DEF Typed, OtherImport, Trouble
  <2>2. Typed'
    BY <1>0, <2>1 DEF Typed, Holders
  <2>3. Running' /\ Saving' /\ Generations' /\ Receipting' /\ Cancelling' /\ Journal' /\ EndsAgree'
    BY <1>0, <2>1 DEF Safe, Running, Saving, Generations, Matches, IdentityMatches, Receipting, AllCommitted, Cancelling, PreparedFiles, Journal, EndsAgree
  <2>4. Locking'
    BY <1>0, <2>1 DEF Safe, Locking, Placing
  <2> QED
    BY <2>2, <2>3, <2>4 DEF Safe
<1>4. CASE ProcessEnds
  <2>1. /\ troubles' \in 0 .. MaxTroubles /\ titleLock' = "sweep" /\ courier' = "idle"
        /\ sweep' \in Sweeps /\ sweep'.pc = "down" /\ ~sweep'.err
        /\ queuer' \in Queuers /\ queuer'.pc = "idle" /\ queuer'.want.gen = 0
        /\ UNCHANGED <<offer, rec, outbox, place, onDisk, recorded, lease, remote, wire>>
    <3>1. troubles' \in 0 .. MaxTroubles
      BY <1>0, <1>4, RecoveryAssumption DEF ProcessEnds, Trouble, Typed
    <3>2. sweep' \in Sweeps /\ sweep'.pc = "down" /\ ~sweep'.err
      BY <1>4, Steps, RestingSweep DEF ProcessEnds
    <3>3. queuer' \in Queuers /\ queuer'.pc = "idle" /\ queuer'.want.gen = 0
      BY <1>0, <1>4, Blanks DEF ProcessEnds, Typed
    <3> QED
      BY <1>4, <3>1, <3>2, <3>3 DEF ProcessEnds
  <2>2. Typed'
    BY <1>0, <2>1 DEF Typed, Holders
  <2>3. Generations' /\ EndsAgree'
    BY <1>0, <2>1 DEF Safe, Generations, Typed, Records, IdentityMatches, EndsAgree, AllCommitted, PreparedFiles
  <2>4. Locking'
    BY <1>0, <2>1 DEF Safe, Locking, Placing
  <2>5. Running'
    BY <1>0, <2>1 DEF Safe, Running
  <2>6. Saving'
    BY <1>0, <2>1 DEF Safe, Saving
  <2>7. Receipting'
    BY <1>0, <2>1 DEF Safe, Receipting, Matches, IdentityMatches, AllCommitted
  <2>8. Cancelling'
    BY <1>0, <2>1 DEF Safe, Cancelling, Matches, IdentityMatches, PreparedFiles
  <2>9. Journal'
    BY <1>0, <2>1 DEF Safe, Journal
  <2> QED
    BY <2>2, <2>3, <2>4, <2>5, <2>6, <2>7, <2>8, <2>9 DEF Safe
<1>5. CASE WorkersStart
  <2>1. /\ sweep.pc = "down" /\ titleLock' = "free"
        /\ sweep' \in Sweeps /\ sweep'.pc = "idle" /\ ~sweep'.err
        /\ UNCHANGED <<offer, rec, outbox, place, onDisk, recorded, lease, courier, queuer, remote, wire, troubles>>
    BY <1>0, <1>5, Steps, RestingSweep DEF Typed, WorkersStart
  <2>2. Typed'
    BY <1>0, <2>1 DEF Typed, Holders
  <2>3. Saving' /\ Generations' /\ Receipting' /\ EndsAgree'
    BY <1>0, <2>1 DEF Safe, Saving, Generations, Matches, IdentityMatches, Receipting, AllCommitted, EndsAgree, PreparedFiles
  <2>4. Locking'
    BY <1>0, <2>1 DEF Safe, Locking, Placing
  <2>5. Running'
    BY <1>0, <2>1 DEF Safe, Running
  <2>6. Cancelling'
    BY <1>0, <2>1 DEF Safe, Cancelling, Matches, IdentityMatches, PreparedFiles
  <2>7. Journal'
    BY <1>0, <2>1 DEF Safe, Journal
  <2> QED
    BY <2>2, <2>3, <2>4, <2>5, <2>6, <2>7 DEF Safe
<1>6. ASSUME NEW f \in Calls, LateCall(f) PROVE Typed' /\ Safe'
  <2>1. /\ remote' \in Records /\ remote'.gen = remote.gen
        /\ remote.state \in {"cancelled", "imported"} => remote' = remote
        /\ remote.state = "cancel_pending" => remote'.state \in {"cancel_pending", "cancelled"}
        /\ remote'.state = "imported" => remote' = remote \/ ("receipt" \in wire /\ remote.state = "claimed")
        /\ wire' \subseteq wire
        /\ UNCHANGED <<offer, rec, outbox, place, onDisk, recorded, lease, titleLock, sweep, courier, queuer, troubles>>
    BY <1>0, <1>6, RunnerAfterFacts DEF Typed, LateCall
  <2>2. Typed'
    BY <1>0, <2>1 DEF Typed, Holders
  <2>3. Locking' /\ Running' /\ Saving' /\ Journal'
    BY <1>0, <2>1 DEF Safe, Locking, Placing, Running, Saving, Journal
  <2>4. Generations'
    BY <1>0, <2>1 DEF Safe, Generations, Matches, IdentityMatches
  <2>5. Receipting'
    BY <1>0, <2>1 DEF Safe, Receipting, Matches, IdentityMatches, AllCommitted
  <2>6. Cancelling'
    BY <1>0, <2>1 DEF Safe, Cancelling, Matches, IdentityMatches, PreparedFiles
  <2>7. EndsAgree'
    BY <1>0, <2>1 DEF Safe, EndsAgree, AllCommitted, IdentityMatches, PreparedFiles, Receipting
  <2> QED
    BY <2>2, <2>3, <2>4, <2>5, <2>6, <2>7 DEF Safe
<1>7. ASSUME NEW f \in StagedFiles, FileTouched(f) PROVE Typed' /\ Safe'
  <2>1. /\ troubles' \in 0 .. MaxTroubles /\ onDisk' \in Trees
        /\ onDisk'[f] # "new"
        /\ \A g \in StagedFiles \ {f} : onDisk'[g] = onDisk[g]
        /\ UNCHANGED <<offer, rec, outbox, place, recorded, lease, titleLock, sweep, courier, queuer, remote, wire>>
    <3>1. troubles' \in 0 .. MaxTroubles
      BY <1>0, <1>7, RecoveryAssumption DEF FileTouched, Trouble, Typed
    <3>2. PICK b \in {"none", "foreign"} : onDisk' = [onDisk EXCEPT ![f] = b]
      BY <1>7 DEF FileTouched
    <3>3. onDisk \in Trees /\ b \in BytesAt
      BY <1>0 DEF Typed, BytesAt
    <3>4. onDisk' \in Trees /\ onDisk'[f] = b /\ \A g \in StagedFiles \ {f} : onDisk'[g] = onDisk[g]
      BY <3>2, <3>3, DiskWrites
    <3> QED
      BY <1>7, <3>1, <3>2, <3>4 DEF FileTouched
  <2>2. Typed'
    BY <1>0, <2>1 DEF Typed, Holders
  <2>3. Locking' /\ Running' /\ Saving' /\ Generations' /\ Receipting' /\ Cancelling'
    BY <1>0, <2>1 DEF Safe, Locking, Placing, Running, Saving, Generations, Matches, IdentityMatches, Receipting, AllCommitted, Cancelling, PreparedFiles
  <2>4. Journal'
    BY <1>0, <2>1 DEF Safe, Journal
  <2>5. EndsAgree'
    BY <1>0, <2>1 DEF Safe, EndsAgree, AllCommitted, IdentityMatches, PreparedFiles
  <2> QED
    BY <2>2, <2>3, <2>4, <2>5 DEF Safe
<1>8. ASSUME NEW f \in StagedFiles, ReconcilePlacement(f) PROVE Typed' /\ Safe'
  <2>1. /\ sweep.pc = "down" /\ sweep' \in Sweeps /\ sweep'.pc = sweep.pc /\ sweep'.err = sweep.err
        /\ place' \in Journals /\ onDisk' \in Trees /\ lease' \in Nat /\ rec' \in Rows
        /\ recorded' \subseteq StagedFiles
        /\ rec'.state = rec.state /\ rec'.gen = rec.gen
        /\ place[f].state = "prepared"
        /\ \/ place' = place /\ onDisk' = onDisk
           \/ /\ place'[f].state = "rolled_back" /\ onDisk'[f] = place[f].prev
              /\ \A g \in StagedFiles \ {f} : place'[g] = place[g] /\ onDisk'[g] = onDisk[g]
           \/ /\ place'[f].state = "committed" /\ onDisk' = onDisk
              /\ \A g \in StagedFiles \ {f} : place'[g] = place[g]
        /\ UNCHANGED <<offer, outbox, titleLock, courier, queuer, remote, wire, troubles>>
    <3>1. /\ sweep \in Sweeps /\ place \in Journals /\ onDisk \in Trees /\ rec \in Rows
          /\ lease \in Nat /\ lease + 1 \in Nat /\ recorded \subseteq StagedFiles
      BY <1>0 DEF Typed
    <3>2. sweep.pc = "down" /\ f \in PreparedFiles /\ place[f].state = "prepared"
      BY <1>8 DEF ReconcilePlacement, PreparedFiles
    <3>3. sweep' \in Sweeps /\ sweep'.pc = sweep.pc /\ sweep'.err = sweep.err
      BY <1>8, <3>1, SweepTries DEF ReconcilePlacement
    <3>4. CASE RollBack(f) /\ UNCHANGED <<lease, rec, recorded>>
      BY <1>0, <1>8, <3>1, <3>2, <3>3, <3>4, RollBackFacts DEF ReconcilePlacement
    <3>5. CASE UNCHANGED <<place, onDisk, lease, rec, recorded>>
      BY <1>8, <3>1, <3>2, <3>3, <3>5 DEF ReconcilePlacement
    <3>6. CASE CommitStep(f) /\ UNCHANGED onDisk
      <4>1. /\ place' \in Journals /\ place'[f].state = "committed"
            /\ \A g \in StagedFiles \ {f} : place'[g] = place[g]
        BY <3>1, <3>6, EntryWrites DEF CommitStep
      <4>2. lease' \in Nat /\ rec' \in Rows /\ rec'.state = rec.state /\ rec'.gen = rec.gen
        BY <3>1, <3>6, RowAccepts DEF CommitStep
      <4>3. recorded' \subseteq StagedFiles
        BY <3>1, <3>6 DEF CommitStep
      <4> QED
        BY <1>8, <3>1, <3>2, <3>3, <3>6, <4>1, <4>2, <4>3 DEF ReconcilePlacement
    <3> QED
      BY <1>8, <3>4, <3>5, <3>6 DEF ReconcilePlacement
  <2>2. Typed'
    BY <1>0, <2>1 DEF Typed, Holders
  <2>3. Locking'
    BY <1>0, <2>1 DEF Safe, Locking, Placing
  <2>4. Running'
    BY <1>0, <2>1 DEF Safe, Running
  <2>5. Saving'
    BY <1>0, <2>1 DEF Safe, Saving
  <2>6. Generations'
    BY <1>0, <2>1 DEF Safe, Generations, Matches, IdentityMatches
  <2>7. Receipting'
    BY <1>0, <2>1 DEF Safe, Receipting, Matches, IdentityMatches, AllCommitted
  <2>8. Cancelling'
    BY <1>0, <2>1 DEF Safe, Cancelling, Matches, IdentityMatches, PreparedFiles
  <2>9. Journal'
    BY <1>0, <2>1 DEF Safe, Journal
  <2>10. EndsAgree'
    BY <1>0, <2>1 DEF Safe, EndsAgree, AllCommitted, IdentityMatches, PreparedFiles, Journal
  <2> QED
    BY <2>2, <2>3, <2>4, <2>5, <2>6, <2>7, <2>8, <2>9, <2>10 DEF Safe
<1> QED
  BY <1>1, <1>2, <1>3, <1>4, <1>5, <1>6, <1>7, <1>8 DEF WorldStep

LEMMA StepKeeps == RecoveryInv /\ [RecoveryNext]_recoveryVars => RecoveryInv'
<1> SUFFICES ASSUME RecoveryInv, [RecoveryNext]_recoveryVars PROVE RecoveryInv'
  OBVIOUS
<1>1. CASE RecoveryNext
  BY <1>1, RequestStepKeeps, RunStepKeeps, CancellationStepKeeps, DeliverStepKeeps, WorldStepKeeps DEF RecoveryNext
<1>2. CASE UNCHANGED recoveryVars
  <2>1. Typed /\ Safe
    BY InvParts
  <2>2. Typed'
    BY <1>2, <2>1 DEF Typed, recoveryVars
  <2>3. Safe'
    BY <1>2, <2>1 DEF Safe, recoveryVars, Locking, Running, Saving, Generations, Receipting, Cancelling, Journal,
                      EndsAgree, Matches, IdentityMatches, AllCommitted, PreparedFiles
  <2> QED
    BY <2>2, <2>3, InvPartsPrimed
<1> QED
  BY <1>1, <1>2

LEMMA InitHolds == RecoveryInit => RecoveryInv
<1> SUFFICES ASSUME RecoveryInit PROVE Typed /\ Safe
  BY InvParts
<1>1. onDisk \in Trees /\ \A f \in StagedFiles : onDisk[f] # "new" /\ place[f].state = "none"
  <2>1. PICK kept \in [StagedFiles \ recorded -> {"none", "foreign"}] :
          onDisk = [f \in StagedFiles |-> IF f \in recorded THEN "old" ELSE kept[f]]
    BY DEF RecoveryInit
  <2>2. \A f \in StagedFiles \ recorded : kept[f] \in {"none", "foreign"}
    OBVIOUS
  <2>3. \A f \in StagedFiles : onDisk[f] \in {"none", "old", "foreign"}
    BY <2>1, <2>2
  <2>4. onDisk = [f \in StagedFiles |-> onDisk[f]]
    BY <2>1
  <2>5. onDisk \in Trees
    BY <2>3, <2>4 DEF Trees, BytesAt
  <2> QED
    BY <2>3, <2>5 DEF RecoveryInit, Unplaced
<1>2. recorded \subseteq StagedFiles
  BY DEF RecoveryInit
<1>3. rec \in Rows /\ rec.state = "none" /\ rec.gen = 0
  BY <1>1, Blanks DEF RecoveryInit
<1>4. offer \in Offers /\ offer.gen = 0
  BY <1>1, Blanks DEF RecoveryInit
<1>5. sweep \in Sweeps /\ sweep.pc = "idle" /\ ~sweep.err
  BY Steps, RestingSweep DEF RecoveryInit
<1>6. queuer \in Queuers /\ queuer.pc = "idle" /\ queuer.want.gen = 0
  BY <1>1, Blanks DEF RecoveryInit
<1>7. remote \in Records /\ remote.gen = 1 /\ remote.state = "published"
  BY DEF RecoveryInit, Records, RunnerStates
<1>8. place \in Journals
  BY DEF RecoveryInit, Journals, Entries, Unplaced, BytesAt
<1>9. outbox = "none" /\ lease = 0 /\ titleLock = "free" /\ courier = "idle" /\ wire = {} /\ troubles = 0
  BY DEF RecoveryInit
<1>10. 0 \in 0 .. MaxTroubles
  BY RecoveryAssumption
<1>11. Typed
  BY <1>1, <1>2, <1>3, <1>4, <1>5, <1>6, <1>7, <1>8, <1>9, <1>10 DEF Typed, Holders
<1>12. Locking /\ Running /\ Saving /\ Generations
  BY <1>3, <1>4, <1>5, <1>6, <1>7, <1>9 DEF Locking, Running, Saving, Generations, Placing
<1>13. Receipting /\ Cancelling /\ Journal /\ EndsAgree
  BY <1>1, <1>3, <1>5, <1>7, <1>9 DEF Receipting, Cancelling, Journal, EndsAgree, Matches, IdentityMatches,
     AllCommitted, PreparedFiles
<1> QED
  BY <1>11, <1>12, <1>13 DEF Safe

\* The inductive invariant: the title's lock, the run's hold on its row, the
\* Runner's final states and the journal, together.
THEOREM RecoveryIsSafe == RecoverySpec => []RecoveryInv
BY InitHolds, StepKeeps, PTL DEF RecoverySpec

\* Every table and thread of a recovery hand-off keeps its type.
THEOREM TypeCorrect == RecoverySpec => []RecoveryTypeOK
<1>1. RecoveryInv => RecoveryTypeOK
  BY DEF RecoveryInv
<1> QED
  BY <1>1, RecoveryIsSafe, PTL

\* The Runner, the row, the outbox, the journal and the disk end in the same
\* place, whatever calls were lost or late, whichever side cancelled and
\* wherever the process ended (runRecovery, ackRecoveryCancel,
\* deliverRecoveryReceipts, reconcilePlacements).
THEOREM EndsMeet == RecoverySpec => []EndsAgree
<1>1. RecoveryInv => EndsAgree
  BY DEF RecoveryInv
<1> QED
  BY <1>1, RecoveryIsSafe, PTL

----------------------------------------------------------------------------
(* What a publication may replace *)

\* The revision that a row accepts is not ahead of the title's.  Staged bytes
\* that are in place were published, and while the accepted revision is
\* current nothing but a recorded file has bytes to be replaced.
Reviewing ==
    /\ rec.accepted <= lease /\ queuer.read.accepted <= lease
    /\ \A f \in StagedFiles :
         onDisk[f] = "new" \/ place[f].state = "committed" => place[f].published
    /\ sweep.pc = "commit" => place[sweep.file].published
    /\ sweep.pc = "publish" /\ lease = rec.accepted /\ sweep.file \notin recorded =>
         place[sweep.file].published \/ place[sweep.file].prev = "none"

\* What OnlyReviewedReplaced asks of a step.
Replaced ==
  \A f \in StagedFiles :
    onDisk[f] \in {"old", "foreign"} /\ onDisk'[f] = "new" =>
      f \in recorded /\ rec.snap[f] = onDisk[f] /\ rec.accepted = lease

\* A step that leaves the files and the revisions alone, and does not come to
\* a publication.
Quiet ==
  /\ UNCHANGED <<place, onDisk, recorded, lease>>
  /\ \/ rec'.accepted = rec.accepted
     \/ rec'.accepted \in {lease, queuer.read.accepted} /\ sweep.pc # "publish"
  /\ queuer'.read.accepted \in {0, lease, queuer.read.accepted}
  /\ sweep'.pc \in {"publish", "commit"} => sweep'.pc = sweep.pc /\ sweep'.file = sweep.file

LEMMA QuietKeeps == ASSUME Typed, Reviewing, Quiet PROVE Reviewing' /\ Replaced
<1>1. lease \in Nat /\ queuer.read.accepted \in Nat
  BY DEF Typed, Queuers, Rows
<1>2. Replaced
  BY DEF Quiet, Replaced
<1>3. Reviewing'
  BY <1>1 DEF Quiet, Reviewing
<1> QED
  BY <1>2, <1>3

\* The requests, and the receipts.
LEMMA RequestReviews == ASSUME RecoveryInv, Reviewing, RequestStep \/ DeliverStep PROVE Reviewing' /\ Replaced
<1>0. Typed /\ Safe /\ Reviewing
  BY InvParts
<1>1. \A state \in LocalStates : [rec EXCEPT !.state = state].accepted = rec.accepted
  BY <1>0, RowWrites DEF Typed
<1>2. {"cancel_pending", "imported"} \subseteq LocalStates
  BY DEF LocalStates
<1>3. queuer.pc # "idle" => sweep.pc # "publish"
  BY <1>0 DEF Safe, Locking, Placing
<1>4. NoRequest.read.accepted = 0
  BY <1>0, Blanks DEF Typed
<1>5. CASE StartRecoveryPreview \/ RecoveryPreviewSweep
  BY <1>0, <1>5, QuietKeeps DEF StartRecoveryPreview, RecoveryPreviewSweep, Quiet
<1>6. CASE QueueLock
  <2> DEFINE insert == "insert"
  <2>1. queuer \in Queuers /\ queuer' = [queuer EXCEPT !.pc = insert, !.want = offer]
    BY <1>0, <1>6 DEF Typed, QueueLock
  <2> HIDE DEF insert
  <2>2. queuer'.read = queuer.read
    BY <2>1 DEF Queuers
  <2> QED
    BY <1>0, <1>6, <2>2, QuietKeeps DEF QueueLock, Quiet
<1>7. CASE QueueInsert
  <2>a. queuer \in Queuers /\ queuer.pc = "insert" /\ queuer.want \in Offers
    BY <1>0, <1>7 DEF Typed, QueueInsert, Queuers
  <2>b. queuer.want.gen \in Nat
    BY <2>a DEF Offers
  <2>c. rec \in Rows /\ lease \in Nat /\ Shelf \in Shelves
    BY <1>0, Blanks DEF Typed
  <2>1. /\ queuer \in Queuers /\ queuer.pc = "insert"
        /\ Accepted(rec).accepted = lease /\ [Accepted(rec) EXCEPT !.gen = queuer.want.gen].accepted = lease
    BY <2>a, <2>b, <2>c, AcceptedRow
  <2>2. /\ \/ queuer' = NoRequest
           \/ queuer' = [queuer EXCEPT !.pc = "save", !.read = Accepted(rec)]
        /\ rec' = rec \/ rec' = [Accepted(rec) EXCEPT !.gen = queuer.want.gen]
        /\ UNCHANGED <<sweep, place, onDisk, recorded, lease>>
    BY <1>7 DEF QueueInsert, QueueDone
  <2> DEFINE save == "save"
             row == Accepted(rec)
  <2>3. queuer' = [queuer EXCEPT !.pc = save, !.read = row] => queuer'.read = row
    <3> HIDE DEF save, row
    <3> QED
      BY <2>1 DEF Queuers
  <2>4. queuer'.read.accepted \in {0, lease}
    BY <1>4, <2>1, <2>2, <2>3
  <2> QED
    BY <1>0, <1>3, <2>1, <2>2, <2>4, QuietKeeps DEF Quiet
<1>8. CASE QueueSave
  BY <1>0, <1>3, <1>4, <1>8, QuietKeeps DEF QueueSave, QueueDone, Quiet
<1>9. CASE CancelRecoveryImport
  <2>1. sweep' = [sweep EXCEPT !.stop = sweep.pc \in {"start", "lock"} \cup Placing]
    BY <1>9 DEF CancelRecoveryImport
  <2>2. sweep'.pc = sweep.pc /\ sweep'.file = sweep.file
    BY <1>0, <2>1, SweepStops DEF Typed
  <2> QED
    BY <1>0, <1>1, <1>2, <1>9, <2>2, QuietKeeps DEF CancelRecoveryImport, Quiet
<1>10. CASE PostReceipt
  BY <1>0, <1>10, QuietKeeps DEF PostReceipt, Quiet
<1>11. CASE AcceptReceipt
  BY <1>0, <1>1, <1>2, <1>11, QuietKeeps DEF AcceptReceipt, Quiet
<1>12. CASE ReconcileReceiptCancellation
  BY <1>0, <1>1, <1>2, <1>12, QuietKeeps DEF ReconcileReceiptCancellation, Quiet
<1> QED
  BY <1>5, <1>6, <1>7, <1>8, <1>9, <1>10, <1>11, <1>12 DEF RequestStep, DeliverStep

\* Preparing, publishing and committing a file.
LEMMA FileReviews == ASSUME RecoveryInv, Reviewing, FileStep PROVE Reviewing' /\ Replaced
<1>0. Typed /\ Safe /\ Reviewing
  BY InvParts
<1>1. sweep \in Sweeps /\ place \in Journals /\ onDisk \in Trees /\ rec \in Rows /\ lease \in Nat
  BY <1>0 DEF Typed
<1>2. GiveUp => sweep'.pc = "settle"
  BY <1>1, SweepGivesUp
<1>3. ASSUME NEW f \in StagedFiles, PrepareRecoveryFile(f) PROVE Reviewing' /\ Replaced
  <2>1. UNCHANGED <<rec, recorded, lease, queuer>>
    BY <1>3 DEF PrepareRecoveryFile
  <2>2. FileDone(f, TRUE) => sweep'.pc = "files"
    BY <1>1, SweepFiles
  <2>3. CASE (FileDone(f, TRUE) \/ GiveUp) /\ UNCHANGED <<onDisk, place>>
    BY <1>0, <1>2, <2>1, <2>2, <2>3, QuietKeeps DEF Quiet
  <2>4. CASE (Ready(f) \/ PlacedBeside(f)) /\ sweep' = [sweep EXCEPT !.pc = "publish", !.file = f]
    <3>1. sweep'.pc = "publish" /\ sweep'.file = f
      BY <1>1, <2>4, SweepPublishes
    <3>2. ASSUME NEW prev \in BytesAt \ {"new"}, f \notin recorded => prev = "none",
                 place' = [place EXCEPT ![f] = [state |-> "prepared", prev |-> prev, published |-> FALSE]],
                 onDisk'[f] = prev, \A g \in StagedFiles \ {f} : onDisk'[g] = onDisk[g]
          PROVE  Reviewing' /\ Replaced
      <4>1. /\ place'[f].state = "prepared" /\ place'[f].prev = prev
            /\ \A g \in StagedFiles \ {f} : place'[g] = place[g]
        BY <1>1, <3>2, EntryPrepared
      <4>2. Reviewing'
        BY <1>0, <2>1, <3>1, <3>2, <4>1 DEF Reviewing
      <4>3. Replaced
        BY <3>2 DEF Replaced
      <4> QED
        BY <4>2, <4>3
    <3>3. CASE Ready(f) /\ place[f].state = "none"
      <4>1. onDisk[f] \in BytesAt \ {"new"}
        BY <1>0, <1>1, <3>3 DEF Safe, Journal, Trees
      <4> QED
        BY <3>2, <3>3, <4>1 DEF Ready, Placeable
    <3>4. CASE Ready(f) /\ place[f].state # "none"
      <4>1. UNCHANGED <<onDisk, place>> /\ (f \notin recorded => place[f].published \/ place[f].prev = "none")
        BY <1>0, <3>4 DEF Ready, Placeable, Reviewing
      <4>2. Reviewing'
        BY <1>0, <2>1, <3>1, <4>1 DEF Reviewing
      <4>3. Replaced
        BY <4>1 DEF Replaced
      <4> QED
        BY <4>2, <4>3
    <3>5. CASE PlacedBeside(f)
      <4>1. "none" \in BytesAt \ {"new"}
        BY DEF BytesAt
      <4>2. onDisk'[f] = "none" /\ \A g \in StagedFiles \ {f} : onDisk'[g] = onDisk[g]
        BY <1>1, <3>5, <4>1, DiskWrites DEF PlacedBeside
      <4> QED
        BY <3>2, <3>5, <4>1, <4>2 DEF PlacedBeside
    <3> QED
      BY <2>4, <3>3, <3>4, <3>5
  <2> QED
    BY <1>3, <2>3, <2>4 DEF PrepareRecoveryFile
<1>4. CASE PublishRecoveryFile
  <2> DEFINE f == sweep.file
  <2>1. sweep.pc = "publish" /\ f \in StagedFiles /\ place[f].state \in {"prepared", "committed"}
    BY <1>0, <1>4 DEF PublishRecoveryFile, Safe, Journal
  <2>2. UNCHANGED <<rec, recorded, lease, queuer>>
    BY <1>4 DEF PublishRecoveryFile
  <2>3. CASE GiveUp /\ UNCHANGED <<onDisk, place>>
    BY <1>0, <1>2, <2>2, <2>3, QuietKeeps DEF Quiet
  <2>4. CASE /\ TargetAsReviewed /\ (onDisk[f] = "new" \/ (onDisk[f] = place[f].prev /\ ~place[f].published))
             /\ onDisk' = [onDisk EXCEPT ![f] = "new"] /\ Go("commit")
             /\ place' = [place EXCEPT ![f].published = TRUE]
    <3>1. "new" \in BytesAt /\ "commit" \in SweepSteps
      BY Steps DEF BytesAt
    <3>2. /\ place'[f].published /\ \A g \in StagedFiles : place'[g].state = place[g].state
          /\ \A g \in StagedFiles \ {f} : place'[g] = place[g]
      BY <1>1, <2>1, <2>4, EntryPublished
    <3>3. \A g \in StagedFiles \ {f} : onDisk'[g] = onDisk[g]
      BY <1>1, <2>1, <2>4, <3>1, DiskWrites
    <3>4. sweep'.pc = "commit" /\ sweep'.file = f
      BY <1>1, <2>4, <3>1, SweepGo
    <3> HIDE DEF f
    <3>5. Reviewing'
      BY <1>0, <2>1, <2>2, <3>2, <3>3, <3>4 DEF Reviewing
    <3>6. ASSUME onDisk[f] \in {"old", "foreign"}
          PROVE  f \in recorded /\ rec.snap[f] = onDisk[f] /\ rec.accepted = lease
      <4>1. lease = rec.accepted /\ Shelf[f] = rec.snap[f]
        BY <2>1, <2>4, <3>6 DEF TargetAsReviewed
      <4>2. onDisk[f] = place[f].prev /\ ~place[f].published
        BY <2>4, <3>6
      <4>3. f \in recorded
        BY <1>0, <2>1, <3>6, <4>1, <4>2 DEF Reviewing, f
      <4> QED
        BY <2>1, <4>1, <4>3 DEF Shelf
    <3> QED
      BY <3>3, <3>5, <3>6 DEF Replaced
  <2> QED
    BY <1>4, <2>3, <2>4 DEF PublishRecoveryFile
<1>5. CASE CommitRecoveryFile
  <2> DEFINE f == sweep.file
  <2>1. sweep.pc = "commit" /\ f \in StagedFiles /\ place[f].published
    BY <1>0, <1>5 DEF CommitRecoveryFile, Safe, Journal, Reviewing
  <2>2. FileDone(f, FALSE) => sweep'.pc = "files"
    BY <1>1, <2>1, SweepFiles
  <2>3. UNCHANGED <<onDisk, queuer>>
    BY <1>5 DEF CommitRecoveryFile
  <2>4. CASE (FileDone(f, FALSE) \/ GiveUp) /\ UNCHANGED <<rec, place, recorded, lease>>
    BY <1>0, <1>2, <2>2, <2>3, <2>4, QuietKeeps DEF Quiet
  <2>5. CASE CommitStep(f) /\ FileDone(f, FALSE)
    <3>1. rec'.accepted = lease' /\ lease' = lease + 1
      BY <1>1, <2>5, RowAccepts DEF CommitStep
    <3>2. place'[f].published /\ \A g \in StagedFiles \ {f} : place'[g] = place[g]
      BY <1>1, <2>1, <2>5, EntryWrites DEF CommitStep
    <3> HIDE DEF f
    <3>3. queuer.read.accepted \in Nat
      BY <1>0 DEF Typed, Queuers, Rows
    <3>4. Reviewing'
      BY <1>0, <1>1, <2>1, <2>2, <2>3, <2>5, <3>1, <3>2, <3>3 DEF Reviewing
    <3>5. Replaced
      BY <2>3 DEF Replaced
    <3> QED
      BY <3>4, <3>5
  <2> QED
    BY <1>5, <2>4, <2>5 DEF CommitRecoveryFile
<1> QED
  BY <1>3, <1>4, <1>5 DEF FileStep

\* Previous bytes that are put back are not the staged ones.
LEMMA RolledBackReviews ==
  ASSUME RecoveryInv, Reviewing, NEW f \in PreparedFiles, RollBack(f),
         UNCHANGED <<rec, recorded, lease, queuer>>, sweep'.pc \notin {"publish", "commit"}
  PROVE  Reviewing' /\ Replaced
<1>0. Typed /\ Safe /\ Reviewing
  BY InvParts
<1>1. /\ f \in StagedFiles /\ place[f].state = "prepared"
      /\ place'[f].state = "rolled_back" /\ onDisk'[f] = place[f].prev
      /\ \A g \in StagedFiles \ {f} : place'[g] = place[g] /\ onDisk'[g] = onDisk[g]
  BY <1>0, RollBackFacts
<1>2. onDisk'[f] # "new"
  BY <1>0, <1>1 DEF Safe, Journal
<1>3. Reviewing'
  BY <1>0, <1>1, <1>2 DEF Reviewing
<1>4. Replaced
  BY <1>1, <1>2 DEF Replaced
<1> QED
  BY <1>3, <1>4

\* The other steps of a run, and those of a cancellation.
LEMMA RunReviews == ASSUME RecoveryInv, Reviewing, RunStep PROVE Reviewing' /\ Replaced
<1>0. Typed /\ Safe /\ Reviewing
  BY InvParts
<1>1. sweep \in Sweeps /\ rec \in Rows
  BY <1>0 DEF Typed
<1>2. /\ GiveUp => sweep'.pc = "settle"
      /\ \A pc \in SweepSteps : Go(pc) => sweep'.pc = pc
      /\ \A pc \in SweepSteps : [Resting EXCEPT !.pc = pc].pc = pc
  BY <1>1, SweepGivesUp, SweepGo, RestingSweep
<1>3. /\ {"ack", "start", "lock", "settle", "validate", "claim", "record"} \subseteq SweepSteps
      /\ {"files", "verify", "receipt", "save", "idle"} \subseteq SweepSteps
  BY Steps
<1>4. /\ \A state \in LocalStates : [rec EXCEPT !.state = state].accepted = rec.accepted
      /\ [rec EXCEPT !.claimed = TRUE].accepted = rec.accepted
      /\ {"importing", "receipt_pending", "review"} \subseteq LocalStates
  BY <1>1, RowWrites, RowAccepts DEF LocalStates
<1>5. CASE SweepTake
  <2>1. UNCHANGED <<place, onDisk, recorded, lease, queuer>>
    BY <1>5 DEF SweepTake
  <2>2. sweep'.pc \notin {"publish", "commit"} /\ rec'.accepted = rec.accepted
    BY <1>2, <1>3, <1>4, <1>5 DEF SweepTake
  <2> QED
    BY <1>0, <2>1, <2>2, QuietKeeps DEF Quiet
<1>6. CASE SweepStart
  <2>1. UNCHANGED <<place, onDisk, recorded, lease, queuer>>
    BY <1>6 DEF SweepStart
  <2>2. sweep'.pc \notin {"publish", "commit"} /\ rec'.accepted = rec.accepted
    BY <1>2, <1>3, <1>4, <1>6 DEF SweepStart
  <2> QED
    BY <1>0, <2>1, <2>2, QuietKeeps DEF Quiet
<1>7. CASE LockTitleForRecovery
  <2>1. UNCHANGED <<place, onDisk, recorded, lease, queuer>>
    BY <1>7 DEF LockTitleForRecovery
  <2>2. sweep'.pc \notin {"publish", "commit"} /\ rec'.accepted = rec.accepted
    BY <1>2, <1>3, <1>4, <1>7 DEF LockTitleForRecovery
  <2> QED
    BY <1>0, <2>1, <2>2, QuietKeeps DEF Quiet
<1>8. CASE ValidateRecoveryTarget
  <2>1. UNCHANGED <<place, onDisk, recorded, lease, queuer>>
    BY <1>8 DEF ValidateRecoveryTarget
  <2>2. sweep'.pc \notin {"publish", "commit"} /\ rec'.accepted = rec.accepted
    BY <1>2, <1>3, <1>4, <1>8 DEF ValidateRecoveryTarget
  <2> QED
    BY <1>0, <2>1, <2>2, QuietKeeps DEF Quiet
<1>9. CASE ClaimRecovery
  <2>1. UNCHANGED <<place, onDisk, recorded, lease, queuer>>
    BY <1>9 DEF ClaimRecovery
  <2>2. sweep'.pc \notin {"publish", "commit"} /\ rec'.accepted = rec.accepted
    BY <1>2, <1>3, <1>4, <1>9 DEF ClaimRecovery
  <2> QED
    BY <1>0, <2>1, <2>2, QuietKeeps DEF Quiet
<1>10. CASE RecordClaim
  <2>1. UNCHANGED <<place, onDisk, recorded, lease, queuer>>
    BY <1>10 DEF RecordClaim
  <2>2. sweep'.pc \notin {"publish", "commit"} /\ rec'.accepted = rec.accepted
    BY <1>2, <1>3, <1>4, <1>10 DEF RecordClaim
  <2> QED
    BY <1>0, <2>1, <2>2, QuietKeeps DEF Quiet
<1>11. CASE RunCancelled
  <2>1. UNCHANGED <<place, onDisk, recorded, lease, queuer>>
    BY <1>11 DEF RunCancelled
  <2>2. sweep'.pc \notin {"publish", "commit"} /\ rec'.accepted = rec.accepted
    BY <1>2, <1>3, <1>4, <1>11 DEF RunCancelled
  <2> QED
    BY <1>0, <2>1, <2>2, QuietKeeps DEF Quiet
<1>12. CASE PayloadRefused
  <2>1. UNCHANGED <<place, onDisk, recorded, lease, queuer>>
    BY <1>12 DEF PayloadRefused
  <2>2. sweep'.pc \notin {"publish", "commit"} /\ rec'.accepted = rec.accepted
    BY <1>2, <1>3, <1>4, <1>12 DEF PayloadRefused
  <2> QED
    BY <1>0, <2>1, <2>2, QuietKeeps DEF Quiet
<1>13. CASE FilesTried
  <2>1. UNCHANGED <<place, onDisk, recorded, lease, queuer>>
    BY <1>13 DEF FilesTried
  <2>2. sweep'.pc \notin {"publish", "commit"} /\ rec'.accepted = rec.accepted
    BY <1>2, <1>3, <1>4, <1>13 DEF FilesTried
  <2> QED
    BY <1>0, <2>1, <2>2, QuietKeeps DEF Quiet
<1>14. CASE VerifyRecoveryPublications
  <2>1. UNCHANGED <<place, onDisk, recorded, lease, queuer>>
    BY <1>14 DEF VerifyRecoveryPublications
  <2>2. sweep'.pc \notin {"publish", "commit"} /\ rec'.accepted = rec.accepted
    BY <1>2, <1>3, <1>4, <1>14 DEF VerifyRecoveryPublications
  <2> QED
    BY <1>0, <2>1, <2>2, QuietKeeps DEF Quiet
<1>15. CASE RecordReceipt
  <2>1. UNCHANGED <<place, onDisk, recorded, lease, queuer>>
    BY <1>15 DEF RecordReceipt
  <2>2. sweep'.pc \notin {"publish", "commit"} /\ rec'.accepted = rec.accepted
    BY <1>2, <1>3, <1>4, <1>15 DEF RecordReceipt
  <2> QED
    BY <1>0, <2>1, <2>2, QuietKeeps DEF Quiet
<1>16. CASE SweepSettle
  <2>1. UNCHANGED <<place, onDisk, recorded, lease, queuer>>
    BY <1>16 DEF SweepSettle
  <2>2. sweep'.pc \notin {"publish", "commit"} /\ rec'.accepted = rec.accepted
    BY <1>2, <1>3, <1>4, <1>16 DEF SweepSettle
  <2> QED
    BY <1>0, <2>1, <2>2, QuietKeeps DEF Quiet
<1>17. CASE SaveReview
  <2>1. UNCHANGED <<place, onDisk, recorded, lease, queuer>>
    BY <1>17 DEF SaveReview
  <2>2. sweep'.pc \notin {"publish", "commit"} /\ rec'.accepted = rec.accepted
    BY <1>2, <1>3, <1>4, <1>17 DEF SaveReview
  <2> QED
    BY <1>0, <2>1, <2>2, QuietKeeps DEF Quiet
<1>18. CASE HeartbeatCancels
  BY <1>18, RequestReviews DEF HeartbeatCancels, RequestStep
<1>19. CASE FileStep
  BY <1>19, FileReviews
<1> QED
  BY <1>5, <1>6, <1>7, <1>8, <1>9, <1>10, <1>11, <1>12, <1>13, <1>14, <1>15, <1>16, <1>17, <1>18, <1>19 DEF RunStep, FileStep

LEMMA CancellationReviews == ASSUME RecoveryInv, Reviewing, CancellationStep PROVE Reviewing' /\ Replaced
<1>0. Typed /\ Safe /\ Reviewing
  BY InvParts
<1>1. sweep \in Sweeps /\ rec \in Rows
  BY <1>0 DEF Typed
<1>2. \A pc \in SweepSteps : Go(pc) => sweep'.pc = pc
  BY <1>1, SweepGo
<1>3. {"idle", "rolling", "keep", "finish", "cancel", "cancel-ack"} \subseteq SweepSteps
  BY Steps
<1>4. /\ \A state \in LocalStates : [rec EXCEPT !.state = state].accepted = rec.accepted
      /\ {"cancel_pending", "cancelled"} \subseteq LocalStates
  BY <1>1, RowWrites DEF LocalStates
<1>5. CASE LockTitleForRollback
  <2>1. UNCHANGED <<place, onDisk, recorded, lease, queuer>>
    BY <1>5 DEF LockTitleForRollback
  <2>2. sweep'.pc \notin {"publish", "commit"} /\ rec'.accepted = rec.accepted
    BY <1>2, <1>3, <1>4, <1>5 DEF LockTitleForRollback
  <2> QED
    BY <1>0, <2>1, <2>2, QuietKeeps DEF Quiet
<1>6. CASE KeepCancellation
  <2>1. UNCHANGED <<place, onDisk, recorded, lease, queuer>>
    BY <1>6 DEF KeepCancellation
  <2>2. sweep'.pc \notin {"publish", "commit"} /\ rec'.accepted = rec.accepted
    BY <1>2, <1>3, <1>4, <1>6 DEF KeepCancellation
  <2> QED
    BY <1>0, <2>1, <2>2, QuietKeeps DEF Quiet
<1>7. CASE CancelAtRunner
  <2>1. UNCHANGED <<place, onDisk, recorded, lease, queuer>>
    BY <1>7 DEF CancelAtRunner
  <2>2. sweep'.pc \notin {"publish", "commit"} /\ rec'.accepted = rec.accepted
    BY <1>2, <1>3, <1>4, <1>7 DEF CancelAtRunner
  <2> QED
    BY <1>0, <2>1, <2>2, QuietKeeps DEF Quiet
<1>8. CASE AcknowledgeAtRunner
  <2>1. UNCHANGED <<place, onDisk, recorded, lease, queuer>>
    BY <1>8 DEF AcknowledgeAtRunner
  <2>2. sweep'.pc \notin {"publish", "commit"} /\ rec'.accepted = rec.accepted
    BY <1>2, <1>3, <1>4, <1>8 DEF AcknowledgeAtRunner
  <2> QED
    BY <1>0, <2>1, <2>2, QuietKeeps DEF Quiet
<1>9. CASE FinishRecoveryCancellation
  <2>1. UNCHANGED <<place, onDisk, recorded, lease, queuer>>
    BY <1>9 DEF FinishRecoveryCancellation
  <2>2. sweep'.pc \notin {"publish", "commit"} /\ rec'.accepted = rec.accepted
    BY <1>2, <1>3, <1>4, <1>9 DEF FinishRecoveryCancellation
  <2> QED
    BY <1>0, <2>1, <2>2, QuietKeeps DEF Quiet
<1>10. CASE AckObserve
  <2>1. UNCHANGED <<rec, place, onDisk, recorded, lease, queuer>>
    BY <1>10 DEF AckObserve
  <2>2. CASE sweep' = [sweep EXCEPT !.pc = "rollback", !.saw = remote.state = "cancelled"]
    <3> DEFINE saw == remote.state = "cancelled"
    <3>1. saw \in BOOLEAN /\ sweep' = [sweep EXCEPT !.pc = "rollback", !.saw = saw]
      BY <2>2
    <3> HIDE DEF saw
    <3>2. sweep'.pc = "rollback"
      BY <1>1, <3>1, SweepSees
    <3> QED
      BY <1>0, <2>1, <3>2, QuietKeeps DEF Quiet
  <2>3. CASE Go("idle")
    <3>1. sweep'.pc = "idle"
      BY <1>2, <1>3, <2>3
    <3> QED
      BY <1>0, <2>1, <3>1, QuietKeeps DEF Quiet
  <2> QED
    BY <1>10, <2>2, <2>3 DEF AckObserve
<1>11. CASE RollbackRecoveryPlacements
  <2>1. UNCHANGED <<rec, recorded, lease, queuer>> /\ sweep.pc = "rolling"
    BY <1>11 DEF RollbackRecoveryPlacements
  <2>2. CASE \E f \in PreparedFiles : RollBack(f) /\ UNCHANGED sweep
    <3>1. PICK f \in PreparedFiles : RollBack(f) /\ UNCHANGED sweep
      BY <2>2
    <3>2. Reviewing' /\ Replaced
      BY <1>0, <2>1, <3>1, RolledBackReviews
    <3> QED
      BY <3>2
  <2>3. CASE (Go("keep") \/ Go("finish") \/ Go("cancel")) /\ UNCHANGED <<place, onDisk>>
    <3>1. sweep'.pc \in {"keep", "finish", "cancel"}
      BY <1>2, <1>3, <2>3
    <3> QED
      BY <1>0, <2>1, <2>3, <3>1, QuietKeeps DEF Quiet
  <2> QED
    BY <1>11, <2>2, <2>3 DEF RollbackRecoveryPlacements
<1> QED
  BY <1>5, <1>6, <1>7, <1>8, <1>9, <1>10, <1>11 DEF CancellationStep

\* The world, and a restart.
LEMMA WorldReviews == ASSUME RecoveryInv, Reviewing, WorldStep PROVE Reviewing' /\ Replaced
<1>0. Typed /\ Safe /\ Reviewing
  BY InvParts
<1>1. /\ sweep \in Sweeps /\ place \in Journals /\ onDisk \in Trees /\ rec \in Rows
      /\ lease \in Nat /\ rec.accepted \in Nat /\ queuer.read.accepted \in Nat
  BY <1>0 DEF Typed, Queuers, Rows
<1>2. Resting.pc = "idle" /\ [Resting EXCEPT !.pc = "down"].pc = "down" /\ NoRequest.read.accepted = 0
  BY <1>1, Steps, RestingSweep, Blanks
<1>3. CASE RunnerActs
  BY <1>0, <1>3, QuietKeeps DEF RunnerActs, Quiet
<1>4. ASSUME NEW c \in Calls, LateCall(c) PROVE Reviewing' /\ Replaced
  BY <1>0, <1>4, QuietKeeps DEF LateCall, Quiet
<1>5. CASE ProcessEnds
  BY <1>0, <1>2, <1>5, QuietKeeps DEF ProcessEnds, Quiet
<1>6. CASE WorkersStart
  BY <1>0, <1>2, <1>6, QuietKeeps DEF WorkersStart, Quiet
<1>7. CASE TitleEdited
  <2>1. lease' = lease + 1 /\ UNCHANGED <<rec, place, onDisk, sweep, queuer>>
    BY <1>7 DEF TitleEdited
  <2>2. Reviewing'
    BY <1>0, <1>1, <2>1 DEF Reviewing
  <2> QED
    BY <2>1, <2>2 DEF Replaced
<1>8. CASE OtherImport
  <2>1. /\ titleLock \in {"free", "other"} /\ lease' \in {lease, lease + 1}
        /\ UNCHANGED <<rec, place, onDisk, recorded, sweep, queuer>>
    BY <1>8 DEF OtherImport
  <2>2. sweep.pc # "publish"
    BY <1>0, <2>1 DEF Safe, Locking, Placing
  <2>3. Reviewing'
    BY <1>0, <1>1, <2>1, <2>2 DEF Reviewing
  <2> QED
    BY <2>1, <2>3 DEF Replaced
<1>9. ASSUME NEW f \in StagedFiles, FileTouched(f) PROVE Reviewing' /\ Replaced
  <2>1. PICK b \in {"none", "foreign"} : onDisk' = [onDisk EXCEPT ![f] = b]
    BY <1>9 DEF FileTouched
  <2>2. onDisk'[f] = b /\ \A g \in StagedFiles \ {f} : onDisk'[g] = onDisk[g]
    BY <1>1, <2>1, DiskWrites DEF BytesAt
  <2>3. UNCHANGED <<rec, place, recorded, lease, sweep, queuer>>
    BY <1>9 DEF FileTouched
  <2>4. Reviewing'
    BY <1>0, <2>2, <2>3 DEF Reviewing
  <2> QED
    BY <2>2, <2>4 DEF Replaced
<1>10. ASSUME NEW f \in StagedFiles, ReconcilePlacement(f) PROVE Reviewing' /\ Replaced
  <2>1. sweep.pc = "down" /\ f \in PreparedFiles /\ UNCHANGED queuer
    BY <1>10 DEF ReconcilePlacement
  <2>2. sweep'.pc = "down"
    BY <1>1, <1>10, <2>1, SweepTries DEF ReconcilePlacement
  <2>3. CASE RollBack(f) /\ UNCHANGED <<lease, rec, recorded>>
    BY <1>0, <2>1, <2>2, <2>3, RolledBackReviews
  <2>4. CASE UNCHANGED <<place, onDisk, lease, rec, recorded>>
    BY <1>0, <2>1, <2>2, <2>4, QuietKeeps DEF Quiet
  <2>5. CASE CommitStep(f) /\ onDisk[f] = "new" /\ UNCHANGED onDisk
    <3>1. rec'.accepted = lease' /\ lease' = lease + 1
      BY <1>1, <2>5, RowAccepts DEF CommitStep
    <3>2. place'[f].published /\ \A g \in StagedFiles \ {f} : place'[g] = place[g]
      BY <1>0, <1>1, <2>5, EntryWrites DEF CommitStep, Reviewing
    <3>3. Reviewing'
      BY <1>0, <1>1, <2>1, <2>2, <2>5, <3>1, <3>2 DEF Reviewing
    <3> QED
      BY <2>5, <3>3 DEF Replaced
  <2> QED
    BY <1>10, <2>3, <2>4, <2>5 DEF ReconcilePlacement
<1> QED
  BY <1>3, <1>4, <1>5, <1>6, <1>7, <1>8, <1>9, <1>10 DEF WorldStep

LEMMA StepReviews == ASSUME RecoveryInv, Reviewing, RecoveryNext PROVE Reviewing' /\ Replaced
BY RequestReviews, RunReviews, CancellationReviews, WorldReviews DEF RecoveryNext

LEMMA InitReviews == RecoveryInit => Reviewing
<1> SUFFICES ASSUME RecoveryInit PROVE Reviewing
  OBVIOUS
<1>1. RecoveryInv
  BY InitHolds
<1>2. Typed
  BY <1>1, InvParts
<1>3. rec.accepted = 0 /\ queuer.read.accepted = 0 /\ lease = 0 /\ sweep.pc = "idle"
  BY <1>2, Blanks, RestingSweep, Steps DEF RecoveryInit, Typed
<1>4. \A f \in StagedFiles : place[f].state = "none"
  BY DEF RecoveryInit, Unplaced
<1>5. \A f \in StagedFiles : onDisk[f] # "new"
  BY <1>1, <1>4, InvParts DEF Safe, Journal
<1> QED
  BY <1>3, <1>4, <1>5 DEF Reviewing

\* No publication, of this run or of one that a restart follows, comes over
\* bytes the accepted preview did not show, whatever was edited, touched,
\* recorded or imported beside it (commitPlacement, validateMeasuredPlacement,
\* validateRecoveryTarget).
THEOREM ReviewedIsReplaced == RecoverySpec => OnlyReviewedReplaced
<1>1. RecoveryInv /\ Reviewing /\ [RecoveryNext]_recoveryVars => Reviewing' /\ [Replaced]_recoveryVars
  <2> SUFFICES ASSUME RecoveryInv, Reviewing, [RecoveryNext]_recoveryVars
               PROVE  Reviewing' /\ [Replaced]_recoveryVars
    OBVIOUS
  <2>1. CASE RecoveryNext
    BY <2>1, StepReviews
  <2>2. CASE UNCHANGED recoveryVars
    BY <2>2 DEF recoveryVars, Reviewing
  <2> QED
    BY <2>1, <2>2
<1>2. RecoverySpec => [][Replaced]_recoveryVars
  BY <1>1, InitReviews, InitHolds, StepKeeps, PTL DEF RecoverySpec
<1> QED
  BY <1>2 DEF OnlyReviewedReplaced, Replaced
=========================================================================
