------------------------------- MODULE Migration -------------------------------
(***************************************************************************)
(* The cutover from the legacy files to the SQLite store: the coordinator  *)
(* that every ordinary command runs under one lock, processes of the old   *)
(* binary that still write the legacy files, hooks that look for a current *)
(* store, and a crash after any single write.  A file that is created and  *)
(* then filled is Torn in between.                                         *)
(***************************************************************************)
EXTENDS Naturals, Sequences, SequencesExt

CONSTANTS Logs,        \* the sequence of the decision, activity and lifecycle files
          Journals,    \* the directory of permission transactions, one entry at most
          Review,      \* the file of review marks
          MaxVersion,  \* bound: how often each legacy file is written
          MaxCrashes,  \* bound: how often the coordinator dies
          None, Torn

Order == Append(Logs, Journals)
BrainSource == ToSet(Order)
Source == BrainSource \cup {Review}

ASSUME SourcesAreDistinct == /\ Logs \in Seq(ToSet(Logs))
                             /\ Review \notin BrainSource
                             /\ Journals \notin ToSet(Logs)
                             /\ \A i, j \in DOMAIN Logs : Logs[i] = Logs[j] => i = j
ASSUME VersionsAreBounded == MaxVersion \in [Source -> Nat] /\ MaxCrashes \in Nat

VARIABLES
  src,        \* the version of every legacy file; 0: it does not exist
  frozen,     \* the files replaced by a read-only copy
  sealed,     \* the journal directory is read-only
  state,      \* the migration state file
  temp,       \* the pending replacement of the state file
  brain,      \* the Brain database: where it is, its own mark, what it holds
  review,     \* the review database
  progress,   \* the freeze progress directory, with the copies being frozen
  manifest,   \* the frozen-source manifest
  pc, goal, seen,  \* the running coordinator
  held,       \* it holds every lock of the legacy writers
  hook, crashes

legacy == <<src, frozen, sealed>>
stores == <<brain, review, progress, manifest>>
control == <<pc, goal, seen, held>>
vars == <<legacy, state, temp, stores, control, hook, crashes>>
--------------------------------------------------------------------------------
Status == {"building", "verified", "published", "legacyFrozen", "complete"}
Phase == {"pending", "building", "ready", "directoryFreezing", "directoryFrozen",
          "manifestBuilding", "manifestVerified", "manifestPublished"}
\* "raced" and "unusable" are the two reasons a review migration is degraded for.
ReviewResult == {"pending", "building", "verified", "published", "raced", "unusable"}

StateFile == [status : Status, fp : [BrainSource -> Nat], review : ReviewResult,
              mark : Nat, phase : Phase, digest : [Source -> Nat]]
Replacement == [kind : {"status", "rebase", "review", "freeze"}, to : StateFile \cup {Torn}]

Running == {"create", "recover", "rebase", "validate", "open", "write", "rename", "discard",
            "restage", "stage", "import", "publish", "republish", "review", "reviewRead",
            "reviewCreated", "reviewFilled", "freezeGuard", "progress", "records", "record",
            "freeze", "freezeDirectory", "manifest", "manifestWrite", "manifestFill",
            "manifestPublish", "legacyFrozen", "completeRow", "enterWal", "closeRow"}

\* Where a run goes on after a replacement of the state file.
Target == {"validate", "publish", "review", "freezeGuard", "progress", "records",
           "freezeDirectory", "manifest", "manifestWrite", "manifestPublish",
           "legacyFrozen", "completeRow", "idle"}
Goal == [kind : {"status", "rebase", "review", "freeze"}, next : StateFile, then : Target]

ASSUME MarksAreNoData == /\ None # Torn /\ None \notin StateFile /\ Torn \notin StateFile
                         /\ None \notin Replacement /\ None \notin Goal
                        /\ None \notin [BrainSource -> Nat]

Fingerprints == [s \in BrainSource |-> src[s]]
Unmoved == state.fp = Fingerprints
ReviewIncluded == state.review = "published"
Candidates == IF ReviewIncluded THEN Append(Order, Review) ELSE Order
Frozen(s) == IF s = Journals THEN sealed ELSE s \in frozen
\* What the freeze recorded is what the files hold.
Intact == \A s \in ToSet(Candidates) : src[s] = state.digest[s]

NoBrain == [place |-> "none", row |-> "new", rows |-> [s \in BrainSource |-> 0],
            sidecars |-> FALSE]
NoReview == [place |-> "none", content |-> "none"]
NoProgress == [directory |-> FALSE,
               record |-> [s \in Source |-> "none"],
               update |-> [s \in Source |-> "none"],
               copy |-> [s \in Source |-> "none"]]

Init ==
  /\ src \in [Source -> 0 .. 1]
  /\ frozen = {} /\ sealed = FALSE
  /\ state = None /\ temp = None
  /\ brain = NoBrain /\ review = NoReview
  /\ progress = NoProgress /\ manifest = "none"
  /\ pc = "idle" /\ goal = None /\ seen = 0 /\ held = FALSE
  /\ hook = "idle" /\ crashes = 0
--------------------------------------------------------------------------------
(* The processes around the coordinator.                                   *)

\* A process of the old binary writes a file: under the lock of that file, and
\* not to a read-only one.
LegacyWrite(s) ==
  /\ ~held /\ ~Frozen(s) /\ src[s] < MaxVersion[s]
  /\ src' = [src EXCEPT ![s] = @ + 1]
  /\ UNCHANGED <<frozen, sealed, state, temp, stores, control, hook, crashes>>

Crash ==
  /\ pc \notin {"idle", "refused"} /\ crashes < MaxCrashes
  /\ pc' = "idle" /\ goal' = None /\ seen' = 0 /\ held' = FALSE
  /\ crashes' = crashes + 1
  /\ UNCHANGED <<legacy, state, temp, stores, hook>>

\* validate_hook_state and the branch after it.
HookAccepts == state.status = "complete" /\ brain.place = "canonical"

HookLoad ==
  /\ hook = "idle"
  /\ hook' = IF state = None THEN "unmanaged"
             ELSE IF state # Torn /\ HookAccepts THEN "opening" ELSE "idle"
  /\ UNCHANGED <<legacy, state, temp, stores, control, crashes>>

HookLook ==
  /\ hook = "unmanaged"
  /\ hook' = IF brain.place \in {"linked", "canonical"} THEN "opening" ELSE "idle"
  /\ UNCHANGED <<legacy, state, temp, stores, control, crashes>>

\* Mutant of OpensCurrent: any database at the canonical name is opened.
OpensUnmarked == brain.place = "canonical"

\* BrainDb::open_current reads the mark in the database itself.
OpensCurrent == brain.place = "canonical" /\ brain.row = "complete"

HookOpen ==
  /\ hook = "opening"
  /\ hook' = IF OpensCurrent THEN "admitted" ELSE "idle"
  /\ UNCHANGED <<legacy, state, temp, stores, control, crashes>>

HookDone ==
  /\ hook = "admitted"
  /\ hook' = "idle"
  /\ UNCHANGED <<legacy, state, temp, stores, control, crashes>>
--------------------------------------------------------------------------------
(* Steps shared by the phases of a run.                                    *)

Go(p) == pc' = p /\ UNCHANGED <<goal, seen, held>>
Refuse == pc' = "refused" /\ goal' = None /\ seen' = 0 /\ held' = FALSE

\* Replace the state file by next, then continue at p.
Replace(k, next, p) ==
  /\ goal' = [kind |-> k, next |-> next, then |-> p]
  /\ pc' = "open" /\ seen' = 0

OpenTemp ==
  /\ pc = "open"
  /\ IF temp = None
     THEN temp' = [kind |-> goal.kind, to |-> Torn] /\ Go("write")
     ELSE Refuse /\ UNCHANGED temp
  /\ UNCHANGED <<legacy, state, stores, hook, crashes>>

WriteTemp ==
  /\ pc = "write"
  /\ temp' = [temp EXCEPT !.to = goal.next]
  /\ Go("rename")
  /\ UNCHANGED <<legacy, state, stores, hook, crashes>>

\* The locks taken to advance the fingerprints are released after the rename,
\* those of the freeze at the end of the run.
RenameTemp ==
  /\ pc = "rename"
  /\ state' = temp.to /\ temp' = None
  /\ pc' = goal.then /\ goal' = None /\ UNCHANGED seen
  /\ held' = (held /\ goal.then \notin {"validate", "idle"})
  /\ UNCHANGED <<legacy, stores, hook, crashes>>

Exit ==
  /\ pc = "refused"
  /\ Go("idle")
  /\ UNCHANGED <<legacy, state, temp, stores, hook, crashes>>
--------------------------------------------------------------------------------
(* resume_locked, up to its branch on the status.                          *)

Start ==
  /\ pc = "idle"
  /\ CASE state = None -> pc' = "create" /\ held' = TRUE /\ UNCHANGED <<goal, seen>>
       [] state = Torn -> Refuse
       [] OTHER -> Go("recover")
  /\ UNCHANGED <<legacy, state, temp, stores, hook, crashes>>

\* The first state is written straight to the name of the state file.
CreateState ==
  /\ pc = "create"
  /\ IF state = None
     THEN state' = Torn /\ UNCHANGED <<pc, held>>
     ELSE /\ state' = [status |-> "building", fp |-> Fingerprints,
                       review |-> "pending", mark |-> 0, phase |-> "pending",
                       digest |-> [s \in Source |-> 0]]
          /\ pc' = "recover" /\ held' = FALSE
  /\ UNCHANGED <<legacy, temp, stores, goal, seen, hook, crashes>>

AfterRecovery(st) == IF st.status = "building" THEN "rebase" ELSE "validate"

\* validate_review_transition_evidence.
ReviewEvidence(to) ==
  /\ (to.review = "raced") = (src[Review] # to.mark)
  /\ to.review = "building" => review.place = "none"
  /\ to.review = "verified" => review.place = "staging"
  /\ to.review = "published" => review.place = "canonical"

\* validate_transition_target.
StatusEvidence(to) ==
  /\ brain.place = "canonical"
  /\ to.status = "published" => brain.row = "in_progress" /\ Unmoved
  /\ to.status \in {"legacyFrozen", "complete"} => manifest = "published" /\ Intact
  /\ to.status = "complete" => OpensCurrent

\* What must hold for a pending replacement to be published.
Evidence == CASE temp.kind = "status" -> StatusEvidence(temp.to)
              [] temp.kind = "review" -> ReviewEvidence(temp.to)
              [] OTHER -> TRUE

\* Mutant of Rebuilt: a pending verification is taken up like any other.
RebuiltNever == FALSE

\* A verified database whose status was not published yet is built again.
Rebuilt == temp.kind = "status" /\ state.status = "building"

Recover ==
  /\ pc = "recover"
  /\ CASE temp = None -> Go(AfterRecovery(state)) /\ UNCHANGED <<state, temp>>
       [] temp # None /\ temp.to = Torn -> Refuse /\ UNCHANGED <<state, temp>>
       [] temp # None /\ temp.to # Torn /\ Rebuilt ->
            IF Unmoved /\ brain.place = "staging" /\ brain.row = "in_progress"
            THEN temp' = None /\ Go("discard") /\ UNCHANGED state
            ELSE Refuse /\ UNCHANGED <<state, temp>>
       [] temp # None /\ temp.to # Torn /\ ~Rebuilt ->
            IF Evidence
            THEN state' = temp.to /\ temp' = None /\ Go(AfterRecovery(temp.to))
            ELSE Refuse /\ UNCHANGED <<state, temp>>
  /\ UNCHANGED <<legacy, stores, hook, crashes>>

\* Sources that grew while the state is building are adopted, under the locks; one
\* that was replaced or shortened, which a version does not tell, is refused.
Rebase ==
  /\ pc = "rebase"
  /\ \/ brain.place \notin {"none", "staging"} /\ Refuse
     \/ brain.place \in {"none", "staging"} /\ Unmoved /\ Go("validate")
     \/ /\ brain.place \in {"none", "staging"} /\ ~Unmoved
        /\ \/ Refuse
           \/ /\ held' = TRUE
              /\ Replace("rebase", [state EXCEPT !.fp = Fingerprints], "validate")
  /\ UNCHANGED <<legacy, state, temp, stores, hook, crashes>>

PresenceFits ==
  CASE state.status = "building" -> brain.place \in {"none", "staging"}
    [] state.status = "verified" -> brain.place # "none"
    [] OTHER -> brain.place = "canonical"
ManifestFits ==
  CASE state.phase = "manifestBuilding" -> manifest \in {"none", "torn", "staging"}
    [] state.phase = "manifestVerified" -> manifest \in {"staging", "linked", "published"}
    [] state.phase = "manifestPublished" -> manifest = "published"
    [] OTHER -> manifest = "none"
Valid ==
  /\ PresenceFits /\ ManifestFits
  /\ review.content = "open" => state.review = "building"
  /\ state.status \in {"published", "legacyFrozen"} => ~brain.sidecars
  /\ state.status = "complete" => OpensCurrent /\ Intact
  /\ state.status = "legacyFrozen" => Intact
  /\ state.status \in {"verified", "published"} => brain.row = "in_progress"
  /\ state.status # "complete" /\ state.phase = "pending" => Unmoved
  /\ state.status = "published" /\ state.review = "published" => review.place = "canonical"
  /\ state.status = "building" /\ brain.place = "staging" => brain.row = "in_progress"

\* Mutant of AfterValidation: a degraded review is not seen as settled.
AfterValidationReviewed ==
  CASE state.status = "building" -> IF brain.place = "staging" THEN "restage" ELSE "stage"
    [] state.status = "verified" -> "republish"
    [] state.status = "published" -> IF ReviewIncluded THEN "freezeGuard" ELSE "review"
    [] state.status = "legacyFrozen" -> "completeRow"
    [] state.status = "complete" -> "idle"

AfterValidation ==
  CASE state.status = "building" -> IF brain.place = "staging" THEN "restage" ELSE "stage"
    [] state.status = "verified" -> "republish"
    [] state.status = "published" ->
         IF state.review \in {"published", "raced", "unusable"} THEN "freezeGuard" ELSE "review"
    [] state.status = "legacyFrozen" -> "completeRow"
    [] state.status = "complete" -> "idle"

Validate ==
  /\ pc = "validate"
  /\ IF Valid THEN Go(AfterValidation) ELSE Refuse
  /\ UNCHANGED <<legacy, state, temp, stores, hook, crashes>>
--------------------------------------------------------------------------------
(* The Brain database.                                                     *)

Discard ==
  /\ pc \in {"discard", "restage"}
  /\ brain' = NoBrain
  /\ Go(IF pc = "discard" THEN "rebase" ELSE "stage")
  /\ UNCHANGED <<legacy, state, temp, review, progress, manifest, hook, crashes>>

\* The new database is marked complete until the statement after its creation.
Stage ==
  /\ pc = "stage"
  /\ IF brain.place = "none"
     THEN brain' = [NoBrain EXCEPT !.place = "staging"] /\ Go("stage")
     ELSE /\ brain' = [brain EXCEPT !.row = "in_progress"]
          /\ pc' = "import" /\ seen' = 0 /\ UNCHANGED <<goal, held>>
  /\ UNCHANGED <<legacy, state, temp, review, progress, manifest, hook, crashes>>

\* The sources are read one after another, without the locks.  In the code the activity
\* comes before the decisions and the journals before the lifecycle.
Import ==
  /\ pc = "import" /\ seen < Len(Order)
  /\ seen' = seen + 1
  /\ brain' = [brain EXCEPT !.rows[Order[seen + 1]] = src[Order[seen + 1]]]
  /\ UNCHANGED <<legacy, state, temp, review, progress, manifest, pc, goal, held,
                 hook, crashes>>

Compare ==
  /\ pc = "import" /\ seen = Len(Order)
  /\ IF Unmoved
     THEN Replace("status", [state EXCEPT !.status = "verified"], "publish") /\ UNCHANGED held
     ELSE Refuse
  /\ UNCHANGED <<legacy, state, temp, stores, hook, crashes>>

\* The canonical name is linked, then the staging name unlinked.
Publish ==
  /\ pc \in {"publish", "republish"} /\ brain.place \in {"staging", "linked"}
  /\ brain' = [brain EXCEPT !.place = IF @ = "staging" THEN "linked" ELSE "canonical"]
  /\ UNCHANGED <<legacy, state, temp, review, progress, manifest, control, hook, crashes>>

\* A run that finds the database verified imports the sources again to compare.
Announce ==
  /\ pc \in {"publish", "republish"} /\ brain.place = "canonical"
  /\ IF pc = "republish" /\ ~Unmoved THEN Refuse
     ELSE /\ Replace("status", [state EXCEPT !.status = "published"], "review")
          /\ UNCHANGED held
  /\ UNCHANGED <<legacy, state, temp, stores, hook, crashes>>
--------------------------------------------------------------------------------
(* migrate_review.  Whether the marks can be read and mapped is left open. *)

Settle(result, m) ==
  /\ Replace("review", [state EXCEPT !.review = result, !.mark = m],
             IF result \in {"building", "verified"} THEN "review" ELSE "freezeGuard")
  /\ UNCHANGED held

ReadReview ==
  /\ pc = "review" /\ state.review = "pending"
  /\ pc' = "reviewRead" /\ seen' = src[Review] /\ UNCHANGED <<goal, held>>
  /\ UNCHANGED <<legacy, state, temp, stores, hook, crashes>>

JudgeReview ==
  /\ pc = "reviewRead"
  /\ \E readable \in BOOLEAN :
       Settle(IF ~readable THEN "unusable"
              ELSE IF src[Review] # seen THEN "raced" ELSE "building", seen)
  /\ UNCHANGED <<legacy, state, temp, stores, hook, crashes>>

\* resume_review_build and build_review_staging.  A database left open by a crash
\* has side files and is refused; one left empty or complete is taken up.
BuildReview ==
  /\ pc = "review" /\ state.review = "building"
  /\ \/ /\ src[Review] # state.mark /\ Settle("raced", state.mark)
        /\ UNCHANGED review
     \/ /\ src[Review] = state.mark /\ Settle("unusable", state.mark)
        /\ UNCHANGED review
     \/ /\ src[Review] = state.mark
        /\ CASE review.content = "none" ->
                  review' = [place |-> "staging", content |-> "open"] /\ Go("reviewCreated")
             [] review.content = "open" -> Refuse /\ UNCHANGED review
             [] review.content = "empty" ->
                  review' = [review EXCEPT !.content = "open"] /\ Go("reviewFilled")
             [] review.content = "full" -> Settle("verified", state.mark) /\ UNCHANGED review
  /\ UNCHANGED <<legacy, state, temp, brain, progress, manifest, hook, crashes>>

CloseReview ==
  /\ \/ /\ pc = "reviewCreated" /\ review.content = "open"
        /\ review' = [review EXCEPT !.content = "empty"] /\ Go("reviewCreated")
     \/ /\ pc = "reviewCreated" /\ review.content = "empty"
        /\ review' = [review EXCEPT !.content = "open"] /\ Go("reviewFilled")
     \/ /\ pc = "reviewFilled"
        /\ review' = [review EXCEPT !.content = "full"] /\ Settle("verified", state.mark)
  /\ UNCHANGED <<legacy, state, temp, brain, progress, manifest, hook, crashes>>

PublishReview ==
  /\ pc = "review" /\ state.review = "verified"
  /\ IF review.place = "canonical"
     THEN Settle("published", state.mark) /\ UNCHANGED review
     ELSE /\ review' = [review EXCEPT !.place = IF @ = "staging" THEN "linked" ELSE "canonical"]
          /\ Go("review")
  /\ UNCHANGED <<legacy, state, temp, brain, progress, manifest, hook, crashes>>
--------------------------------------------------------------------------------
(* resume_freeze.  All of it runs under the locks of the legacy writers.   *)

ReplacePhase(ph, p) ==
  Replace("freeze", [state EXCEPT !.phase = ph], p) /\ UNCHANGED held

\* Mutant of FreezeGuard: the sources are not compared under the locks.
FreezeGuardUnchecked ==
  /\ pc = "freezeGuard"
  /\ IF state.phase = "pending"
     THEN /\ held' = TRUE
          /\ Replace("freeze", [state EXCEPT !.phase = "building", !.digest = src], "progress")
     ELSE IF progress.copy[Journals] = "none"
          THEN pc' = "progress" /\ held' = TRUE /\ UNCHANGED <<goal, seen>>
          ELSE Refuse
  /\ UNCHANGED <<legacy, state, temp, stores, hook, crashes>>

\* An entry of the journal directory that is not a journal stops the locks from
\* being taken, a copy this freeze left there included.
FreezeGuard ==
  /\ pc = "freezeGuard"
  /\ IF state.phase = "pending"
     THEN IF Unmoved /\ (ReviewIncluded => src[Review] = state.mark)
          THEN /\ held' = TRUE
               /\ Replace("freeze", [state EXCEPT !.phase = "building", !.digest = src],
                          "progress")
          ELSE Refuse
     ELSE IF progress.copy[Journals] = "none"
          THEN pc' = "progress" /\ held' = TRUE /\ UNCHANGED <<goal, seen>>
          ELSE Refuse
  /\ UNCHANGED <<legacy, state, temp, stores, hook, crashes>>

EnsureProgress ==
  /\ pc = "progress"
  /\ progress' = [progress EXCEPT !.directory = TRUE]
  /\ IF state.phase = "building" THEN ReplacePhase("ready", "records") ELSE Go("records")
  /\ UNCHANGED <<legacy, state, temp, brain, review, manifest, hook, crashes>>

Unrecorded == {i \in DOMAIN Candidates : progress.record[Candidates[i]] = "none"}
TornRecord == \E s \in Source : progress.record[s] = "torn" \/ progress.update[s] = "torn"

\* A record is created under its own name, then written.
WriteRecord ==
  /\ \/ /\ pc = "records"
        /\ \E i \in Unrecorded :
             /\ \A j \in Unrecorded : i <= j
             /\ progress' = [progress EXCEPT !.record[Candidates[i]] = "torn"]
             /\ pc' = "record" /\ seen' = i
     \/ /\ pc = "record"
        /\ progress' = [progress EXCEPT !.record[Candidates[seen]] = "preparing"]
        /\ pc' = "records" /\ seen' = 0
  /\ UNCHANGED <<legacy, state, temp, brain, review, manifest, goal, held, hook, crashes>>

AdoptUpdate(s) ==
  /\ pc = "records" /\ Unrecorded = {} /\ ~TornRecord
  /\ progress.update[s] = "whole"
  /\ progress' = [progress EXCEPT !.update[s] = "none", !.record[s] = "prepared"]
  /\ UNCHANGED <<legacy, state, temp, brain, review, manifest, control, hook, crashes>>

AfterRecords ==
  CASE state.phase = "ready" -> "freeze"
    [] state.phase = "directoryFreezing" -> "freezeDirectory"
    [] state.phase = "directoryFrozen" -> "manifest"
    [] state.phase = "manifestBuilding" -> "manifestWrite"
    [] state.phase = "manifestVerified" -> "manifestPublish"
    [] state.phase = "manifestPublished" -> "legacyFrozen"

CheckRecords ==
  /\ pc = "records" /\ Unrecorded = {}
  /\ TornRecord \/ \A s \in Source : progress.update[s] = "none"
  /\ IF ~TornRecord /\ Intact THEN Go(AfterRecords) ELSE Refuse
  /\ UNCHANGED <<legacy, state, temp, stores, hook, crashes>>

\* The first file that exists and is not frozen yet.
Unfinished == {i \in DOMAIN Candidates : /\ state.digest[Candidates[i]] > 0
                                         /\ Candidates[i] \notin frozen}

\* prepare_freeze copies the file, the record is replaced, publish_freeze renames.
FreezeSource(s) ==
  \/ /\ progress.record[s] = "preparing" /\ progress.copy[s] # "whole"
     /\ \/ progress.copy[s] = "none" /\ progress' = [progress EXCEPT !.copy[s] = "partial"]
        \/ progress.copy[s] = "partial" /\ progress' = [progress EXCEPT !.copy[s] = "whole"]
     /\ UNCHANGED frozen
  \/ /\ progress.record[s] = "preparing" /\ progress.copy[s] = "whole"
     /\ \/ progress.update[s] = "none" /\ progress' = [progress EXCEPT !.update[s] = "torn"]
        \/ progress.update[s] = "torn" /\ progress' = [progress EXCEPT !.update[s] = "whole"]
        \/ /\ progress.update[s] = "whole"
           /\ progress' = [progress EXCEPT !.update[s] = "none", !.record[s] = "prepared"]
     /\ UNCHANGED frozen
  \/ /\ progress.record[s] = "prepared"
     /\ progress' = [progress EXCEPT !.copy[s] = "none"]
     /\ frozen' = frozen \cup {s}

FreezeFile ==
  /\ pc = "freeze"
  /\ \E i \in Unfinished : (\A j \in Unfinished : i <= j) /\ FreezeSource(Candidates[i])
  /\ UNCHANGED <<src, sealed, state, temp, brain, review, manifest, control, hook, crashes>>

FilesFrozen ==
  /\ pc = "freeze" /\ Unfinished = {}
  /\ ReplacePhase("directoryFreezing", "freezeDirectory")
  /\ UNCHANGED <<legacy, state, temp, stores, hook, crashes>>

FreezeDirectory ==
  /\ pc = "freezeDirectory"
  /\ sealed' = TRUE
  /\ ReplacePhase("directoryFrozen", "manifest")
  /\ UNCHANGED <<src, frozen, state, temp, stores, hook, crashes>>

WriteManifest ==
  /\ \/ /\ pc = "manifest"
        /\ ReplacePhase("manifestBuilding", "manifestWrite") /\ UNCHANGED manifest
     \/ /\ pc = "manifestWrite"
        /\ \/ manifest = "none" /\ manifest' = "torn" /\ Go("manifestFill")
           \/ manifest = "torn" /\ Refuse /\ UNCHANGED manifest
           \/ /\ manifest = "staging"
              /\ ReplacePhase("manifestVerified", "manifestPublish") /\ UNCHANGED manifest
     \/ pc = "manifestFill" /\ manifest' = "staging" /\ Go("manifestWrite")
  /\ UNCHANGED <<legacy, state, temp, brain, review, progress, hook, crashes>>

PublishManifest ==
  /\ pc = "manifestPublish"
  /\ \/ manifest = "staging" /\ manifest' = "linked" /\ Go("manifestPublish")
     \/ manifest = "linked" /\ manifest' = "published" /\ Go("manifestPublish")
     \/ /\ manifest = "published"
        /\ ReplacePhase("manifestPublished", "legacyFrozen") /\ UNCHANGED manifest
  /\ UNCHANGED <<legacy, state, temp, brain, review, progress, hook, crashes>>

MarkFrozen ==
  /\ pc = "legacyFrozen"
  /\ Replace("status", [state EXCEPT !.status = "legacyFrozen"], "completeRow")
  /\ UNCHANGED <<legacy, state, temp, stores, held, hook, crashes>>

\* complete_published_migration: the mark, the change to WAL mode, the close.
CompleteRow ==
  /\ \/ /\ pc = "completeRow"
        /\ brain' = [brain EXCEPT !.row = "complete"] /\ Go("enterWal")
     \/ /\ pc = "enterWal"
        /\ brain' = [brain EXCEPT !.sidecars = TRUE] /\ Go("closeRow")
     \/ /\ pc = "closeRow"
        /\ brain' = [brain EXCEPT !.sidecars = FALSE]
        /\ Replace("status", [state EXCEPT !.status = "complete"], "idle") /\ UNCHANGED held
  /\ UNCHANGED <<legacy, state, temp, review, progress, manifest, hook, crashes>>
--------------------------------------------------------------------------------
Step ==
  \/ Start \/ CreateState \/ Recover \/ Rebase \/ Validate \/ Exit
  \/ OpenTemp \/ WriteTemp \/ RenameTemp
  \/ Discard \/ Stage \/ Import \/ Compare \/ Publish \/ Announce
  \/ ReadReview \/ JudgeReview \/ BuildReview \/ CloseReview \/ PublishReview
  \/ FreezeGuard \/ EnsureProgress \/ WriteRecord \/ CheckRecords
  \/ \E s \in Source : AdoptUpdate(s)
  \/ FreezeFile \/ FilesFrozen \/ FreezeDirectory
  \/ WriteManifest \/ PublishManifest \/ MarkFrozen \/ CompleteRow

Environment ==
  \/ \E s \in Source : LegacyWrite(s)
  \/ Crash
  \/ HookLoad \/ HookLook \/ HookOpen \/ HookDone

Next == Step \/ Environment

\* A coordinator that runs goes on, and some ordinary command is run again.
Spec == Init /\ [][Next]_vars /\ WF_vars(Step)
--------------------------------------------------------------------------------
(* Properties.                                                             *)

DiskTypes ==
  /\ src \in [Source -> Nat] /\ frozen \subseteq Source /\ sealed \in BOOLEAN
  /\ state \in StateFile \cup {None, Torn}
  /\ temp \in Replacement \cup {None}
  /\ brain \in [place : {"none", "staging", "linked", "canonical"},
                row : {"new", "in_progress", "complete"},
                rows : [BrainSource -> Nat], sidecars : BOOLEAN]
  /\ review \in [place : {"none", "staging", "linked", "canonical"},
                 content : {"none", "open", "empty", "full"}]
  /\ progress \in [directory : BOOLEAN,
                   record : [Source -> {"none", "torn", "preparing", "prepared"}],
                   update : [Source -> {"none", "torn", "whole"}],
                   copy : [Source -> {"none", "partial", "whole"}]]
  /\ manifest \in {"none", "torn", "staging", "linked", "published"}

RunTypes ==
  /\ pc \in Running \cup {"idle", "refused"}
  /\ goal \in Goal \cup {None}
  /\ seen \in Nat /\ held \in BOOLEAN
  /\ hook \in {"idle", "unmanaged", "opening", "admitted"}
  /\ crashes \in 0 .. MaxCrashes

\* The type invariant.
TypeOK == DiskTypes /\ RunTypes

\* What a hook is admitted to is the whole history: the database holds every legacy
\* file as it was frozen, and no process of the old binary can go on writing one.  It
\* matters that a hook decides on three reads with anything in between: the state
\* file, the database's name, the mark in it.
AdmittedSeesHistory ==
  hook = "admitted" =>
    \A s \in BrainSource : brain.rows[s] > 0 =>
      Frozen(s) /\ src[s] = brain.rows[s]

\* A file created and never filled.
TornFile ==
  \/ state = Torn
  \/ temp # None /\ temp.to = Torn
  \/ TornRecord
  \/ manifest = "torn"

\* A database whose writer died inside a step that leaves it unusable.
HalfStore ==
  \/ brain.place = "staging" /\ brain.row = "new"
  \/ brain.sidecars
  \/ review.content = "open"

\* A copy of a journal that the freeze left in the journal directory.
OwnCopy == progress.copy[Journals] # "none"

\* A legacy file was written after what the state recorded of it.
Moved ==
  /\ state \notin {None, Torn}
  /\ \/ state.phase = "pending" /\ ~Unmoved
     \/ /\ state.status = "published" /\ state.phase = "pending"
        /\ ReviewIncluded /\ src[Review] # state.mark
     \/ temp # None /\ temp.kind = "review" /\ temp.to # Torn /\ src[Review] # temp.to.mark
     \/ state.phase # "pending" /\ ~Intact

\* A run refuses to go on only for one of these four reasons: every other point at
\* which a run can die is one the next run starts again from.
RefusalHasCause == pc = "refused" => TornFile \/ HalfStore \/ OwnCopy \/ Moved

\* The tests kill the freeze after each of its synced steps and expect the next run
\* to complete (tests/storage_migration.rs:1038): a run does not refuse because of a
\* whole copy the freeze itself made.
FreezeIsResumed ==
  pc = "refused" /\ progress.copy[Journals] = "whole" => TornFile \/ HalfStore \/ Moved

\* If the coordinator dies only so often and the command is run again, the cutover is
\* completed, or a run refuses for one of the four reasons.
CutoverHappens ==
  <>(\/ state \notin {None, Torn} /\ state.status = "complete"
     \/ pc = "refused" /\ (TornFile \/ HalfStore \/ OwnCopy \/ Moved))

\* The store has its content from the moment its name is linked, and the authority
\* from the moment its own mark says so.
History == INSTANCE Cutover
  WITH Source <- BrainSource, Empty <- None,
       legacy <- Fingerprints,
       store <- IF brain.place \in {"linked", "canonical"} THEN brain.rows ELSE None,
       authority <- IF brain.row = "complete" /\ brain.place = "canonical"
                    THEN "store" ELSE "files"

\* Whatever the coordinator, its crashes and the old processes do, the history is in
\* the files or in the store and never in both.
ImplementsCutover == History!Spec
--------------------------------------------------------------------------------
(* The inductive invariant behind AdmittedSeesHistory and ImplementsCutover. *)

\* Where a coordinator can be that works from the state st.
At(p, st) ==
  /\ p \in {"rebase", "discard", "restage", "stage", "import"} => st.status = "building"
  /\ p \in {"publish", "republish"} => st.status = "verified"
  /\ p \in {"review", "reviewRead", "reviewCreated", "reviewFilled", "freezeGuard",
            "progress", "records", "record", "freeze", "freezeDirectory", "manifest",
            "manifestWrite", "manifestFill", "manifestPublish", "legacyFrozen"}
       => st.status = "published"
  /\ p = "progress" => st.phase # "pending"
  /\ p \in {"records", "record"} => st.phase \notin {"pending", "building"}
  /\ p = "freeze" => st.phase = "ready"
  /\ p = "freezeDirectory" => st.phase = "directoryFreezing"
  /\ p = "manifest" => st.phase = "directoryFrozen"
  /\ p \in {"manifestWrite", "manifestFill"} => st.phase = "manifestBuilding"
  /\ p = "manifestPublish" => st.phase = "manifestVerified"
  /\ p = "legacyFrozen" => st.phase = "manifestPublished"
  /\ p \in {"completeRow", "enterWal", "closeRow"} => st.status = "legacyFrozen"

Over(st) == st.status \in {"legacyFrozen", "complete"}

\* What a state file claims is true.
Sound(st) ==
  /\ \A s \in BrainSource : st.fp[s] <= src[s]
  /\ st.status # "building" => brain.rows = st.fp
  /\ st.phase # "pending" => /\ st.status \notin {"building", "verified"}
                             /\ \A s \in BrainSource : st.digest[s] = st.fp[s]
  /\ st.phase \notin {"pending", "building", "ready"} =>
       \A s \in BrainSource : st.digest[s] > 0 => s \in frozen
  /\ st.phase \notin {"pending", "building", "ready", "directoryFreezing"} => sealed
  /\ Over(st) => st.phase = "manifestPublished"

\* No replacement of a state goes back.
Follows(st, next) ==
  /\ st.phase # "pending" => next.phase # "pending" /\ next.digest = st.digest
  /\ Over(st) => Over(next)

StateIsSound == state \notin {None, Torn} => Sound(state)
GoalFits ==
  /\ pc \in {"open", "write", "rename"} <=> goal # None
  /\ goal # None => Sound(goal.next) /\ Follows(state, goal.next) /\ At(goal.then, goal.next)
TempFits ==
  /\ temp # None => /\ state \notin {None, Torn}
                    /\ pc \in {"idle", "refused", "recover", "write", "rename"}
                    /\ temp.to # Torn => Sound(temp.to) /\ Follows(state, temp.to)
  /\ pc \in {"write", "rename"} => temp # None
  /\ pc = "rename" => temp.to = goal.next
RunFits ==
  /\ pc = "create" => state \in {None, Torn}
  /\ pc \notin {"idle", "refused", "create"} => state \notin {None, Torn} /\ At(pc, state)
  /\ pc \in {"discard", "restage", "import"} => brain.place = "staging"
  /\ pc = "stage" => brain.place \in {"none", "staging"}
Untouched ==
  state \in {None, Torn} => frozen = {} /\ ~sealed /\ brain.row # "complete"
FrozenStays ==
  \A s \in BrainSource : Frozen(s) => state.phase # "pending" /\ src[s] = state.digest[s]

\* While files are frozen nobody writes, and what was recorded of them still holds.
Freezing == {"progress", "records", "record", "freeze", "freezeDirectory"}
FreezeIsQuiet ==
  /\ pc \in Freezing => held
  /\ pc \in {"freeze", "freezeDirectory"} => \A s \in BrainSource : src[s] = state.digest[s]
  /\ goal # None /\ goal.then \in Freezing => held
  /\ goal # None /\ goal.then = "freezeDirectory" =>
       \A s \in BrainSource : src[s] = goal.next.digest[s]
ImportIsCurrent ==
  pc = "import" => /\ seen <= Len(Order)
                   /\ \A i \in 1 .. seen : LET s == Order[i] IN
                        state.fp[s] <= brain.rows[s] /\ brain.rows[s] <= src[s]
MarkIsLast == brain.row = "complete" => Over(state)
HookSeesMark == hook = "admitted" => brain.row = "complete"

IInv == /\ TypeOK /\ StateIsSound /\ GoalFits /\ TempFits /\ RunFits /\ Untouched
        /\ FrozenStays /\ FreezeIsQuiet /\ ImportIsCurrent /\ MarkIsLast /\ HookSeesMark
--------------------------------------------------------------------------------
(* The inductive invariant behind RefusalHasCause, on top of IInv.           *)

Caused == TornFile \/ HalfStore \/ OwnCopy \/ Moved

\* What a state file says of the stores, and the versions it names, are real.
Real(st) ==
  /\ st.status = "building" => brain.place \in {"none", "staging"}
  /\ st.status = "verified" => brain.place # "none"
  /\ st.status \in {"verified", "published"} => brain.row = "in_progress"
  /\ st.status \notin {"building", "verified"} => brain.place = "canonical"
  /\ st.status = "complete" => brain.row = "complete"
  /\ st.review = "pending" => review.place = "none"
  /\ st.review = "building" => review.place \in {"none", "staging"}
  /\ st.review = "verified" => review.place # "none"
  /\ st.review = "published" => review.place = "canonical"
  /\ st.phase \notin {"manifestBuilding", "manifestVerified", "manifestPublished"} =>
       manifest = "none"
  /\ st.phase = "manifestBuilding" => manifest \in {"none", "torn", "staging"}
  /\ st.phase = "manifestVerified" => manifest \in {"staging", "linked", "published"}
  /\ st.phase = "manifestPublished" => manifest = "published"
  /\ st.mark <= src[Review] /\ st.digest[Review] <= src[Review]

\* What may replace a state, in a replacement of kind k.
Leads(k, st, next) ==
  /\ k = "status" => /\ next.phase = st.phase /\ next.status # "building"
                     /\ next.status = "verified" => st.status = "building"
                     /\ next.status = "published" => st.status = "verified"
  /\ k = "review" => /\ next.review = "building" => st.review = "pending"
                     /\ next.review = "verified" => st.review = "building"
                     /\ next.review = "raced" => next.mark < src[Review]

StateIsReal ==
  /\ state \notin {None, Torn} => Real(state)
  /\ state \in {None, Torn} =>
       brain.place = "none" /\ review.place = "none" /\ manifest = "none"
  /\ review.place = "none" <=> review.content = "none"
ReplacementIsReal ==
  /\ goal # None => Real(goal.next) /\ Leads(goal.kind, state, goal.next)
  /\ temp # None /\ temp.to # Torn => Real(temp.to) /\ Leads(temp.kind, state, temp.to)
  /\ pc = "write" => temp.kind = goal.kind
RunIsReal ==
  /\ pc = "import" => brain.row = "in_progress"
  /\ pc = "reviewRead" => state.review = "pending" /\ seen <= src[Review]
  /\ pc \in {"reviewCreated", "reviewFilled"} =>
       state.review = "building" /\ review.place = "staging"
  /\ pc \in {"enterWal", "closeRow"} => brain.row = "complete"

CInv == StateIsReal /\ ReplacementIsReal /\ RunIsReal /\ RefusalHasCause
================================================================================
