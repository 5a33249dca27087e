--------------------------- MODULE CardSyncProofs ---------------------------
(***************************************************************************)
(* What the sync keeps, for any catalogue, number of files, faults and     *)
(* references of users.                                                    *)
(*                                                                         *)
(* The properties are not inductive: that the catalogue is one import      *)
(* rests on the staging table, which holds the copied part of the file     *)
(* from the truncation on; that no reference is lost rests on the rows     *)
(* that the delete has chosen; that runs succeed in order rests on the     *)
(* comparison with the last one, and on imports never going back.          *)
(***************************************************************************)
EXTENDS CardSync, TLAPS

Copying == {"copying", "copied", "deleting", "deleted"}

\* From the truncation to the commit, the staging table is the copied part.
StagingIsFile ==
    /\ sync.step \in Copying =>
          \A c \in Cards :
              staging[c] = IF c \in FileOf(sync.file) \ sync.todo THEN sync.file ELSE 0
    /\ sync.step \in Copying \ {"copying"} => sync.todo = {}

\* The chosen rows are absent from the file and, once the delete has run, free.
DoomedIsMissing ==
    /\ sync.step \in {"deleting", "deleted"} => doomed \cap Staged = {}
    /\ sync.step = "deleted" => doomed \cap (refs \cup pending) = {}

\* A run never imports an older file, and only a newer one than was recorded.
ImportsAdvance ==
    /\ sync.step \notin {"down", "boot", "idle"} => sync.file \in 1..Len(files) /\ imported <= sync.file
    /\ InRun => \A i \in 1..Len(succeeded) : succeeded[i] < sync.file
    /\ sync.step = "importedRun" => imported = sync.file
    /\ \A c \in Cards : cards[c] <= imported

SyncInvariant ==
    /\ TypeOK
    /\ ReferencesKnown
    /\ CatalogueIsImport
    /\ SucceededOnce
    /\ StagingIsFile
    /\ DoomedIsMissing
    /\ ImportsAdvance

-----------------------------------------------------------------------------
\* The initial state: no file, no run, an empty catalogue.
LEMMA InitHolds == Init => SyncInvariant
<1> SUFFICES ASSUME Init PROVE SyncInvariant
    OBVIOUS
<1> USE DEF Init
<1>1. TypeOK
  <2>1. files \in Seq(SUBSET Cards) /\ succeeded \in Seq(1..Len(files))
        OBVIOUS
  <2>2. sync \in [step : Steps, file : 0..Len(files), todo : SUBSET Cards]
        BY DEF Steps
  <2>3. faults \in 0..MaxFaults /\ added \in 0..MaxEdits /\ imported \in 0..Len(files)
        BY BoundsAreNat
  <2> QED
      BY <2>1, <2>2, <2>3 DEF TypeOK
<1>2. ReferencesKnown /\ CatalogueIsImport /\ SucceededOnce
      BY DEF ReferencesKnown, CatalogueIsImport, SucceededOnce, FileOf
<1>3. StagingIsFile /\ DoomedIsMissing
      BY DEF StagingIsFile, DoomedIsMissing, Copying
<1>4. ImportsAdvance
      BY DEF ImportsAdvance, InRun
<1> QED
    BY <1>1, <1>2, <1>3, <1>4 DEF SyncInvariant

-----------------------------------------------------------------------------
(* TypeOK in the parts that the provers take one at a time *)

FilesOK  == files \in Seq(SUBSET Cards)
TablesOK == cards \in [Cards -> Nat] /\ staging \in [Cards -> Nat]
RunsOK   == succeeded \in Seq(1..Len(files))
RunOK    == /\ sync \in [step : Steps, file : 0..Len(files), todo : SUBSET Cards]
            /\ sync.todo \subseteq FileOf(sync.file)
FlagOK   == abandoned \in BOOLEAN
RestOK   == /\ doomed \in SUBSET Cards /\ refs \in SUBSET Cards /\ pending \in SUBSET Cards
            /\ faults \in 0..MaxFaults /\ added \in 0..MaxEdits /\ imported \in 0..Len(files)

\* The parts are the whole.
LEMMA TypeParts == TypeOK <=> FilesOK /\ TablesOK /\ RunsOK /\ RunOK /\ FlagOK /\ RestOK
BY DEF TypeOK, FilesOK, TablesOK, RunsOK, RunOK, FlagOK, RestOK

\* A file that is published stays what it is.
LEMMA FilesStay ==
    ASSUME FilesOK, NEW playable \in SUBSET Cards, Publish(playable), sync.file \in 0..Len(files)
    PROVE  FileOf(sync.file)' = FileOf(sync.file)
BY DEF FilesOK, Publish, FileOf, syncVars

\* Every step keeps the types.
LEMMA TypeStep == SyncInvariant /\ [Next]_vars => TypeOK'
<1> SUFFICES ASSUME FilesOK, TablesOK, RunsOK, RunOK, FlagOK, RestOK, ImportsAdvance, [Next]_vars
             PROVE  FilesOK' /\ TablesOK' /\ RunsOK' /\ RunOK' /\ FlagOK' /\ RestOK'
  <2>1. SyncInvariant => FilesOK /\ TablesOK /\ RunsOK /\ RunOK /\ FlagOK /\ RestOK
        BY TypeParts DEF SyncInvariant
  <2>2. FilesOK' /\ TablesOK' /\ RunsOK' /\ RunOK' /\ FlagOK' /\ RestOK' => TypeOK'
        BY DEF TypeOK, FilesOK, TablesOK, RunsOK, RunOK, FlagOK, RestOK
  <2> QED
      BY <2>1, <2>2 DEF SyncInvariant
<1>1. FilesOK' /\ RunsOK'
  <2>1. ASSUME NEW playable \in SUBSET Cards, Publish(playable)
        PROVE  FilesOK' /\ RunsOK'
        BY <2>1 DEF Publish, FilesOK, RunsOK, syncVars
  <2>2. CASE FinishSyncRunSuccess
        BY <2>2 DEF FinishSyncRunSuccess, FilesOK, RunsOK, RunOK, ImportsAdvance
  <2>3. CASE UNCHANGED <<files, succeeded>>
        BY <2>3 DEF FilesOK, RunsOK
  <2> QED
      BY <2>1, <2>2, <2>3
      DEF Next, Import, Boot, Skip, CreateSyncRun, Describe, TruncateCardsStaging, CopyBatch,
          EndOfFile, ImportBegins, DeleteCards, CommitImport, FinishSyncRunFailure,
          DescribeFails, ImportFails, RecordFails, Crash, AddReference, DropReference,
          EndReference, vars, syncVars, userVars
<1>2. TablesOK'
  <2>1. CASE TruncateCardsStaging \/ CommitImport
        BY <2>1 DEF TablesOK, RunOK, TruncateCardsStaging, Truncated, CommitImport,
                    UpsertAndDelete
  <2>2. ASSUME NEW batch \in SUBSET Cards, CopyBatch(batch)
        PROVE  TablesOK'
        BY <2>2 DEF TablesOK, RunOK, CopyBatch
  <2>3. CASE UNCHANGED <<cards, staging>>
        BY <2>3 DEF TablesOK
  <2> QED
      BY <2>1, <2>2, <2>3
      DEF Next, Import, Boot, Skip, CreateSyncRun, Describe, EndOfFile, ImportBegins,
          DeleteCards, FinishSyncRunSuccess, FinishSyncRunFailure, DescribeFails, ImportFails,
          RecordFails, Crash, Publish, AddReference, DropReference, EndReference, vars,
          syncVars, userVars
<1>3. RunOK'
  <2> USE DEF RunOK, Steps, Goto
  <2>1. ASSUME NEW playable \in SUBSET Cards, Publish(playable)
        PROVE  RunOK'
    <3>1. FileOf(sync.file)' = FileOf(sync.file)
          BY <2>1, FilesStay
    <3>2. Len(files') = Len(files) + 1
          BY <2>1 DEF Publish, FilesOK
    <3> QED
        BY <3>1, <3>2, <2>1 DEF Publish, syncVars, FilesOK
  <2>2. CASE Describe
        BY <2>2 DEF Describe, FileOf, FilesOK
  <2>3. CASE TruncateCardsStaging
    <3>1. /\ sync' = [sync EXCEPT !.step = "copying", !.todo = FileOf(sync.file)]
          /\ files' = files
          BY <2>3 DEF TruncateCardsStaging
    <3>2. FileOf(sync.file) \in SUBSET Cards
          BY DEF FileOf, FilesOK
    <3>3. sync'.file = sync.file /\ sync'.todo = FileOf(sync.file)
          BY <3>1
    <3>4. FileOf(sync.file)' = FileOf(sync.file)
          BY <3>1, <3>3 DEF FileOf
    <3> QED
        BY <3>1, <3>2, <3>3, <3>4
  <2>4. ASSUME NEW batch \in SUBSET Cards, CopyBatch(batch)
        PROVE  RunOK'
    <3>1. sync' = [sync EXCEPT !.todo = @ \ batch] /\ files' = files
          BY <2>4 DEF CopyBatch
    <3>2. sync' \in [step : Steps, file : 0..Len(files), todo : SUBSET Cards]
          BY <3>1
    <3>3. sync'.file = sync.file /\ sync'.todo \subseteq sync.todo
          BY <3>1
    <3> QED
        BY <3>1, <3>2, <3>3 DEF FileOf
  <2>5. CASE Crash
        BY <2>5 DEF Crash, FileOf, FilesOK
  <2>6. CASE Boot \/ Skip \/ CreateSyncRun \/ EndOfFile \/ ImportBegins \/ DeleteCards
             \/ CommitImport \/ FinishSyncRunSuccess \/ FinishSyncRunFailure
             \/ DescribeFails \/ ImportFails \/ RecordFails
    <3>1. /\ sync' \in [step : Steps, file : 0..Len(files), todo : SUBSET Cards]
          /\ sync'.file = sync.file /\ sync'.todo = sync.todo
          /\ files' = files
          BY <2>6 DEF Boot, Skip, CreateSyncRun, EndOfFile, ImportBegins, DeleteCards,
                      CommitImport, FinishSyncRunSuccess, FinishSyncRunFailure,
                      DescribeFails, ImportFails, RecordFails
    <3> QED
        BY <3>1 DEF FileOf
  <2>7. CASE UNCHANGED <<files, sync>>
        BY <2>7 DEF FileOf
  <2> QED
      BY <2>1, <2>2, <2>3, <2>4, <2>5, <2>6, <2>7
      DEF Next, Import, AddReference, DropReference, EndReference, vars, syncVars
<1>4. FlagOK'
      BY DEF FlagOK, InRun, Boot, Skip, CreateSyncRun, Describe, TruncateCardsStaging, CopyBatch,
             EndOfFile, ImportBegins, DeleteCards, CommitImport, FinishSyncRunSuccess,
             FinishSyncRunFailure, DescribeFails, ImportFails, RecordFails, Crash, Publish,
             AddReference, DropReference, EndReference, vars, syncVars, Next, Import
<1>5. RestOK'
      BY BoundsAreNat, SMTT(20)
      DEF RestOK, RunOK, FilesOK, Missing, Known, Boot, Skip, CreateSyncRun, Describe,
          TruncateCardsStaging, CopyBatch, EndOfFile, ImportBegins, DeleteCards, CommitImport,
          FinishSyncRunSuccess, FinishSyncRunFailure, DescribeFails, ImportFails, RecordFails,
          Crash, Publish, AddReference, DropReference, EndReference, vars, syncVars, userVars,
          Next, Import, Fault
<1> QED
    BY <1>1, <1>2, <1>3, <1>4, <1>5

-----------------------------------------------------------------------------
(* The parts of the invariant, one lemma each *)

\* No step loses a card that somebody refers to: the delete waits for the
\* references it cannot see yet, and fails if they commit.
LEMMA ReferencesStep == SyncInvariant /\ [Next]_vars => ReferencesKnown'
<1> SUFFICES ASSUME SyncInvariant, [Next]_vars
             PROVE  ReferencesKnown'
    OBVIOUS
<1> USE DEF SyncInvariant, ReferencesKnown, Known, TypeOK, syncVars, userVars
<1>1. CASE CommitImport
  <2>1. ASSUME NEW c \in refs \cup pending
        PROVE  c \in Cards /\ cards'[c] # 0
    <3>1. cards[c] # 0 /\ c \notin doomed
          BY <1>1 DEF CommitImport, DoomedIsMissing
    <3> QED
        BY <3>1, <1>1 DEF CommitImport, UpsertAndDelete, Staged
  <2> QED
      BY <2>1, <1>1 DEF CommitImport
<1>2. CASE \E c \in Cards : AddReference(c) \/ DropReference(c)
      BY <1>2 DEF AddReference, DropReference
<1>3. CASE \E c \in Cards, commits \in BOOLEAN : EndReference(c, commits)
      BY <1>3 DEF EndReference
<1>4. CASE UNCHANGED <<cards, userVars>>
      BY <1>4
<1> QED
    BY <1>1, <1>2, <1>3, <1>4
    DEF Next, Import, Boot, Describe, Skip, CreateSyncRun, TruncateCardsStaging, CopyBatch,
        EndOfFile, ImportBegins, DeleteCards, FinishSyncRunSuccess, FinishSyncRunFailure,
        DescribeFails, ImportFails, RecordFails, Crash, Publish, vars

\* The staging table follows the run, from the truncation to the commit.
LEMMA StagingStep == SyncInvariant /\ [Next]_vars => StagingIsFile'
<1> SUFFICES ASSUME SyncInvariant, [Next]_vars
             PROVE  StagingIsFile'
    OBVIOUS
<1> USE DEF SyncInvariant, TypeOK, StagingIsFile, Copying, syncVars, userVars
<1>1. CASE TruncateCardsStaging
      BY <1>1 DEF TruncateCardsStaging, Truncated, FileOf
<1>2. ASSUME NEW batch \in SUBSET Cards, CopyBatch(batch)
      PROVE  StagingIsFile'
      BY <1>2 DEF CopyBatch, FileOf
<1>3. CASE EndOfFile \/ ImportBegins \/ DeleteCards
      BY <1>3 DEF EndOfFile, ImportBegins, DeleteCards, Goto, FileOf
<1>4. ASSUME NEW playable \in SUBSET Cards, Publish(playable)
      PROVE  StagingIsFile'
  <2>1. sync.step \in Copying => FileOf(sync.file)' = FileOf(sync.file)
        BY <1>4 DEF Publish, FileOf, ImportsAdvance
  <2> QED
      BY <2>1, <1>4 DEF Publish
<1>5. CASE Boot \/ Describe \/ Skip \/ CreateSyncRun \/ CommitImport
           \/ FinishSyncRunSuccess \/ FinishSyncRunFailure
      BY <1>5 DEF Boot, Describe, Skip, CreateSyncRun, CommitImport, FinishSyncRunSuccess,
                  FinishSyncRunFailure, Goto
<1>6. CASE DescribeFails \/ ImportFails \/ RecordFails \/ Crash
      BY <1>6 DEF DescribeFails, ImportFails, RecordFails, Crash, Goto
<1>7. CASE UNCHANGED <<files, staging, sync>>
      BY <1>7 DEF FileOf
<1> QED
    BY <1>1, <1>2, <1>3, <1>4, <1>5, <1>6, <1>7
    DEF Next, Import, AddReference, DropReference, EndReference, vars

\* The delete has chosen what the file lacks, and deletes what nobody holds.
LEMMA DoomedStep == SyncInvariant /\ [Next]_vars => DoomedIsMissing'
<1> SUFFICES ASSUME SyncInvariant, [Next]_vars
             PROVE  DoomedIsMissing'
    OBVIOUS
<1> USE DEF SyncInvariant, DoomedIsMissing, Staged, syncVars, userVars
<1>1. CASE ImportBegins \/ DeleteCards
      BY <1>1 DEF ImportBegins, DeleteCards, Goto, Missing, TypeOK
<1>2. CASE \E c \in Cards : AddReference(c) \/ DropReference(c)
      BY <1>2 DEF AddReference, DropReference
<1>3. CASE \E c \in Cards, commits \in BOOLEAN : EndReference(c, commits)
      BY <1>3 DEF EndReference
<1>4. CASE UNCHANGED <<staging, sync, doomed, refs, pending>>
      BY <1>4
<1>5. CASE sync'.step \notin {"deleting", "deleted"}
      BY <1>5
<1>6. CASE \/ Boot \/ Describe \/ Skip \/ CreateSyncRun \/ TruncateCardsStaging
           \/ EndOfFile \/ CommitImport \/ FinishSyncRunSuccess \/ FinishSyncRunFailure
           \/ DescribeFails \/ ImportFails \/ RecordFails \/ Crash
           \/ \E batch \in SUBSET Cards : CopyBatch(batch)
  <2> SUFFICES sync'.step \notin {"deleting", "deleted"}
      BY <1>5
  <2> USE DEF TypeOK, Goto
  <2>1. CASE Boot \/ Skip \/ CreateSyncRun \/ EndOfFile \/ CommitImport
             \/ FinishSyncRunSuccess \/ FinishSyncRunFailure
        BY <2>1 DEF Boot, Skip, CreateSyncRun, EndOfFile, CommitImport, FinishSyncRunSuccess,
                    FinishSyncRunFailure
  <2>2. CASE DescribeFails \/ ImportFails \/ RecordFails \/ Crash
        BY <2>2 DEF DescribeFails, ImportFails, RecordFails, Crash
  <2>3. CASE Describe
        BY <2>3 DEF Describe
  <2>4. CASE TruncateCardsStaging
        BY <2>4 DEF TruncateCardsStaging
  <2>5. CASE \E batch \in SUBSET Cards : CopyBatch(batch)
        BY <2>5 DEF CopyBatch
  <2> QED
      BY <1>6, <2>1, <2>2, <2>3, <2>4, <2>5
<1> QED
    BY <1>1, <1>2, <1>3, <1>4, <1>6 DEF Next, Import, Publish, vars

\* The catalogue changes at the commit only, to the file of the run.
LEMMA CatalogueStep ==
    SyncInvariant /\ [Next]_vars => CatalogueIsImport' /\ (\A c \in Cards : cards'[c] <= imported')
<1> SUFFICES ASSUME SyncInvariant, [Next]_vars, NEW c \in Cards
             PROVE  /\ (c \in FileOf(imported))' <=> cards'[c] = imported' /\ imported' # 0
                    /\ cards'[c] <= imported'
    BY DEF CatalogueIsImport
<1> USE DEF SyncInvariant, CatalogueIsImport, ImportsAdvance, TypeOK, syncVars, userVars
<1>1. CASE CommitImport
  <2>1. staging[c] = IF c \in FileOf(sync.file) THEN sync.file ELSE 0
        BY <1>1 DEF CommitImport, StagingIsFile, Copying
  <2>2. /\ sync.file \in Nat \ {0} /\ imported <= sync.file /\ imported \in Nat
        /\ cards[c] \in Nat /\ cards[c] <= imported
        /\ imported' = sync.file
        BY <1>1 DEF CommitImport
  <2>3. cards'[c] = IF c \in FileOf(sync.file) THEN sync.file
                    ELSE IF c \in doomed THEN 0 ELSE cards[c]
        BY <2>1, <2>2, <1>1 DEF CommitImport, UpsertAndDelete, Staged
  <2>4. FileOf(imported)' = FileOf(sync.file)
        BY <1>1 DEF CommitImport, FileOf
  <2>5. CASE c \in FileOf(sync.file)
        BY <2>2, <2>3, <2>4, <2>5
  <2>6. CASE c \notin FileOf(sync.file)
    <3>1. cards[c] # sync.file
          BY <2>2, <2>6
    <3> QED
        BY <2>2, <2>3, <2>4, <2>6, <3>1
  <2> QED
      BY <2>5, <2>6
<1>2. ASSUME NEW playable \in SUBSET Cards, Publish(playable)
      PROVE  /\ (c \in FileOf(imported))' <=> cards'[c] = imported' /\ imported' # 0
             /\ cards'[c] <= imported'
  <2>1. FileOf(imported)' = FileOf(imported)
        BY <1>2 DEF Publish, FileOf
  <2> QED
      BY <2>1, <1>2 DEF Publish
<1>3. CASE UNCHANGED <<files, cards, imported>>
      BY <1>3 DEF FileOf
<1> QED
    BY <1>1, <1>2, <1>3
    DEF Next, Import, Boot, Describe, Skip, CreateSyncRun, TruncateCardsStaging, CopyBatch,
        EndOfFile, ImportBegins, DeleteCards, FinishSyncRunSuccess, FinishSyncRunFailure,
        DescribeFails, ImportFails, RecordFails, Crash, AddReference, DropReference,
        EndReference, vars

\* Runs go through the files in order, and record what they have imported.
LEMMA AdvanceStep == SyncInvariant /\ [Next]_vars => SucceededOnce' /\ ImportsAdvance'
<1> SUFFICES ASSUME SyncInvariant, [Next]_vars
             PROVE  SucceededOnce' /\ ImportsAdvance'
    OBVIOUS
<1>1. \A c \in Cards : cards'[c] <= imported'
      BY CatalogueStep
<1> DEFINE Runs == /\ sync.step \notin {"down", "boot", "idle"} =>
                        sync.file \in 1..Len(files) /\ imported <= sync.file
                   /\ InRun => \A i \in 1..Len(succeeded) : succeeded[i] < sync.file
                   /\ sync.step = "importedRun" => imported = sync.file
<1>2. SucceededOnce' /\ Runs'
  <2> USE DEF SyncInvariant, ImportsAdvance, SucceededOnce, InRun, TypeOK, syncVars, userVars
  <2>1. CASE Describe
        BY <2>1 DEF Describe
  <2>2. CASE CreateSyncRun
    <3>1. \A i \in 1..Len(succeeded) : succeeded[i] < sync.file
      <4>1. ASSUME NEW i \in 1..Len(succeeded)
            PROVE  succeeded[i] < sync.file
        <5>1. succeeded # <<>> /\ Len(succeeded) \in Nat
              BY <4>1
        <5>2. succeeded[Len(succeeded)] < sync.file
              BY <5>1, <2>2 DEF CreateSyncRun, UpToDate, LastSucceeded
        <5>3. succeeded[i] <= succeeded[Len(succeeded)]
          <6>1. succeeded \in Seq(1..Len(files)) /\ Len(files) \in Nat
                OBVIOUS
          <6>2. succeeded[i] \in Nat
                BY ONLY <4>1, <6>1
          <6>3. \A j, k \in 1..Len(succeeded) : j < k => succeeded[j] < succeeded[k]
                OBVIOUS
          <6>4. CASE i < Len(succeeded)
            <7>1. Len(succeeded) \in 1..Len(succeeded)
                  BY ONLY <4>1, <5>1
            <7>2. succeeded[i] < succeeded[Len(succeeded)] /\ succeeded[Len(succeeded)] \in Nat
                  BY ONLY <4>1, <6>1, <6>3, <6>4, <7>1
            <7> QED
                BY ONLY <6>2, <7>2
          <6>5. CASE ~(i < Len(succeeded))
            <7>1. i = Len(succeeded)
                  BY ONLY <4>1, <5>1, <6>5
            <7> QED
                BY ONLY <6>2, <7>1
          <6> QED
              BY ONLY <6>4, <6>5
        <5> QED
            BY <5>1, <5>2, <5>3
      <4> QED
          BY <4>1
    <3> QED
        BY <3>1, <2>2 DEF CreateSyncRun, Goto
  <2>3. ASSUME TruncateCardsStaging \/ (\E batch \in SUBSET Cards : CopyBatch(batch))
        PROVE  SucceededOnce' /\ Runs'
    <3>1. /\ sync'.file = sync.file /\ sync'.step = "copying"
          /\ sync.step \in {"created", "copying"}
          /\ UNCHANGED <<files, succeeded, imported>>
          BY <2>3 DEF TruncateCardsStaging, CopyBatch
    <3> QED
        BY <3>1
  <2>4. CASE EndOfFile \/ ImportBegins \/ DeleteCards
        BY <2>4 DEF EndOfFile, ImportBegins, DeleteCards, Goto
  <2>5. CASE CommitImport
        BY <2>5 DEF CommitImport, Goto
  <2>6. CASE FinishSyncRunSuccess
    <3>1. /\ sync.step = "importedRun" /\ sync'.step = "idle"
          /\ succeeded' = Append(succeeded, sync.file) /\ imported' = imported
          BY <2>6 DEF FinishSyncRunSuccess, Goto
    <3>2. /\ succeeded \in Seq(1..Len(files)) /\ imported = sync.file /\ sync.file \in Nat
          /\ \A i \in 1..Len(succeeded) : succeeded[i] < sync.file
          /\ \A i, j \in 1..Len(succeeded) : i < j => succeeded[i] < succeeded[j]
          /\ \A i \in 1..Len(succeeded) : succeeded[i] <= imported
          BY <3>1
    <3>3. SucceededOnce'
          BY ONLY <3>1, <3>2 DEF SucceededOnce
    <3> QED
        BY <3>1, <3>3
  <2>7. CASE Boot \/ Skip \/ FinishSyncRunFailure \/ DescribeFails \/ RecordFails \/ Crash
        BY <2>7 DEF Boot, Skip, FinishSyncRunFailure, DescribeFails, RecordFails, Crash, Goto
  <2>8. CASE ImportFails
        BY <2>8 DEF ImportFails, Goto
  <2>9. ASSUME NEW playable \in SUBSET Cards, Publish(playable)
        PROVE  SucceededOnce' /\ Runs'
    <3>1. Len(files') = Len(files) + 1 /\ Len(files) \in Nat
          BY <2>9 DEF Publish
    <3> QED
        BY <3>1, <2>9 DEF Publish
  <2>10. CASE UNCHANGED <<files, succeeded, sync, imported>>
        BY <2>10
  <2> QED
      BY <2>1, <2>2, <2>3, <2>4, <2>5, <2>6, <2>7, <2>8, <2>9, <2>10
      DEF Next, Import, AddReference, DropReference, EndReference, vars
<1> QED
    BY <1>1, <1>2 DEF ImportsAdvance, Runs

\* The invariant is inductive.
LEMMA InvariantHolds == Spec => []SyncInvariant
<1>1. SyncInvariant /\ [Next]_vars => SyncInvariant'
      BY TypeStep, ReferencesStep, StagingStep, DoomedStep, CatalogueStep, AdvanceStep
      DEF SyncInvariant
<1> QED
    BY InitHolds, <1>1, PTL DEF Spec

-----------------------------------------------------------------------------
(* The theorems *)

\* The tables and the sync in progress have their types (sync.go, scheduler.go).
THEOREM TypeCorrect == Spec => []TypeOK
BY InvariantHolds, PTL DEF SyncInvariant

\* No card that a cube or a collection refers to leaves the catalogue, whenever
\* the reference was made (DeleteCardsMissingFromStaging and the foreign keys).
THEOREM ReferencesAreKnown == Spec => []ReferencesKnown
BY InvariantHolds, PTL DEF SyncInvariant

\* The catalogue is one import and what users kept of older ones, whatever
\* failed or crashed in between (importBulk).
THEOREM CatalogueIsOneImport == Spec => []CatalogueIsImport
BY InvariantHolds, PTL DEF SyncInvariant

\* A file is recorded once, in order, and after its import (Sync).
THEOREM SucceedsOnce == Spec => []SucceededOnce
BY InvariantHolds, PTL DEF SyncInvariant

\* Only a card that the file lacks and nobody refers to leaves the catalogue,
\* and only a card of the file changes (importBulk).
THEOREM OnlyMissingCardsLeave == Spec => OnlyTheMissingLeave
<1>1. SyncInvariant /\ [Next]_vars =>
          [\A c \in Cards : cards'[c] # cards[c] =>
              c \in FileOf(imported') \/ (cards'[c] = 0 /\ c \notin refs \cup pending)]_vars
  <2> SUFFICES ASSUME SyncInvariant, Next, NEW c \in Cards, cards'[c] # cards[c]
               PROVE  c \in FileOf(imported') \/ (cards'[c] = 0 /\ c \notin refs \cup pending)
      BY DEF vars
  <2>1. CommitImport
        BY DEF Next, Import, Boot, Describe, Skip, CreateSyncRun, TruncateCardsStaging,
               CopyBatch, EndOfFile, ImportBegins, DeleteCards, FinishSyncRunSuccess,
               FinishSyncRunFailure, DescribeFails, ImportFails, RecordFails, Crash, Publish,
               AddReference, DropReference, EndReference, userVars
  <2>2. c \notin doomed => c \in FileOf(sync.file)
        BY <2>1 DEF CommitImport, UpsertAndDelete, Staged, SyncInvariant, StagingIsFile, Copying
  <2>3. c \in doomed => c \notin Staged /\ c \notin refs \cup pending
        BY <2>1 DEF CommitImport, SyncInvariant, DoomedIsMissing
  <2>4. FileOf(imported') = FileOf(sync.file)
        BY <2>1 DEF CommitImport, FileOf
  <2> QED
      BY <2>1, <2>2, <2>3, <2>4 DEF CommitImport, UpsertAndDelete
<1> QED
    BY InvariantHolds, <1>1, PTL DEF Spec, OnlyTheMissingLeave

=============================================================================
