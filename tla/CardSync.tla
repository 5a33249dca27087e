------------------------------ MODULE CardSync ------------------------------
(***************************************************************************)
(* The import of Scryfall's bulk file into the catalogue of cards          *)
(* (src/backend/internal/cards/{scheduler,sync,scryfall,transform}.go,     *)
(* db/cards.sql.go), beside the users whose cubes and collections refer    *)
(* to cards.                                                               *)
(*                                                                         *)
(* One goroutine syncs: it runs at boot and on every tick.  Each of its    *)
(* statements is a step; the upsert and the delete share a transaction.    *)
(* The process may die between any two steps, a statement or the download  *)
(* may fail, and Scryfall may publish the next file at any time.           *)
(*                                                                         *)
(* The data of a card is the number of the file it came from.  A user's    *)
(* reference to a card is a transaction of two steps, because its foreign  *)
(* key locks the card against the delete from its insert to its commit.    *)
(***************************************************************************)
EXTENDS Integers, Sequences, FiniteSets

CONSTANTS
    Cards,         \* printings that a bulk file may contain
    MaxFiles,      \* bound on the files that Scryfall publishes
    MaxFaults,     \* bound on crashes and failed steps
    MaxEdits       \* bound on the references that users add

ASSUME BoundsAreNat == MaxFiles \in Nat /\ MaxFaults \in Nat /\ MaxEdits \in Nat

VARIABLES
    files,      \* the playable cards of each file; the last one is described
    cards,      \* the catalogue: the file of a card's data, 0 if it is absent
    staging,    \* cards_staging, the same way
    succeeded,  \* bulk_updated_at of the succeeded runs, in order of id
    abandoned,  \* some 'running' row belongs to no sync in progress
    sync,       \* the scheduler: step, the described file, cards yet to copy
    doomed,     \* rows that the delete statement has chosen
    refs,       \* cards that cube or collection rows refer to
    pending,    \* ... and those whose transaction has not committed
    faults, added,
    imported    \* history: the file of the last committed import

syncVars == <<staging, succeeded, abandoned, sync, doomed>>
userVars == <<refs, pending, added>>
vars == <<files, cards, syncVars, userVars, faults, imported>>

Steps == {"down", "boot", "idle", "described", "created", "copying", "copied",
          "deleting", "deleted", "importedRun", "failed"}

FileOf(v) == IF v \in 1..Len(files) THEN files[v] ELSE {}

Known == {c \in Cards : cards[c] # 0}
Staged == {c \in Cards : staging[c] # 0}

-----------------------------------------------------------------------------
(* The scheduler *)

Init ==
    /\ files = <<>>
    /\ cards = [c \in Cards |-> 0]
    /\ staging = [c \in Cards |-> 0]
    /\ succeeded = <<>>
    /\ abandoned = FALSE
    /\ sync = [step |-> "down", file |-> 0, todo |-> {}]
    /\ doomed = {}
    /\ refs = {} /\ pending = {}
    /\ faults = 0 /\ added = 0
    /\ imported = 0

Goto(step) == sync' = [sync EXCEPT !.step = step]

Boot ==
    /\ sync.step = "down"
    /\ Goto("boot")
    /\ UNCHANGED <<files, cards, staging, succeeded, abandoned, doomed, userVars, faults, imported>>

\* FailStaleRunningSyncRuns, then the first sync; a failure is only logged.
Describe ==
    /\ sync.step \in {"boot", "idle"}
    /\ files # <<>>
    /\ sync' = [step |-> "described", file |-> Len(files), todo |-> {}]
    /\ abandoned' = (abandoned /\ sync.step # "boot")
    /\ UNCHANGED <<files, cards, staging, succeeded, doomed, userVars, faults, imported>>

LastSucceeded == IF succeeded = <<>> THEN 0 ELSE succeeded[Len(succeeded)]

\* Mutant: a file that was imported is imported again.
OlderThanLast == LastSucceeded > sync.file

\* GetLastSucceededSyncRun: import only what is newer.
UpToDate == LastSucceeded >= sync.file

Skip ==
    /\ sync.step = "described"
    /\ UpToDate
    /\ Goto("idle")
    /\ UNCHANGED <<files, cards, staging, succeeded, abandoned, doomed, userVars, faults, imported>>

CreateSyncRun ==
    /\ sync.step = "described"
    /\ ~UpToDate
    /\ Goto("created")
    /\ UNCHANGED <<files, cards, staging, succeeded, abandoned, doomed, userVars, faults, imported>>

\* Mutant: the rows of the last run stay in the staging table.
NotTruncated == staging

Truncated == [c \in Cards |-> 0]

TruncateCardsStaging ==
    /\ sync.step = "created"
    /\ staging' = Truncated
    /\ sync' = [sync EXCEPT !.step = "copying", !.todo = FileOf(sync.file)]
    /\ UNCHANGED <<files, cards, succeeded, abandoned, doomed, userVars, faults, imported>>

\* copyBatch, straight into the table: no transaction spans the batches.
CopyBatch(batch) ==
    /\ sync.step = "copying"
    /\ batch # {} /\ batch \subseteq sync.todo
    /\ staging' = [c \in Cards |-> IF c \in batch THEN sync.file ELSE staging[c]]
    /\ sync' = [sync EXCEPT !.todo = @ \ batch]
    /\ UNCHANGED <<files, cards, succeeded, abandoned, doomed, userVars, faults, imported>>

\* ErrEmptyBulkFile: the delete would wipe the catalogue.
Importable == Staged # {}

EndOfFile ==
    /\ sync.step = "copying"
    /\ sync.todo = {}
    /\ Goto(IF Importable THEN "copied" ELSE "failed")
    /\ UNCHANGED <<files, cards, staging, succeeded, abandoned, doomed, userVars, faults, imported>>

\* Mutant: the delete does not look at cubes and collections.
MissingOrReferenced == Known \ Staged

\* The statement DeleteCardsMissingFromStaging chooses its rows when it
\* starts: absent from the file, and referred to by no row it can see.
Missing == (Known \ Staged) \ refs

ImportBegins ==
    /\ sync.step = "copied"
    /\ doomed' = Missing
    /\ Goto("deleting")
    /\ UNCHANGED <<files, cards, staging, succeeded, abandoned, userVars, faults, imported>>

\* Mutant: no foreign key from cubes and collections to cards.
DeleteUnchecked ==
    /\ sync.step = "deleting"
    /\ Goto("deleted")
    /\ UNCHANGED <<files, cards, staging, succeeded, abandoned, doomed, userVars, faults, imported>>

\* It waits for transactions that hold a chosen row; the foreign keys of
\* those that committed meanwhile fail it.
DeleteCards ==
    /\ sync.step = "deleting"
    /\ doomed \cap pending = {}
    /\ Goto(IF doomed \cap refs = {} THEN "deleted" ELSE "failed")
    /\ doomed' = IF doomed \cap refs = {} THEN doomed ELSE {}
    /\ UNCHANGED <<files, cards, staging, succeeded, abandoned, userVars, faults, imported>>

\* Mutant: "on conflict do nothing".
InsertAndDelete ==
    [c \in Cards |-> IF cards[c] = 0 THEN staging[c]
                     ELSE IF c \in doomed THEN 0 ELSE cards[c]]

UpsertAndDelete ==
    [c \in Cards |-> IF c \in Staged THEN staging[c]
                     ELSE IF c \in doomed THEN 0 ELSE cards[c]]

CommitImport ==
    /\ sync.step = "deleted"
    /\ cards' = UpsertAndDelete
    /\ imported' = sync.file
    /\ doomed' = {}
    /\ Goto("importedRun")
    /\ UNCHANGED <<files, staging, succeeded, abandoned, userVars, faults>>

FinishSyncRunSuccess ==
    /\ sync.step = "importedRun"
    /\ succeeded' = Append(succeeded, sync.file)
    /\ Goto("idle")
    /\ UNCHANGED <<files, cards, staging, abandoned, doomed, userVars, faults, imported>>

FinishSyncRunFailure ==
    /\ sync.step = "failed"
    /\ Goto("idle")
    /\ UNCHANGED <<files, cards, staging, succeeded, abandoned, doomed, userVars, faults, imported>>

-----------------------------------------------------------------------------
(* Faults: a step fails, its record fails, the process dies *)

Fault == faults < MaxFaults /\ faults' = faults + 1

\* The metadata or the first queries: nothing was begun.
DescribeFails ==
    /\ Fault
    /\ sync.step = "described"
    /\ Goto("idle")
    /\ UNCHANGED <<files, cards, staging, succeeded, abandoned, doomed, userVars, imported>>

\* Truncate, download, copy, upsert, delete or commit.
ImportFails ==
    /\ Fault
    /\ sync.step \in {"created", "copying", "copied", "deleting", "deleted"}
    /\ Goto("failed")
    /\ doomed' = {}
    /\ UNCHANGED <<files, cards, staging, succeeded, abandoned, userVars, imported>>

\* The run's row stays 'running' until the next boot.
RecordFails ==
    /\ Fault
    /\ sync.step \in {"importedRun", "failed"}
    /\ Goto("idle")
    /\ abandoned' = TRUE
    /\ UNCHANGED <<files, cards, staging, succeeded, doomed, userVars, imported>>

InRun == sync.step \notin {"down", "boot", "idle", "described"}

Crash ==
    /\ Fault
    /\ sync.step # "down"
    /\ sync' = [step |-> "down", file |-> 0, todo |-> {}]
    /\ doomed' = {}
    /\ abandoned' = (abandoned \/ InRun)
    /\ UNCHANGED <<files, cards, staging, succeeded, userVars, imported>>

-----------------------------------------------------------------------------
(* Scryfall and the users *)

Publish(playable) ==
    /\ Len(files) < MaxFiles
    /\ files' = Append(files, playable)
    /\ UNCHANGED <<cards, syncVars, userVars, faults, imported>>

\* An insert that names the card; while the delete holds it, it waits.
AddReference(c) ==
    /\ added < MaxEdits
    /\ c \in Known \ (refs \cup pending)
    /\ ~(sync.step = "deleted" /\ c \in doomed)
    /\ pending' = pending \cup {c}
    /\ added' = added + 1
    /\ UNCHANGED <<files, cards, syncVars, refs, faults, imported>>

EndReference(c, commits) ==
    /\ c \in pending
    /\ pending' = pending \ {c}
    /\ refs' = IF commits THEN refs \cup {c} ELSE refs
    /\ UNCHANGED <<files, cards, syncVars, added, faults, imported>>

DropReference(c) ==
    /\ c \in refs
    /\ refs' = refs \ {c}
    /\ UNCHANGED <<files, cards, syncVars, pending, added, faults, imported>>

-----------------------------------------------------------------------------
Import ==
    \/ CreateSyncRun
    \/ TruncateCardsStaging
    \/ \E batch \in SUBSET Cards : CopyBatch(batch)
    \/ EndOfFile
    \/ ImportBegins
    \/ DeleteCards
    \/ CommitImport
    \/ FinishSyncRunSuccess
    \/ FinishSyncRunFailure

Next ==
    \/ Boot
    \/ Describe
    \/ Skip
    \/ Import
    \/ DescribeFails \/ ImportFails \/ RecordFails \/ Crash
    \/ \E playable \in SUBSET Cards : Publish(playable)
    \/ \E c \in Cards : AddReference(c) \/ DropReference(c)
    \/ \E c \in Cards, commits \in BOOLEAN : EndReference(c, commits)

Spec == Init /\ [][Next]_vars

\* The process is restarted, its ticker fires, a sync runs to its end, and
\* transactions of users end.
Fairness ==
    /\ WF_vars(Boot) /\ WF_vars(Describe) /\ WF_vars(Skip) /\ WF_vars(Import)
    /\ \A c \in Cards : WF_vars(\E commits \in BOOLEAN : EndReference(c, commits))

FairSpec == Spec /\ Fairness

-----------------------------------------------------------------------------
(* Properties *)

\* The types of the tables and of the sync in progress.
TypeOK ==
    /\ files \in Seq(SUBSET Cards)
    /\ cards \in [Cards -> Nat] /\ staging \in [Cards -> Nat]
    /\ succeeded \in Seq(1..Len(files))
    /\ abandoned \in BOOLEAN
    /\ sync \in [step : Steps, file : 0..Len(files), todo : SUBSET Cards]
    /\ sync.todo \subseteq FileOf(sync.file)
    /\ doomed \in SUBSET Cards
    /\ refs \in SUBSET Cards /\ pending \in SUBSET Cards
    /\ faults \in 0..MaxFaults /\ added \in 0..MaxEdits /\ imported \in 0..Len(files)

\* No row of a user ever refers to a card that the sync took away, whenever
\* the reference was made.
ReferencesKnown == refs \cup pending \subseteq Known

\* The catalogue is one import and what users kept of older ones: exactly the
\* cards of the last imported file carry its data, never a part of it and
\* never a card that an interrupted run left in the staging table.
CatalogueIsImport == \A c \in Cards : c \in FileOf(imported) <=> cards[c] = imported /\ imported # 0

\* A file is recorded as imported once at most, in the order of publication,
\* and only after the import is in the catalogue.
SucceededOnce ==
    /\ \A i, j \in 1..Len(succeeded) : i < j => succeeded[i] < succeeded[j]
    /\ \A i \in 1..Len(succeeded) : succeeded[i] <= imported

\* A card that leaves the catalogue is absent from the file and nobody refers
\* to it; a card that is not in the file is never changed otherwise, and no
\* card comes back that the file does not have.
OnlyTheMissingLeave ==
    [][\A c \in Cards : cards'[c] # cards[c] =>
          c \in FileOf(imported') \/ (cards'[c] = 0 /\ c \notin refs \cup pending)]_vars

\* Faults, edits and files come to an end, and then the catalogue shows the
\* newest file, if it has a playable card; an empty one is never imported.
CatchesUp == <>[](files = <<>> \/ files[Len(files)] = {} \/ imported = Len(files))

=============================================================================
