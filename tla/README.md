# Verification of the writing core

TLA+ models, TLC runs and TLAPS proofs about the Rust core of this long-form
writing application (`src/core/writer_core`). The core keeps a workspace of
works (projects), volumes, chapters and star maps as plain files, and
synchronises them between devices through a remote Git repository. What an
author must be able to rely on is that a text he wrote is never silently lost,
torn, deleted or replaced, and that what he deletes stays deleted. The parts of
the core that carry this promise are modelled here. Paths below are relative to
`src/core/writer_core/src` unless they begin with `src/`.

1. The system · 2. Modules · 3. Runs · 4. Proofs · 5. Observations · 6. Plan ·
7. Not modelled

## 1. The system

| Component | State | Operations | Hard behaviour | What makes it correct |
|---|---|---|---|---|
| Save transaction, `storage/transaction` | `app-meta/transactions/<id>/`: staged files, `manifest.json` with a phase, backups, `proof-recovery.json` | `new`, `add_bytes`, `commit`, `finish`, `rollback`, `Drop`, `scan_pending_transactions` | a crash or I/O error between any two disk steps; a replay long after the save | all or nothing; events only for what landed; directories are reclaimed |
| Sync proof events, `sync/proof_intent.rs`; chains, `writing_stats` | intents, the marker `.pending`, a chain of events per chapter | `prepare`, `recover_pending_state`, `cleanup_completed_transactions`, the events and checkpoints of a save | recovery from a transaction's directory alone; events that arrive in another order than the texts | an event for each text that landed, in order |
| Merge, `sync/lww` | `known_files`, `manifest.sync.json`, tombstones, conflicts | `build_local_snapshot`, `merge_remote_into_local_snapshot` | missing files, re-created paths, stale bases, clocks | three-way rule for texts, last writer for the rest; deletes are meant |
| Staging, `sync/staging`, `sync/commit_helpers.rs` | a round's base and staging directories | `build_base_snapshot_from_live`, `seed_from_live`, `compute_commit_plan`, `merge_sync_state_three_way`, commit | the user works on meanwhile | a second comparison at commit; closed conflicts stay closed |
| Conflicts, `sync/conflict.rs` | `conflicts.json`, `conflicted_files` | record, keep_local, take_remote, mark_merged | resolution during a round; a resolution cut in half | the choice holds on every device |
| Publication, `sync/provider/round.rs` | buffered writes of the round | buffer, flush, discard | a head that moved, a lost answer | one push per round; no base without a push |
| Full sync, `api/sync_api.rs`, `sync/full_sync`; target lifecycle, `sync/target_lifecycle` | the catalog of targets, stable trees, the queue of deletions, checkpoints | plan, stage, transfer, publish, commit, finalize | one target of several fails; delete against publish; a work deleted under a round | record and tree in step; the last write stands |
| Journals, `storage/journal` | a journal per deletion, tombstones, the history's head | plan, save, move, mark, clear, resume at start | a crash between two marks; a second program that resumes | finished in the end, nothing forgotten |
| Workspace lock and contributions, `storage/workspace_lock.rs`, `writing_stats/contribution_transaction.rs` | a mutex per process, a lock on a file, a nesting count; directories with backups and events | acquire, release, begin, register, commit, restore on drop, recover | two processes, panics, crashes | one writer; objects and their events agree |
| Star map store, `starmap/store`; its merge, `sync/staging/starmap_merge.rs` | cached map, dirty sets, `graph.json`, object files, delete journal | change, flush, resume; merge of graph and objects at commit | a flush that stops half-way and goes on later; a list and its objects that travel apart | loadable; what was answered stands; the last change of an object stands on all devices |
| Local Git history, editor and undo, migration, search, annotations, correction, agent, settings, diagnostics, facade and FFI, platform layers, the applications, the MCP server | their own files or none | sequential, or forwarding | - | - |

How they interact. A chapter save, a conflict resolution and the commit of a
sync round all go through the save transaction, under the core write lock. A
round (`perform_full_sync_internal`) plans its targets, takes a copy of each,
releases the lock, merges the fetched trees into the copies, pushes all targets
in one Git commit, and then, target by target and under the lock again, merges
each copy back into the live directory. Between the copy and the commit the
user edits, deletes and resolves conflicts freely. The commit links its
transaction to the proof events of the chapters it changes; the directory is
kept until these events are in the chains. Leftover transactions are scanned at
the start of the program (when the marker is there), at the start of a full
sync and once more before its commits. Deletions of chapters, volumes, works
and star map objects go through journals of their own, which a start resumes;
the deletion of a work is put in a queue for the next round, and a round that
learns of one elsewhere runs the same journal. Changes that the statistics
count stand under the workspace lock in a contribution transaction, whose
recovery runs inside every acquisition. The desktop application and the MCP
server are two processes on one workspace; only the workspace lock keeps them
apart, and not everything takes it.

PROJECT.json lists every component with its state of modelling, every modelled
definition with the lines it stands for, and the hazards with the properties
that would catch them.

## 2. Modules

| Component | Model | Instances | Proofs |
|---|---|---|---|
| save transaction | `SaveTransaction`; what it promises: `AtomicSave` | `MCSaveTransaction` | `SaveTransactionProofs` |
| a text document between devices | `DocumentSync` | `MCDocumentSync` | `DocumentSyncProofs` |
| any other file between devices | `MetadataSync` | `MCMetadataSync` | `DocumentSyncProofs` |
| a work between devices | `FullSync` | `MCFullSync` | `FullSyncProofs` |
| proof events of rounds and saves | `ProofChain`; with a history of what the user took apart: `ProofChainHistory` | `MCProofChain` | `ProofChainProofs` |
| deletion of chapters and volumes | `WorkspaceDelete` | `MCWorkspaceDelete` | `WorkspaceDeleteProofs` |
| deletion of a work | `ProjectDelete` | `MCProjectDelete` | `ProjectDeleteProofs` |
| workspace lock and contributions | `Contribution` | `MCContribution` | `ContributionProofs` |
| a star map and its cache | `StarMapStore` | `MCStarMapStore` | `StarMapProofs` |
| a star map between devices | `StarMapSync` | `MCStarMapSync` | `StarMapProofs` |

The modules compose by assumption and guarantee: each treats as one step what
another shows to be atomic. `DocumentSync` and `MetadataSync` commit in one
step, as `SaveTransaction` shows of transactions no fault stops; `ProofChain`
keeps the phases of its transactions and leaves their single files to
`SaveTransaction`; `StarMapStore` takes the lock and the roll-back from
`Contribution`; `FullSync` decides for whole files by stamps, as `MetadataSync`
shows of each, and so does `StarMapSync` until the commit, whose transaction is
one step and whose flushes are those of `StarMapStore`; `ProjectDelete` hides what
`FullSync` does with the queue behind an answer.

**SaveTransaction.** `live` is the target root. For each transaction `t`,
`plan[t]` holds its entries, `phase[t]` the manifest on the disk (`nodir`: no
directory, `staging`: no manifest), `staged[t]` and `backup[t]` its two
subdirectories, `proof` whether `proof-recovery.json` is there. A file's content
is the transaction that wrote it. `pc` and `cur` are the holder of the core lock:
the owner of one transaction or one scan. One action is one disk step: staging a
file, the recovery material, a backup, a manifest, a rename, a removal; a crash
or an I/O error may come at each. The scan visits the directories in any order,
discards, reports or replays; `RecordReported` appends the reported events, and
the purging scan removes what is done. Left out: `before_hash` (written, never
read) and the removal of empty parents.

**AtomicSave** is what a caller may count on: a redo log. A save is opened,
abandoned or logged; each of its files lands once; it settles when all landed,
or gives up if it carries no events. `KeepsPromise` maps the phases, plans and
the history of applied entries to it. That a save whose call failed may land
late is part of it, because the code does that.

**DocumentSync.** A device has the file (`live`), its `known_files` entry
(`known`), its record in `manifest.sync.json` (`man`), a tombstone and an open
conflict; `remote` is the record in the remote manifest. A round is `StartSync`
(copy, fetch and merge: the local snapshot, then one of `SkipConflict`,
`FollowRemote`, `UploadNew`, `MergeBoth`), `Publish` or `PublishRejected`,
`Commit` (second comparison and the merge of the sync state) and, if that
conflicts, `Record`; `BreakOff` ends it at the stages in `Breaks`. `Edit`,
`Delete`, `KeepLocal`, `TakeRemote` and `TakeRemoteCut` (the file replaced, the
state not written) are the user; `Vanish` is a file lost behind the program's
back, the case of the comment at `sync/lww/manifest/mod.rs:336`. Copy, fetch and
merge are one step because only this device changes the copied state and only
others the fetched one; a push by others after the fetch is the loss of `fresh`.

**MetadataSync.** A version is a record: hash or deletion, time, device. A round
is seeded (`Seed`), merges, publishes if nobody did meanwhile
(`PublishRecord`), and commits (`CommitFile`) with the second comparison. Deletions have the precision of a second and are purged
after `PurgeAfter`. `Allowed` admits three things a user may do that break the
rule in the code (section 5).

**FullSync.** A stamp is the pair of a time and a device that orders writes, and
the content written then; a work is a stamp per file. The catalog holds the
record (upsert or delete, with the last write) and the remote tree. A round
plans a target for the work and one for a queued deletion, stages, transfers
into a buffer, publishes the buffer on the revision it started from, commits and
finalizes. Other targets appear by what they can do to this one: fail. Stamps
are the only resource, so the system stops when they are used up and the runs
do not check for deadlock.

**WorkspaceDelete.** Two programs delete a directory of the work, each through
plan, journal, move, tombstones, mark, history, mark and removal, crash or fail
anywhere, and start by resuming the journals they find, including those of the
older format without facts. A sync round (`Sync`) fetches known files that are gone
without a tombstone: that is what a forgotten deletion costs. The sync state, which
holds the tombstones, is one file that is loaded, changed and saved as a whole: a
deletion does so in `LoadState` and `AddTombstones`, the commit of a round in `Sync` and
`WriteState` (or the replay of a commit that was cut off). In between, the program has
the state in memory (`copy`); its core is locked, but the other program's is another one.
`lost` remembers the deletions whose tombstones such a copy undid (section 5). The entry
in the history is one step, although the git index is read, changed and written too.

**ProjectDelete.** The same for a work, with the star maps bound to it, the
history, the list of deletions for the remote (`queue`), the deletions a round
asks for (`Told`), and the answers of rounds, which drop the entry or give the work
back. The list is read, changed and written in separate steps.

**Contribution.** Threads of two processes acquire (mutex, then flock, then the
nesting count), recover what is left, begin with roots backed up or register new
paths later, change objects, apply, record events and commit; a drop without
commit restores, a panic poisons the mutex. `Breaks` admits three failures the
code is not ready for.

**StarMapStore.** A process caches the map (`mem`), changes the cache and then
flushes: object files, the deletions under their journal, `graph.json`, the end
of the journal; around it stands the contribution transaction. `FailAt` names
the steps that may fail. At a start the recovery resumes the journal, and if it fails
(`Starting`), the journal stays and the program goes on without it.

**StarMapSync.** A device has the list of the map (`graph`, written at `written`),
a file per object (`file`, known by the tick of its last change), the records of
both in its manifest (`grec`, `rec`) and tombstones. A round copies the map and
merges list and files with the remote one by one (`StartSync`), publishes
(`Publish`, `Rejected`) and commits: `Commit` is the three-way merge of the whole
map, with the operators of `starmap_merge.rs` under names near theirs: members
(`Initial`), contents (`Winning`), revisions (`Revisions`), the log of deletions
(`Deaths`), the new `graph.json` (`Graphs`: several where its hash maps may be
written in several orders) and the records of pruned objects (`Undeleted`).

**ProofChain.** Rounds that replace chapters write intents and marker, commit the
transaction, append the events and clean up; recoveries run at the start, from
the editor and in every round; the user's save is three calls that each take the
lock. A chain takes an event only if it ends with the event's text before.
`ProofChainHistory` adds two history variables: `apart`, the chapters whose file and
chain the user has left at different texts (a resolved conflict writes the file and
no event, a save may be refused or cut off between its calls, a round or a recovery
may come in between them), and `skipped`, the open events their chains do not take
for that reason. `EventsSettle` needs them to say which events may stay open.

## 3. Runs

| Run | Instance | Shows |
|---|---|---|
| `save_atomic` | 2 transactions, 2 files, production mode, 2 faults; 445,767 states, 25 s | `NoTornSave`, `RecordedOnlyWhenLanded`, `ProofMaterialRetained`, the refinement `KeepsPromise` |
| `save_reclaim` | 1 transaction, 2 files, with and without backups, 2 faults, fairness; 81,495 states, 11 s | `RollbackRestores`, `LeftoversReclaimed` |
| `document_sync` | 2 devices, 3 versions, 2 faults, 1 deletion or 1 lost file, fairness; 1,773,150 states, 77 s | `NoEditLost`, `BaseShared`, `ResolutionSticks`, `DeletionMeant`, `Converges` |
| `full_sync` | 2 devices, 2 files, 3 writes, 1 fault, fairness; 650,397 states, 87 s | `TreeMatchesRecord`, `RemoteOnlyAdvances`, `RemovedByNewerDeletion`, `Settles` |
| `workspace_delete` | 2 programs, 2 files, 2 deletions, one of the old format, 1 fault, rounds of one of the programs (the MCP server runs none), fairness; 215,962 states, 105 s | `NothingForgotten`, `HistoryInStep`, `JournalsFinish` |
| `project_delete` | 2 requests, 1 deletion from a round, 1 star map, 2 faults, 1 answer, fairness; 169,108 states, 46 s | `DeletionQueued`, `NothingDangles`, `DeletionsFinish` |
| `contribution` | 2 threads in 2 processes, 2 objects, 2 transactions, depth 2, 1 fault, 1 crash, fairness; 204,356 states, 70 s | `TypeOK`, `HolderSeesTruth`, `NoEventWithoutChange`, `OneWriter`, `ComesToRest` |
| `starmap_store` | 1 process, 3 objects, 4 operations, 1 fault, 2 crashes; 371,402 states, 9 s | `MembersLoadable`, `DeathsAreTold`, `AppliedStands` |
| `starmap_sync` | 2 devices, a node that is there and an edge, 3 changes or rounds broken off, fairness; 507,983 states, 77 s | `MembersHaveFiles`, `LastEditStands`, `WorkInRoundKept`, `Converges` |
| `starmap_additions` | the same with two nodes, no fairness | that `AdditionsKept` is violated (section 5) |
| `metadata_sync` | 2 devices, 3 edits, time up to 3, fairness; 269,562 states, 22 s | `MetadataTypeOK`, `NeverOlder`, `NewerOnly`, `FilesAgree` |
| `proof_chain` | 2 chapters (one with a chain), 2 texts, 2 rounds, 1 save, 2 faults, fairness; 473,520 states, 127 s | `PendingMarked`, `InOrder`, `EventsSettle` |

(Times with two workers.) All runs but `full_sync`, `starmap_sync` and
`starmap_additions` check for deadlock: in these the bounds run out and the system may
stop. Type invariants are proved (section 4); two are among the runs' properties as
well: `TypeOK` of `Contribution`, whose records differ from phase to phase, and
`MetadataTypeOK`, which also says that no device keeps a deletion twice. Every property
has a mutant in PROJECT.json: a definition of the model changed the way a bug in that
code would change it (`KeepLocalAsBase`, `AtAnyHead`, `Remnants` and their like, next to
the definitions they replace), under which TLC finds the property violated.

**Bounds, and why they are enough.** Two files are enough for a torn save, two
transactions for an old one and a newer one; two faults allow a crash, a recovery
that fails too, and a third try. A version of a document is written once: three
give a common base and one edit on each device, the smallest conflict. Trials with
four versions and with three devices, too long to keep, found nothing more. Two
devices, two files and three writes give a work with an older and a newer file and a
deletion between two edits. In `document_sync` the deletion and the lost file come
once; trials of its safety with two of each found nothing more. Two
star map objects give one that was shared and one that is new, three events a change
on each device and one that comes late; trials of the safety properties with two
nodes, whose `graph.json` has two forms, found nothing more. In the journals two deletions of one place, one of which is still
being resumed by another program, are the smallest overlap; two processes and two
objects the smallest for a half-restored contribution next to a waiting writer.
Three star map objects give one that is there, one added and one deleted in a
flush. Two rounds on one chapter with a second chapter beside them give an event
that could be overtaken and one that could be left over; trials with two saves
and with three texts, each with one fault, found nothing more, and with
neither saves nor resolutions `skipped` stays empty: every event is appended. The clock of
`MetadataSync` is bounded by `MaxTime`; rounds break off only before it, so that the devices have
the time to agree. `save_atomic` hides the history variable `base`, which none of
its properties reads; symmetry is used only where no liveness is checked. In
`starmap_sync` the first change is made on the first device (`FirstOnOne`): the devices
start alike.

**What passing runs leave out, on purpose.** `document_sync` has no break between a
commit and the record of its conflicts (`"recording"`), and either deletions or lost
files, not both; `contribution` has `Breaks` empty; `starmap_store` lets only the
steps `changed`, `write` and `plan` fail, no recovery at a start, and has one cache; `project_delete` has
`Racing` FALSE; `metadata_sync` has `Allowed` empty. Section 5 says what each of these
does when it is admitted: the constant is there so that a reader can try.

**Fairness, and why the code justifies it.**
`SaveTransaction`: a holder of the lock runs on (it waits for the disk only), and
scans recur, since every full sync begins with one. `DocumentSync`, `MetadataSync`,
`FullSync`: rounds start again and again while automatic sync is on or the user
asks; a push ends, accepted or refused; the commit waits for nothing but the lock.
`FullSync` also owes the queueing of a deletion that is in its journal.
`WorkspaceDelete`, `ProjectDelete`: a deletion under way goes on, in the first of the
two when the rounds of its program leave it the core (`SF`: the lock is granted in turn),
and a commit writes its state; a program that is
closed is started again and recovers; it is closed now and then (`SF` of `Quit`),
since journals are looked at in a start only. `Contribution`: the lock is granted
again and again to whoever waits (`SF` of `Acquire`; neither mutex nor flock starves),
and a thread inside runs on. `ProofChain`: the holder of the lock and rounds go on,
and a save between its calls gets the lock (`SF`: there is time between rounds).
`StarMapSync`: as `MetadataSync`. Three runs say the same fairness of states
(`StateFairness` in the MC modules: a device is again and again idle and again and
again not), which TLC checks faster than `WF`; that the two are equivalent, in both
directions, was checked with TLC on smaller instances.
Users, crashes and errors owe nothing; the liveness properties hold because the
bounds let them rest in the end.

## 4. What is proved

`tlapm` checks the following for any sets of files, transactions, devices, versions,
chapters and any bounds.

- **SaveTransactionProofs**: `TypeCorrect`, `NoTornSaveHolds`,
  `RecordedOnlyWhenLandedHolds`, `ProofMaterialRetainedHolds`. That a save is whole when
  its directory goes needs to know where each entry is at every moment. `IInv` says per
  transaction (`TxInv`) that before the manifest nothing has been applied, that under
  `Prepared` every file not applied is still staged, that after `FilesCommitted` all
  are applied, and what a removal may have left; `LockInv` says the same of the holder
  of the lock, whose to-do set `left` completes `applied`. Transactions in backup mode
  are exempt, a rollback breaks these facts on purpose. For them
  `RollbackMaterialKeptHolds` and `RollbackRestoresHolds` follow from
  `OwnerInv`: what the lock gives its holder. Files without an entry are as at `Begin`,
  every backup is of a file as at `Begin`, and a rollback has restored all files but
  those in `left`. `KeepsPromiseHolds` is the refinement of `AtomicSave`, from the same
  `IInv`: every step of a transaction is a step of the redo log or a stutter. Without
  backup mode, which production never uses.
- **DocumentSyncProofs**: `TypeCorrect`, `BaseSharedHolds`, `ResolutionSticksHolds`,
  `NoEditLostHolds` (if no round stops between commit and record: `"recording"` is not in
  `Breaks`) and `DeletionMeantHolds` (if no file is lost: `MaxVanish` = 0). `IInv` says
  where a future base comes from: the remote's record, an open conflict and a job's
  entry are content the remote has held, or, before the push, the content it pushes.
  `SticksInv` follows a decided conflict through the copy, the staged state and the
  job; `LossInv` says for each device and each job that the text a step is about to
  replace is also somewhere else.
- **DocumentSyncProofs**, second part (`MetadataSync`): `MetadataTypeCorrect` if no file
  is deleted again while its deletion is kept ("again" is not in `Allowed`; what the
  sorting of several deletions returns is an induction over data), `NeverOlderHolds` and
  `NewerOnlyHolds` for `Allowed` = {}, as the run has it. The argument of `MetadataInv`
  is that a device and a time name one version, wherever its record is by now
  (`RecordInv`). Then the rule has no losers on both sides (`WinnerBack`), and what a
  round publishes beats what it fetched, which is still the remote's unless the round is
  stale (`MergeInv`). For the files, `FileInv` and `DuringInv` say that a file unlike the
  manifest or unlike the round's snapshot is the user's own version, and `TakenInv`
  follows a round: as long as the file is the snapshot's, what the round takes covers its
  version. That has to be said with `Later`, a linear order of times and devices: by the
  rule itself deletions of one time tie, and a chain of ties need not stay one.
- **FullSyncProofs**: `TypeCorrect`, `OnlyAdvances`, `TreeMatchesRecordHolds`,
  `RemovedByNewerDeletionHolds`. `OnlyAdvances` needs no history: a publication on an
  unchanged head merges what it fetched (`RoundsAdvance`). The other two need `HInv`,
  which says where stamps come from: every stamp in a copy, a queue, a record or a
  round's copy is of a write or a deletion that happened (`Stamped`, `Written`); a
  record or a target that tells of a deletion has its stamp (`Told`, `TargetTold`,
  `JobTold`); and a work a round planned is as new as the plan or gone by a newer deletion
  (`StillThere`). `TreeMatchesRecord` says what three devices leave of
  the plainer statement, that record and tree are equally new. TLC refuted that one
  with three devices and no fault, in 14 steps, beyond the two devices of the run: a
  work is deleted while its round copies it, the round writes a record without a tree,
  and a third device adds its older copy to that record. A newer deletion is then on its
  way, which the property now demands.
- **WorkspaceDeleteProofs**: `TypeCorrect`, `NothingForgottenHolds`,
  `HistoryInStepHolds`. `IInv` ties each step
  of an operation and of a resumption to the phase of its journal and to the facts both hold.
  `CopyInv` is about the copies of the sync state: who finds all tombstones of a deletion
  in the copy it has, and therefore writes nothing, relies on a state that had them, so
  they are still there or `lost`. That `lost` excepts so little is the theorem's point: a
  journal is finished only after the tombstones were all in the sync state.
  For the history, `HInv` says who still owes it an entry (`Owing`): a tracked file that is
  gone belongs to a journal before its mark or to somebody about to record (`HistoryInv`);
  what a plan holds is untouched as long as its journal is open (`PlanInv`, `MoveInv`), and
  a start holds the journals it saw (`StartInv`). The theorem is for two programs
  (`AtMostTwo`), the desktop application and the MCP server, and for behaviours that lost
  no tombstones (`lost` = {}; section 5). With three programs it is false, TLC
  finds it in 26 steps: one program has its journal and waits, another moves the same
  volume, a third starts, finishes the first one's journal against the empty place and the
  volume comes back through a round; a new chapter is then moved by the first program,
  whose journal is recorded and gone, and nobody enters it in the history.
- **ContributionProofs**: `TypeCorrect`, `OneWriterHolds`, `NoEventWithoutChangeHolds` for
  any processes, threads and `Breaks`; `HolderSeesTruthHolds` for `Breaks` = {}, the
  failures the code is ready for. `IInv` is `TypeOK`, that the lock on the file is
  what makes a thread an insider (`LockInv`), what a thread knows of its own
  directory (`JobInv`), and the phases against the events (`EventInv`). `TruthInv` adds that a
  prepared directory can bring the objects back (`Whole`), that there is one of them at
  most (`DiskInv`), and what a recovery has behind it (`KnowsInv`).
- **ProjectDeleteProofs**: `TypeCorrect`, `DeletionQueuedHolds`, `NothingDanglesHolds`, all
  for `Racing` = FALSE. `QueueInv`: a deletion past its queueing is listed or
  answered, whoever holds a copy of the list. `DangleInv` has five parts: what an actor's
  step says of the journal (`ActorInv`, `StepInv`), what a start has in memory
  (`StartInv`), that the journal names every map still bound (`MapsInv`), and that a
  work that is gone has left a journal or nothing behind (`LeftInv`).
- **ProofChainProofs**: `TypeCorrect`, `EventsRecoverableHolds`, `PendingMarkedHolds`,
  `InOrderHolds`. `IInv` is `TypeOK`, what each stage of the lock's holder knows
  (`StageInv`), that transactions not begun are untouched (`FreshInv`), that an open
  event keeps its transaction (`KeptInv`) and its intent (`IntentInv`), and that the
  open event of a chapter is its last (`OrderInv`). `HistoryAddsNothing`: a behaviour
  with the history variables, which the run checks, is one of `Spec`.
- **StarMapProofs**, first part (`StarMapSync`): `MembersHaveFilesHolds`,
  `LastEditStandsHolds`, `WorkInRoundKeptHolds`, for objects of any kinds. Two lemmas carry them: the merged
  graph lists what the merge gives a content (`MergedGraph`), and the content is that
  of a side (`WinningOne`). A commit spares what was written in its round because
  such a revision is above the package of the base (`BoundInv`, `RoundInv`).
  `SharedInv` follows an object nobody deleted: it is in every list, base, record and
  round, no record is ahead of its last change, and some device has that change.
- **StarMapProofs**, second part (`StarMapStore`): `StoreTypeCorrect` and
  `DeathsAreToldHolds` for any processes and any `FailAt`. A file is gone only if its
  deletion is told, in the log or in a journal that can be resumed, and that has to be
  said of the files as they are and as a recovery would leave them (`Restored`);
  `ToldInv` adds what each place of a flush or a start knows of its journal (`Held`).
  `MembersLoadableHolds` and `AppliedStandsHolds` are for one cache (`OneStore`) and the
  failures of `Harmless`: the registration of a changed object, the writes of objects
  and of the journal's plan, and if the first two may both fail, one failure in all.
  `StandsInv` has four parts: the disk, now and after a recovery, keeps what was
  answered (`DiskInv`); the cache is the disk but for what is dirty, and what is dirty
  belongs to the operation under way (`CacheInv`); the place of a flush against its
  journal (`PlaceInv`) and against the contribution around it (`TaskInv`).
  Section 5 says what the failures beyond `Harmless` do.

Assumptions: the named ASSUME of each module (special values differ, bounds are
numbers) and the hypotheses stated in the theorems.

Only model-checked: all liveness (fairness and ENABLED are out of the prover's
reach). Every safety invariant and action property a passing run checks is a
theorem, under the hypotheses named above.

## 5. Observations

What the models showed of the code while they were written. The first is the run
`starmap_additions`; the constants named in section 3 reproduce most of the others.

- **Star maps between devices.** `starmap_merge.rs:8-10` says that concurrent edits no
  longer lose objects, and that additions which do not conflict are kept. A round still
  decides `graph.json` as one file (`sync/lww/compare.rs:122`) before its commit merges
  object by object: one device adds a node, the other changes another one a little
  later, both synchronise; the later `graph.json` does not list the node, the first
  device's next commit takes it for one the remote dropped, deletes its file and
  records the deletion. The test at `sync/staging/tests.rs:505` covers the commit only.
  A change made while a round is out is safe, and the last change of an object that was
  shared before too (`WorkInRoundKept`, `LastEditStands`). Further: a change of an object
  deleted on another device goes if that device's `graph.json` wins; an object that was
  added, pushed in a round broken off before its commit, and then deleted has no record
  in the manifest, so the deletion is no fact and the object comes back; a commit that
  removes an object may leave no entry in the log of deletions above the package
  revision clients have seen, so that incremental snapshots do not tell them; and with
  two entries in one revision map the hash order rewrites `graph.json` in commit after
  commit, so the devices agree but never come to rest.
- **Saves.** A save whose call failed after its manifest was written lands at the next
  scan, over whatever was saved since (`recovery.rs:176`). A half-applied transaction with
  proof events whose staged chapter is deleted by the user is retained for good.
- **Documents.** A stop between a commit and the record of its conflicts
  (`sync_api.rs:2507`) forgets the conflict, and the next round overwrites the remote
  text. A tombstone outlives the re-creation of its path, and later turns a lost file
  into a published deletion.
- **Metadata.** A deletion in the second of the edit before it looks older than that
  edit (`sync/lww/manifest/mod.rs:393`). Of two deletions of a path the first is published (line 316). A
  change back to a content the manifest records counts as no change. After 30 days the
  deletion is purged and a device that was away brings the file back. A proof of
  `NewerOnly` failed on one more: a round fetches another device's deletion while the
  user deletes the file himself, a little later. The commit records the older deletion
  in the manifest, the next snapshot prefers that to the newer tombstone (line 307), and
  an edit made between the two deletions brings the file back. The property now names
  this case (`LostDeletion`) and says that a deletion is lost in no other way.
  (`Second` = 1, `PurgeAfter` = 9, `MaxTime` = 4, `MaxEdits` = 4 reach it.)
- **Full sync.** A merged work whose newest file is in the record counts as current,
  though an older edit of another file was never published
  (`target_lifecycle/mod.rs:917`). A deletion can leave the queue though its round failed
  as a whole. A checkpoint's fingerprint is taken after the round and vouches for edits
  made during it.
- **Volumes and chapters.** The tombstones of a deletion are added to the sync state by
  `load_sync_state`, a push and `save_sync_state` of the whole (`workspace_change.rs:184-219`,
  `config_store.rs:367-453, 542-555`), and the commit of a round reads the state and writes
  it with its files (`commit_helpers.rs:484-520`); no lock holds across programs. What one
  program writes in between, the other's write takes out again. The journal whose
  tombstones are gone is marked and removed all the same: the next round takes the files
  for missing and fetches them back. `NothingForgotten`
  excepts these deletions (`lost`) and shows that there are no others. The loss can also
  leave the history out of step: `HistoryInStep` fails without its premise `lost` = {}
  (`OldFormat` = {}, in 31 steps: a deletion whose journal another program has finished
  moves the volume that a round brought back, and crashes).
- **Works.** Another program's start takes over the journal of a deletion that is still
  running. A request that failed at `Prepared` deletes the work at the next start
  (`project_delete.rs:667`). A journal stays for good when the work was moved and a
  round gave it back. A star map bound while a deletion is open stays bound
  (`starmap/mod.rs:363`). The list of deletions is written without a lock
  (`pending_deleted.rs:62`): two writers at a time lose an entry the journal counts as kept.
- **Contributions.** Paths registered later are in memory before the manifest lists them;
  if that write fails and the restore then stops half-way, the next recovery deletes the
  only backups (`contribution_transaction.rs:309`). A `remove_dir_all` that fails or stops
  half-way leaves an object the recovery cannot put back. The commit of a sync round
  writes star map and index files without the workspace lock.
- **Star maps.** A failure of the move, the tombstones, `graph.json` or the end of a flush
  breaks `MembersLoadable`: the journal that is resumed moves a file that is a member
  again. So does one of the recovery at a start (`bootstrap.rs:184-193`), and it breaks
  `AppliedStands` too: the program goes on beside the journal, and the next deletion
  resumes it in the place of its own. `DeathsAreTold` stands whatever fails. A journal that cannot be cleared, or two long-lived caches, break
  `AppliedStands`. With two failures both properties break already where the
  registration of a changed object and an object's write may fail: the first leaves a
  changed object in the cache, the next operation deletes another object and its write
  fails after the deletion was carried out; the roll-back restores the file, the journal
  stays at `Tombstoned`, and the next deletion resumes it, moves the member's file and
  clears the journal. An operation that the contribution's recovery rolled back is still
  completed by its delete journal at the next start (`bootstrap.rs:1274`).
- **Proof events.** The checkpoint of a save is a lock hold of its own: a round between the
  save and its checkpoint leaves an event the chain has gone past. It is refused for
  ever (`writing_stats_ops.rs:334-341`), and the rounds of that work are blocked
  (`sync_api.rs:2478-2494`), against the comment at `proof_intent.rs:304-306`. No save is
  needed: a conflict resolved for the remote text writes the chapter and tells the chain
  nothing (`conflict.rs:743-767`), so the event of the next round that replaces the
  chapter is refused and the work blocked in the same way. So it goes after a save whose
  event was refused, or that was cut off before its checkpoint, after a recovered event
  that is appended behind a later save, and after a commit that failed at `Prepared`, was
  replayed later and overtook a save. `EventsSettle` excepts these events, if they stay
  refused for good (`skipped`), and shows that no others stay open.

## 6. Plan

Next, in this order:

1. The deletion of a whole star map, between devices (`resolve_graph_lifecycle`) and on
   one (`storage/journal/starmap_delete.rs`), with `index.json` and the library.
2. A second program that recovers proof intents while a round commits.
3. The retention of archived events (`writing_stats`) as a refinement of the chain.

## 7. Not modelled

Every component is in PROJECT.json with its reason. In short: the user interfaces,
platform layers, FFI and facades forward calls under the lock and have no protocol of
their own; the Git transport is external, its compare-and-swap push is assumed; the
local history and the provider are libgit2 behind thin calls; the editor's undo is
two stacks in one thread; search is derived data; statistics displays, annotations,
correction, settings and the agent are sequential stores of one file or pure text
algorithms; migrations run once. Of the modelled parts: progress reports, groups of
application data beyond their star maps, the deletion of a whole star map with
`meta.json`, `index.json` and the library, the acknowledgement of logged deletions, the
legacy bootstrap of a repository, the retry over another
transport, normalisation of legacy hashes, and damaged intent files.
