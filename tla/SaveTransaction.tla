--------------------------- MODULE SaveTransaction ---------------------------
(***************************************************************************)
(* storage/transaction: the multi-file save transaction every durable      *)
(* write of a chapter and every sync commit goes through.  A transaction   *)
(* stages its files in app-meta/transactions/<id>/, writes a manifest      *)
(* (Prepared), renames the staged files over the live ones, marks the      *)
(* manifest FilesCommitted and removes its directory.  A crash or an I/O   *)
(* error may stop it between any two of these disk steps; a later scan     *)
(* (scan_pending_transactions) rolls Prepared transactions forward and     *)
(* removes the others.  A transaction linked to proof events keeps its     *)
(* directory until the events are in the event store.                      *)
(*                                                                         *)
(* Callers hold the core write lock, so one handle or one scan runs at a   *)
(* time (pc); a crash releases it.  The order in which a caller adds its   *)
(* entries is its own: the entries are a function of the file, applied in  *)
(* any order, which covers every order.                                    *)
(***************************************************************************)
EXTENDS Naturals, FiniteSets

CONSTANTS Files,        \* live files a transaction may target
          Txs,          \* transactions; the content t writes is t itself
          Old, Absent,  \* the initial content of a file, and no file
          None,         \* no transaction, no backup
          Modes,        \* the backup_mode flags callers pass
          MaxFaults     \* bound on crashes and I/O errors together

ASSUME ConstantsAssumption ==
  /\ Old \notin Txs /\ Absent \notin Txs /\ None \notin Txs
  /\ Old # Absent /\ None # Old /\ None # Absent
  /\ Modes \subseteq BOOLEAN
  /\ MaxFaults \in Nat

Content == Txs \union {Old, Absent}
Op == {"write", "delete", "skip"}

\* "unused" and "nodir": no directory; "staging": a directory, no manifest.
Phase == {"unused", "nodir", "staging",
          "Prepared", "FilesCommitted", "Finished", "RolledBack"}

VARIABLES
  live,                 \* the files under target_root
  plan, linked, mode,   \* entries, proof_intent_ids # {}, backup_mode
  phase, staged,        \* the manifest's phase, the staged files
  backup, proof,        \* tx_dir/backup, the txs with proof-recovery.json
  recorded,             \* txs whose proof events are in the event store
  pc, cur, left,        \* what holds the core lock, on what, with what to do
  missed, todo,         \* the scan: an entry went missing, dirs to visit
  pass, known,          \* the scan's purpose; the txs it has reported, then
                        \* those whose events it knows as done
  faults,
  base, applied,        \* history: live at Begin, entries that reached live
  released, dropped     \* history: removal decided, decided with a miss

entryVars == <<plan, linked, mode, base>>
dirVars   == <<phase, staged, backup, proof>>
scanVars  == <<missed, todo, pass, known>>
pastVars  == <<applied, released, dropped>>
vars == <<live, entryVars, dirVars, recorded, pc, cur, left, scanVars,
          faults, pastVars>>

Targets(t) == {f \in Files : plan[t][f] # "skip"}
Writes(t)  == {f \in Files : plan[t][f] = "write"}
HasDir(t)  == phase[t] \notin {"unused", "nodir"}
HasManifest(t) == HasDir(t) /\ phase[t] # "staging"
Committed(t) == phase[t] \in {"FilesCommitted", "Finished"}
Outcome(t, f) == IF plan[t][f] = "delete" THEN Absent ELSE t

NoBackup == [f \in Files |-> None]

Init ==
  /\ live \in [Files -> {Old, Absent}]
  /\ plan = [t \in Txs |-> [f \in Files |-> "skip"]]
  /\ linked = [t \in Txs |-> FALSE]
  /\ mode = [t \in Txs |-> FALSE]
  /\ base = [t \in Txs |-> live]
  /\ phase = [t \in Txs |-> "unused"]
  /\ staged = [t \in Txs |-> {}]
  /\ backup = [t \in Txs |-> NoBackup]
  /\ proof = {} /\ recorded = {}
  /\ pc = "idle" /\ cur = None /\ left = {}
  /\ missed = FALSE /\ todo = {} /\ pass = "recover" /\ known = {}
  /\ faults = 0
  /\ applied = [t \in Txs |-> {}] /\ released = {} /\ dropped = {}

-----------------------------------------------------------------------------
(* Directories.                                                            *)

RemoveDir(t) ==
  /\ phase' = [phase EXCEPT ![t] = "nodir"]
  /\ staged' = [staged EXCEPT ![t] = {}]
  /\ backup' = [backup EXCEPT ![t] = NoBackup]
  /\ proof' = proof \ {t}
  /\ released' = released \union {t}

\* remove_dir_all stopped half-way: any part of the directory is gone.
RemovePart(t) ==
  /\ \E p \in {phase[t], "staging"} : phase' = [phase EXCEPT ![t] = p]
  /\ \E S \in SUBSET staged[t] : staged' = [staged EXCEPT ![t] = S]
  /\ \E b \in {backup[t], NoBackup} : backup' = [backup EXCEPT ![t] = b]
  /\ \E P \in {proof, proof \ {t}} : proof' = P
  /\ released' = released \union {t}

SetPhase(t, p) ==
  /\ phase' = [phase EXCEPT ![t] = p]
  /\ UNCHANGED <<staged, backup, proof, released>>

Fault == faults < MaxFaults /\ faults' = faults + 1

Release == pc' = "idle" /\ cur' = None

ForgetScan ==
  missed' = FALSE /\ todo' = {} /\ pass' = "recover" /\ known' = {}

-----------------------------------------------------------------------------
(* The transaction's owner.                                                *)

\* new, link_proof_recovery, enable_backup_mode, add_delete: memory only.
Begin(t, p, lk, md) ==
  /\ pc = "idle" /\ phase[t] = "unused"
  /\ phase' = [phase EXCEPT ![t] = "nodir"]
  /\ plan' = [plan EXCEPT ![t] = p]
  /\ linked' = [linked EXCEPT ![t] = lk]
  /\ mode' = [mode EXCEPT ![t] = md]
  /\ base' = [base EXCEPT ![t] = live]
  /\ pc' = "staging" /\ cur' = t
  /\ UNCHANGED <<live, staged, backup, proof, recorded, left, scanVars,
                 faults, pastVars>>

AddBytes(f) ==
  /\ pc = "staging" /\ f \in Writes(cur) \ staged[cur]
  /\ phase' = [phase EXCEPT ![cur] = "staging"]
  /\ staged' = [staged EXCEPT ![cur] = @ \union {f}]
  /\ UNCHANGED <<live, entryVars, backup, proof, recorded, pc, cur, left,
                 scanVars, faults, pastVars>>

CommitEmpty ==
  /\ pc = "staging" /\ Targets(cur) = {}
  /\ RemoveDir(cur) /\ Release
  /\ UNCHANGED <<live, entryVars, recorded, left, scanVars, faults,
                 applied, dropped>>

AllStaged == pc = "staging" /\ Targets(cur) # {} /\ staged[cur] = Writes(cur)

PersistProofRecovery ==
  /\ AllStaged /\ linked[cur] /\ cur \notin proof
  /\ proof' = proof \union {cur}
  /\ phase' = [phase EXCEPT ![cur] = "staging"]
  /\ UNCHANGED <<live, entryVars, staged, backup, recorded, pc, cur, left,
                 scanVars, faults, pastVars>>

\* Mutant: the manifest does not wait for the recovery material.
ProofNotAwaited == TRUE

ProofReady == linked[cur] => cur \in proof

\* RestoreFile when the target exists, RemoveCreated (Absent) when not.
BackUp(f) ==
  /\ AllStaged /\ ProofReady /\ mode[cur]
  /\ f \in Targets(cur) /\ backup[cur][f] = None
  /\ backup' = [backup EXCEPT ![cur][f] = live[f]]
  /\ phase' = [phase EXCEPT ![cur] = "staging"]
  /\ UNCHANGED <<live, entryVars, staged, proof, recorded, pc, cur, left,
                 scanVars, faults, pastVars>>

BackedUp == mode[cur] => \A f \in Targets(cur) : backup[cur][f] # None

\* Mutant: the files move before a manifest is on the disk.
ApplyUnprepared ==
  /\ AllStaged /\ ProofReady /\ BackedUp
  /\ pc' = "applying" /\ left' = Targets(cur)
  /\ UNCHANGED <<live, entryVars, dirVars, recorded, cur, scanVars, faults,
                 pastVars>>

WritePrepared ==
  /\ AllStaged /\ ProofReady /\ BackedUp
  /\ SetPhase(cur, "Prepared")
  /\ pc' = "applying" /\ left' = Targets(cur)
  /\ UNCHANGED <<live, entryVars, recorded, cur, scanVars, faults,
                 applied, dropped>>

\* Mutant: the staged file is copied, not renamed.
ReachByCopy(t, f) ==
  /\ live' = [live EXCEPT ![f] = Outcome(t, f)]
  /\ UNCHANGED staged
  /\ applied' = [applied EXCEPT ![t] = @ \union {f}]

\* One entry reaches its live file: a rename, or a delete (NotFound is fine).
Reach(t, f) ==
  /\ live' = [live EXCEPT ![f] = Outcome(t, f)]
  /\ staged' = [staged EXCEPT ![t] = @ \ {f}]
  /\ applied' = [applied EXCEPT ![t] = @ \union {f}]

Apply(f) ==
  /\ pc = "applying" /\ f \in left
  /\ Reach(cur, f)
  /\ left' = left \ {f}
  /\ UNCHANGED <<entryVars, phase, backup, proof, recorded, pc, cur,
                 scanVars, faults, released, dropped>>

MarkFilesCommitted ==
  /\ pc = "applying" /\ left = {}
  /\ SetPhase(cur, "FilesCommitted")
  /\ pc' = IF mode[cur] \/ linked[cur] THEN "committed" ELSE "cleaning"
  /\ UNCHANGED <<live, entryVars, recorded, cur, left, scanVars, faults,
                 applied, dropped>>

\* The cleanup at the end of commit: its failure is logged, not returned.
CommitCleanup ==
  /\ pc = "cleaning"
  /\ \/ RemoveDir(cur) /\ UNCHANGED faults
     \/ RemovePart(cur) /\ Fault
  /\ pc' = "committed"
  /\ UNCHANGED <<live, entryVars, recorded, cur, left, scanVars,
                 applied, dropped>>

\* finish(): writes a manifest again if commit has removed the directory.
Finish ==
  /\ pc = "committed" /\ phase[cur] # "Finished"
  /\ SetPhase(cur, "Finished")
  /\ pc' = IF linked[cur] THEN "committed" ELSE "closing"
  /\ UNCHANGED <<live, entryVars, recorded, cur, left, scanVars, faults,
                 applied, dropped>>

\* The cleanup at the end of finish and of rollback; the handle is dropped.
Close ==
  /\ pc = "closing"
  /\ \/ RemoveDir(cur) /\ UNCHANGED faults
     \/ RemovePart(cur) /\ Fault
  /\ Release
  /\ UNCHANGED <<live, entryVars, recorded, left, scanVars, applied, dropped>>

\* Drop of a committed handle that was not finished.
DropHandle ==
  /\ pc = "committed"
  /\ IF mode[cur] \/ linked[cur]
       THEN UNCHANGED <<dirVars, released, faults>>
       ELSE \/ RemoveDir(cur) /\ UNCHANGED faults
            \/ RemovePart(cur) /\ Fault
  /\ Release
  /\ UNCHANGED <<live, entryVars, recorded, left, scanVars, applied, dropped>>

Rollback ==
  /\ pc = "committed" /\ mode[cur]
  /\ \A f \in Targets(cur) : backup[cur][f] # None
  /\ pc' = "rolling" /\ left' = Targets(cur)
  /\ UNCHANGED <<live, entryVars, dirVars, recorded, cur, scanVars, faults,
                 pastVars>>

\* Mutant: a rollback leaves the files the commit created.
RestoreOverwritten(f) ==
  /\ pc = "rolling" /\ f \in left
  /\ live' = [live EXCEPT ![f] = IF backup[cur][f] = Absent
                                   THEN @ ELSE backup[cur][f]]
  /\ applied' = [applied EXCEPT ![cur] = @ \ {f}]
  /\ left' = left \ {f}
  /\ UNCHANGED <<entryVars, dirVars, recorded, pc, cur, scanVars, faults,
                 released, dropped>>

RestoreFile(f) ==
  /\ pc = "rolling" /\ f \in left
  /\ live' = [live EXCEPT ![f] = backup[cur][f]]
  /\ applied' = [applied EXCEPT ![cur] = @ \ {f}]
  /\ left' = left \ {f}
  /\ UNCHANGED <<entryVars, dirVars, recorded, pc, cur, scanVars, faults,
                 released, dropped>>

MarkRolledBack ==
  /\ pc = "rolling" /\ left = {}
  /\ SetPhase(cur, "RolledBack")
  /\ pc' = "closing"
  /\ UNCHANGED <<live, entryVars, recorded, cur, left, scanVars, faults,
                 applied, dropped>>

\* An I/O error returned by add_bytes or commit: the caller's `?` drops the
\* handle, which is not committed, so Drop leaves the directory.
CommitFails ==
  /\ pc \in {"staging", "applying"} /\ Fault
  /\ Release /\ left' = {}
  /\ UNCHANGED <<live, entryVars, dirVars, recorded, scanVars, pastVars>>

RollbackFails ==
  /\ pc = "rolling" /\ Fault
  /\ pc' = "committed" /\ left' = {}
  /\ UNCHANGED <<live, entryVars, dirVars, recorded, cur, scanVars, pastVars>>

-----------------------------------------------------------------------------
(* The scan.  pass "recover" reports committed transactions so that their  *)
(* events are recorded; pass "purge" then removes those all of whose       *)
(* events are known as done (cleanup_known_transactions).              *)

StartScan(p, done) ==
  /\ pc' = "scanning" /\ cur' = None
  /\ todo' = {t \in Txs : HasDir(t)}
  /\ pass' = p /\ known' = done

Recover ==
  /\ pc = "idle" /\ StartScan("recover", {})
  /\ UNCHANGED <<live, entryVars, dirVars, recorded, left, missed, faults,
                 pastVars>>

Visit(t) == pc = "scanning" /\ cur = None /\ t \in todo /\ todo' = todo \ {t}

\* Mutant: the purge does not remove what it knows as recorded.
DiscardableUnlinked(t) ==
  \/ phase[t] \in {"staging", "RolledBack"}
  \/ Committed(t) /\ ~linked[t]

Discardable(t) ==
  \/ phase[t] \in {"staging", "RolledBack"}
  \/ Committed(t) /\ ~linked[t]
  \/ Committed(t) /\ pass = "purge" /\ t \in known

\* `let _ = remove_dir_all`: a failure is ignored.
Discard(t) ==
  /\ Visit(t) /\ Discardable(t)
  /\ \/ RemoveDir(t) /\ UNCHANGED faults
     \/ RemovePart(t) /\ Fault
  /\ UNCHANGED <<live, entryVars, recorded, pc, cur, left, missed, pass,
                 known, applied, dropped>>

Report(t) == known' = IF pass = "recover" THEN known \union {t} ELSE known

\* A committed linked transaction is reported and kept; a directory whose
\* manifest cannot be read is an error of the scan and kept.
Keep(t) ==
  /\ Visit(t)
  /\ \/ Committed(t) /\ ~Discardable(t) /\ Report(t) /\ UNCHANGED faults
     \/ HasManifest(t) /\ Fault /\ UNCHANGED known
  /\ UNCHANGED <<live, entryVars, dirVars, recorded, pc, cur, left, missed,
                 pass, pastVars>>

StartReplay(t) ==
  /\ Visit(t) /\ phase[t] = "Prepared"
  /\ pc' = "replaying" /\ cur' = t
  /\ left' = Targets(t) /\ missed' = FALSE
  /\ UNCHANGED <<live, entryVars, dirVars, recorded, pass, known, faults,
                 pastVars>>

\* A delete, or a file still staged, is applied (again); a file no longer
\* staged counts as committed when some live file is there, else as missing.
Replayable(t, f) == plan[t][f] = "delete" \/ f \in staged[t]

Replay(f) ==
  /\ pc = "replaying" /\ f \in left /\ left' = left \ {f}
  /\ \/ Replayable(cur, f) /\ Reach(cur, f) /\ UNCHANGED missed
     \/ /\ ~Replayable(cur, f)
        /\ missed' = (missed \/ live[f] = Absent)
        /\ UNCHANGED <<live, staged, applied>>
  /\ UNCHANGED <<entryVars, phase, backup, proof, recorded, pc, cur, todo,
                 pass, known, faults, released, dropped>>

\* An I/O error on one entry, before it reached the live file or after.
ReplayFails(f) ==
  /\ pc = "replaying" /\ f \in left /\ left' = left \ {f}
  /\ Fault /\ missed' = TRUE
  /\ \/ Replayable(cur, f) /\ Reach(cur, f)
     \/ UNCHANGED <<live, staged, applied>>
  /\ UNCHANGED <<entryVars, phase, backup, proof, recorded, pc, cur, todo,
                 pass, known, released, dropped>>

ReplayDone ==
  /\ pc = "replaying" /\ left = {}
  /\ pc' = "scanning" /\ cur' = None /\ missed' = FALSE
  /\ UNCHANGED <<todo, pass>>

\* Without proof events the directory goes, whatever was missed.
DropReplayed ==
  /\ ReplayDone /\ ~linked[cur]
  /\ dropped' = IF missed THEN dropped \union {cur} ELSE dropped
  /\ \/ RemoveDir(cur) /\ UNCHANGED faults
     \/ RemovePart(cur) /\ Fault
  /\ UNCHANGED <<live, entryVars, recorded, left, known, applied>>

\* Mutant: a replay that missed an entry counts as committed.
PromoteAnyReplayed ==
  /\ ReplayDone /\ linked[cur]
  /\ \/ SetPhase(cur, "FilesCommitted") /\ Report(cur) /\ UNCHANGED faults
     \/ UNCHANGED <<dirVars, known, released>> /\ Fault
  /\ UNCHANGED <<live, entryVars, recorded, left, applied, dropped>>

PromoteReplayed ==
  /\ ReplayDone /\ linked[cur] /\ ~missed
  /\ \/ SetPhase(cur, "FilesCommitted") /\ Report(cur) /\ UNCHANGED faults
     \/ UNCHANGED <<dirVars, known, released>> /\ Fault
  /\ UNCHANGED <<live, entryVars, recorded, left, applied, dropped>>

RetainReplayed ==
  /\ ReplayDone /\ linked[cur] /\ missed
  /\ UNCHANGED <<live, entryVars, dirVars, recorded, left, known, faults,
                 pastVars>>

\* recover_pending_state between its two scans: the events of the committed
\* transactions are appended, each of which may fail.
RecordReported ==
  /\ pc = "scanning" /\ cur = None /\ todo = {} /\ pass = "recover"
  /\ \/ recorded' = recorded \union known /\ UNCHANGED faults
     \/ \E S \in SUBSET known :
          S # known /\ recorded' = recorded \union S /\ Fault
  /\ StartScan("purge", recorded')
  /\ UNCHANGED <<live, entryVars, dirVars, left, missed, pastVars>>

\* commit_target_after_transfer: the sync commit records its own events.
RecordOwn ==
  /\ pc = "committed" /\ linked[cur] /\ HasDir(cur)
  /\ recorded' = recorded \union {cur}
  /\ StartScan("purge", {cur})
  /\ UNCHANGED <<live, entryVars, dirVars, left, missed, faults, pastVars>>

EndScan ==
  /\ pc = "scanning" /\ cur = None /\ todo = {} /\ pass = "purge"
  /\ Release /\ ForgetScan
  /\ UNCHANGED <<live, entryVars, dirVars, recorded, left, faults, pastVars>>

-----------------------------------------------------------------------------
(* The environment.                                                        *)

Crash ==
  /\ pc # "idle" /\ Fault
  /\ Release /\ left' = {} /\ ForgetScan
  /\ UNCHANGED <<live, entryVars, dirVars, recorded, pastVars>>

\* A chapter or volume delete removes live files without a transaction.
DeleteLive(f) ==
  /\ pc = "idle" /\ live[f] # Absent
  /\ live' = [live EXCEPT ![f] = Absent]
  /\ UNCHANGED <<entryVars, dirVars, recorded, pc, cur, left, scanVars,
                 faults, pastVars>>

Commit ==
  \/ \E f \in Files : AddBytes(f) \/ BackUp(f) \/ Apply(f)
  \/ CommitEmpty \/ PersistProofRecovery \/ WritePrepared
  \/ MarkFilesCommitted \/ CommitCleanup

AfterCommit ==
  \/ Finish \/ Close \/ DropHandle \/ RecordOwn
  \/ Rollback \/ MarkRolledBack \/ \E f \in Files : RestoreFile(f)

Scan ==
  \/ \E t \in Txs : Discard(t) \/ Keep(t) \/ StartReplay(t)
  \/ \E f \in Files : Replay(f) \/ ReplayFails(f)
  \/ DropReplayed \/ PromoteReplayed \/ RetainReplayed
  \/ RecordReported \/ EndScan

Next ==
  \/ \E t \in Txs, p \in [Files -> Op], lk \in BOOLEAN, md \in Modes :
       Begin(t, p, lk, md)
  \/ Commit \/ AfterCommit \/ Scan \/ Recover
  \/ CommitFails \/ RollbackFails \/ Crash
  \/ \E f \in Files : DeleteLive(f)

Spec == Init /\ [][Next]_vars

\* Whoever holds the core lock runs on, and a full sync always scans again.
Fairness == WF_vars(Commit \/ AfterCommit \/ Scan) /\ WF_vars(Recover)
FairSpec == Spec /\ Fairness

-----------------------------------------------------------------------------
(* Properties.                                                             *)

\* Every variable has its type: files hold a transaction's content, the
\* initial one or none, and the memory state names only known transactions.
TypeOK ==
  /\ live \in [Files -> Content]
  /\ plan \in [Txs -> [Files -> Op]]
  /\ linked \in [Txs -> BOOLEAN] /\ mode \in [Txs -> BOOLEAN]
  /\ base \in [Txs -> [Files -> Content]]
  /\ phase \in [Txs -> Phase]
  /\ staged \in [Txs -> SUBSET Files]
  /\ backup \in [Txs -> [Files -> Content \union {None}]]
  /\ proof \subseteq Txs /\ recorded \subseteq Txs
  /\ pc \in {"idle", "staging", "applying", "cleaning", "committed",
             "closing", "rolling", "scanning", "replaying"}
  /\ cur \in Txs \union {None}
  /\ cur = None <=> pc \in {"idle", "scanning"}
  /\ left \subseteq Files /\ missed \in BOOLEAN /\ todo \subseteq Txs
  /\ pass \in {"recover", "purge"} /\ known \subseteq Txs
  /\ faults \in 0..MaxFaults
  /\ applied \in [Txs -> SUBSET Files]
  /\ released \subseteq Txs /\ dropped \subseteq Txs

\* A multi-file save is all or nothing: once the removal of a directory is
\* decided, either every entry reached its live file or none did, whatever
\* crashed or failed before; recovery.rs drops a torn one only if the replay
\* itself missed an entry.
NoTornSave ==
  \A t \in released \ dropped :
    ~mode[t] => applied[t] \in {{}, Targets(t)}

\* The event store holds an event only for a text that reached the live
\* files completely: Prepared is never taken for committed (recovery.rs:246).
RecordedOnlyWhenLanded ==
  \A t \in recorded : ~mode[t] => applied[t] = Targets(t)

\* From the first live file a linked transaction changes until its events
\* are recorded, its directory holds the manifest and the recovery material
\* (save.rs:242, "the material reaches the disk before the manifest").
ProofMaterialRetained ==
  \A t \in Txs :
    linked[t] /\ ~mode[t] /\ applied[t] # {} /\ t \notin recorded =>
      HasManifest(t) /\ t \in proof

\* As long as the handle may still roll back, the backups of all its files,
\* as they were before the commit, are on the disk.
RollbackMaterialKept ==
  pc \in {"committed", "rolling"} /\ mode[cur] =>
    \A f \in Targets(cur) : backup[cur][f] = base[cur][f]

\* A known rollback leaves the live files as they were at Begin, those
\* the commit created removed.
RollbackRestores ==
  pc = "closing" /\ phase[cur] = "RolledBack" => live = base[cur]

\* Every directory that is not a half-applied transaction with proof events
\* is removed in the end: cleanup failures and crashes leak none for good.
LeftoversReclaimed ==
  \A t \in Txs :
    HasDir(t) /\ (linked[t] => Committed(t)) ~> ~HasDir(t)

\* The life of a transaction as AtomicSave sees it.
Status(t) ==
  IF phase[t] = "unused" THEN "new"
  ELSE IF phase[t] = "Prepared" THEN "logged"
  ELSE IF t \in released \/ Committed(t) THEN "settled"
  ELSE "open"

StatusOf == [t \in Txs |-> Status(t)]

Promise == INSTANCE AtomicSave WITH
  Saves <- Txs, files <- live, entries <- plan, evented <- linked,
  status <- StatusOf, landed <- applied, events <- recorded

\* The transaction keeps the promise of AtomicSave: nothing moves before the
\* manifest, every write lands once, nothing moves once it is settled, and
\* only events of what landed are recorded, whatever crashes or fails.
KeepsPromise == Promise!Spec
=============================================================================
