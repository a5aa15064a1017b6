---------------------------- MODULE Contribution ----------------------------
(***************************************************************************)
(* The workspace write lock (storage/workspace_lock.rs) and the transaction *)
(* that keeps objects and the events recorded about them together           *)
(* (writing_stats/contribution_transaction.rs).                             *)
(*                                                                          *)
(* Threads of several processes write under one lock: a mutex inside the    *)
(* process and a lock on a file between processes.  The outermost           *)
(* acquisition first settles what an earlier holder left: a transaction     *)
(* directory whose objects were not yet applied is rolled back from its     *)
(* backups, one whose objects were applied gets its events recorded.        *)
(*                                                                          *)
(* An object stands for a file or a directory that a transaction backs up;  *)
(* its value is the transaction that wrote it last.  Events are identified  *)
(* with their transaction.                                                  *)
(***************************************************************************)
EXTENDS Naturals, FiniteSets

CONSTANTS
    Procs,       \* processes that open the workspace (application, MCP server)
    Threads,     \* threads that write
    ProcOf,      \* the process of each thread
    Objects,     \* files and directories the transactions change
    Txns,        \* transaction identifiers; each is used once
    Base,        \* what an object holds before the first transaction
    Absent,      \* the value of an object that does not exist
    Torn,        \* a directory of which only a part is left
    None,
    Existing,    \* the objects that exist in the beginning
    RootSets,    \* the roots operations begin with; begin_deferred has none
    MaxFaults,   \* bound on failing operations and panics
    MaxCrashes,  \* bound on crashes
    MaxDepth,    \* bound on nested acquisitions by one thread
    Breaks       \* failures admitted beyond those the code is ready for

ASSUME ContributionAssumption ==
    /\ ProcOf \in [Threads -> Procs]
    /\ Existing \subseteq Objects /\ RootSets \subseteq SUBSET Objects
    /\ MaxFaults \in Nat /\ MaxCrashes \in Nat /\ MaxDepth \in Nat \ {0}
    /\ None \notin Txns \cup Objects \cup Threads \cup {Base, Absent, Torn}
    /\ {Base, Absent, Torn} \cap Txns = {}
    /\ Base # Absent /\ Torn # Absent
    /\ Breaks \subseteq {"kept", "tear", "unlisted"}

VARIABLES
    mutex,     \* mutex[p]: the thread in PROCESS_LOCK of process p
    poisoned,  \* processes whose PROCESS_LOCK a panic has poisoned
    flock,     \* the thread that has the lock on the file
    depth,     \* DEPTH of each thread
    pc,        \* where each thread is
    cur,       \* the transaction a thread runs, or the one it rolls back
    roots,     \* the roots of that transaction, as the thread has them
    gone,      \* those of the roots that did not exist (existed = false)
    todo,      \* roots a rollback has still to put back
    hole,      \* the root it has removed and not yet copied back
    seen,      \* directories a recovery has been through
    dir,       \* the transaction directories on disk
    live,      \* the objects on disk
    store,     \* transactions whose events are recorded
    used,      \* identifiers given out
    truth,     \* history: the objects as the applied operations left them
    done,      \* history: the operations that passed object_applied
    faults, crashes

lockVars == <<mutex, poisoned, flock, depth>>
jobVars == <<cur, roots, gone, todo, hole, seen>>
dataVars == <<dir, live, store, used, truth, done>>
vars == <<lockVars, pc, jobVars, dataVars, faults, crashes>>

Values == Txns \cup {Base, Absent, Torn}
Phases == {"bare", "backingUp", "prepared", "applied", "committed"}
\* No directory on disk; a directory without a manifest.
Removed == [phase |-> "removed", roots |-> {}, gone |-> {},
            copy |-> [o \in Objects |-> None]]
Bare == [Removed EXCEPT !.phase = "bare"]
Dirs == [phase : Phases \cup {"removed"}, roots : SUBSET Objects,
         gone : SUBSET Objects, copy : [Objects -> Values \cup {None}]]

Init ==
    /\ mutex = [p \in Procs |-> None] /\ poisoned = {} /\ flock = None
    /\ depth = [t \in Threads |-> 0] /\ pc = [t \in Threads |-> "out"]
    /\ cur = [t \in Threads |-> None]
    /\ roots = [t \in Threads |-> {}] /\ gone = [t \in Threads |-> {}]
    /\ todo = [t \in Threads |-> {}] /\ hole = [t \in Threads |-> None]
    /\ seen = [t \in Threads |-> {}]
    /\ dir = [x \in Txns |-> Removed]
    /\ live = [o \in Objects |-> IF o \in Existing THEN Base ELSE Absent]
    /\ truth = live
    /\ store = {} /\ used = {} /\ done = {}
    /\ faults = 0 /\ crashes = 0

(***************************************************************************)
(* Helpers.                                                                 *)
(***************************************************************************)
At(t, place) == pc[t] = place
Goto(t, place) == pc' = [pc EXCEPT ![t] = place]
Fault == /\ faults < MaxFaults
         /\ faults' = faults + 1
         /\ UNCHANGED crashes
NoFault == UNCHANGED <<faults, crashes>>

\* What a deletion that fails or stops can leave of a directory; its error is
\* ignored.  The manifest may be the first to go.  After a rollback it may
\* also stay, with "kept" beside all the backups, with "tear" beside a part.
Remnants(d) ==
    {Bare}
    \cup (IF d.phase # "prepared" \/ "kept" \in Breaks THEN {d} ELSE {})
    \cup (IF d.phase = "prepared" /\ "tear" \in Breaks
          THEN {[d EXCEPT !.copy[o] = v] :
                    o \in d.roots \ d.gone, v \in {Torn, None}}
          ELSE {})
Delete(x) ==
    \/ dir' = [dir EXCEPT ![x] = Removed] /\ NoFault
    \/ \E after \in Remnants(dir[x]) : dir' = [dir EXCEPT ![x] = after] /\ Fault

\* The thread forgets its transaction.
Drop(t) ==
    /\ cur' = [cur EXCEPT ![t] = None]
    /\ roots' = [roots EXCEPT ![t] = {}] /\ gone' = [gone EXCEPT ![t] = {}]
    /\ todo' = [todo EXCEPT ![t] = {}] /\ hole' = [hole EXCEPT ![t] = None]

\* An operation that fails returns and its guard is dropped next.
Fail(t) == Goto(t, "leaving") /\ Drop(t) /\ UNCHANGED seen

(***************************************************************************)
(* acquire and Drop of the lock.                                            *)
(***************************************************************************)
\* PROCESS_LOCK; a poisoned mutex refuses every thread of the process.
Lock(t) ==
    /\ At(t, "out") /\ mutex[ProcOf[t]] = None /\ ProcOf[t] \notin poisoned
    /\ mutex' = [mutex EXCEPT ![ProcOf[t]] = t]
    /\ depth' = [depth EXCEPT ![t] = 1]
    /\ Goto(t, "mutexed")
    /\ UNCHANGED <<poisoned, flock, jobVars, dataVars, faults, crashes>>

\* Mutant: acquire does not call recover_pending.
LockFileOnly(t) ==
    /\ At(t, "mutexed") /\ flock = None
    /\ flock' = t
    /\ Goto(t, "in")
    /\ UNCHANGED <<mutex, poisoned, depth, jobVars, dataVars, faults, crashes>>

\* Mutant: the lock on the file is not exclusive.
LockFileShared(t) ==
    /\ At(t, "mutexed")
    /\ flock' = t
    /\ Goto(t, "recovering")
    /\ seen' = [seen EXCEPT ![t] = {}]
    /\ UNCHANGED <<mutex, poisoned, depth, cur, roots, gone, todo, hole,
                   dataVars, faults, crashes>>

\* lock_exclusive on the file, then recover_pending begins.
LockFile(t) ==
    /\ At(t, "mutexed") /\ flock = None
    /\ flock' = t
    /\ Goto(t, "recovering")
    /\ seen' = [seen EXCEPT ![t] = {}]
    /\ UNCHANGED <<mutex, poisoned, depth, cur, roots, gone, todo, hole,
                   dataVars, faults, crashes>>

Unlock(t) ==
    /\ mutex' = [mutex EXCEPT ![ProcOf[t]] = None]
    /\ depth' = [depth EXCEPT ![t] = 0]
    /\ flock' = IF flock = t THEN None ELSE flock
    /\ Goto(t, "out")
    /\ Drop(t)
    /\ seen' = [seen EXCEPT ![t] = {}]
    /\ UNCHANGED poisoned

\* Opening or locking the file, or the recovery, fails: nothing stays held.
AcquireFails(t) ==
    /\ pc[t] \in {"mutexed", "recovering"}
    /\ Unlock(t) /\ Fault
    /\ UNCHANGED dataVars

\* A nested acquisition only counts: an operation of the MCP server holds the
\* lock and calls one that takes it again before it begins its transaction.
Nest(t) ==
    /\ At(t, "in") /\ depth[t] < MaxDepth
    /\ depth' = [depth EXCEPT ![t] = @ + 1]
    /\ UNCHANGED <<mutex, poisoned, flock, pc, jobVars, dataVars, faults, crashes>>

Unnest(t) ==
    /\ pc[t] \in {"in", "leaving"} /\ depth[t] > 1
    /\ depth' = [depth EXCEPT ![t] = @ - 1]
    /\ UNCHANGED <<mutex, poisoned, flock, pc, jobVars, dataVars, faults, crashes>>

Release(t) ==
    /\ pc[t] \in {"in", "leaving"} /\ depth[t] = 1
    /\ Unlock(t) /\ NoFault
    /\ UNCHANGED dataVars

(***************************************************************************)
(* A transaction: begin, copy_backups, prepare_paths, commit.               *)
(***************************************************************************)
\* begin: the directory with a backing_up manifest.
Begin(t, x, R) ==
    /\ At(t, "in") /\ x \notin used
    /\ used' = used \cup {x}
    /\ LET G == {o \in R : live[o] = Absent} IN
       /\ \/ /\ dir' = [dir EXCEPT ![x] =
                   [Removed EXCEPT !.phase = "backingUp", !.roots = R, !.gone = G]]
             /\ Goto(t, "backing") /\ NoFault
             /\ cur' = [cur EXCEPT ![t] = x]
             /\ roots' = [roots EXCEPT ![t] = R]
             /\ gone' = [gone EXCEPT ![t] = G]
             /\ UNCHANGED <<todo, hole, seen>>
          \/ /\ dir' = [dir EXCEPT ![x] = Bare]
             /\ Fault /\ Fail(t)
    /\ UNCHANGED <<lockVars, live, store, truth, done>>

\* copy_backups, one root at a time; a failure drops a transaction that is
\* still backing up, which leaves its directory as it is.
CopyBackup(t, o) ==
    /\ At(t, "backing") /\ o \in roots[t] \ gone[t]
    /\ dir[cur[t]].copy[o] = None
    /\ \/ /\ dir' = [dir EXCEPT ![cur[t]].copy[o] = live[o]]
          /\ NoFault /\ UNCHANGED <<pc, jobVars>>
       \/ /\ Fault /\ Fail(t) /\ UNCHANGED dir
    /\ UNCHANGED <<lockVars, live, store, used, truth, done>>

\* The rollback of the thread's own transaction: restore first looks for
\* every backup it needs, and gives up without them.
Undo(t, R, G) ==
    IF \A o \in R \ G : dir'[cur[t]].copy[o] # None
    THEN /\ Goto(t, "undoing")
         /\ todo' = [todo EXCEPT ![t] = R]
         /\ roots' = [roots EXCEPT ![t] = R] /\ gone' = [gone EXCEPT ![t] = G]
         /\ UNCHANGED <<cur, hole, seen>>
    ELSE Fail(t)

\* The phase goes to prepared in memory and then on disk.  When the write
\* fails, the drop rolls back what the manifest still calls backing_up.
MarkPrepared(t) ==
    /\ At(t, "backing")
    /\ \A o \in roots[t] \ gone[t] : dir[cur[t]].copy[o] # None
    /\ \/ /\ dir' = [dir EXCEPT ![cur[t]].phase = "prepared"]
          /\ Goto(t, "open") /\ NoFault /\ UNCHANGED jobVars
       \/ /\ "unlisted" \in Breaks /\ Fault /\ UNCHANGED dir
          /\ Undo(t, roots[t], gone[t])
    /\ UNCHANGED <<lockVars, live, store, used, truth, done>>

\* prepare_paths of one path: the copy, the root in memory, the manifest.
Register(t, o) ==
    /\ At(t, "open") /\ o \notin roots[t]
    /\ LET x == cur[t]
           R == roots[t] \cup {o}
           G == IF live[o] = Absent THEN gone[t] \cup {o} ELSE gone[t]
           copied == IF live[o] = Absent THEN dir[x].copy
                     ELSE [dir[x].copy EXCEPT ![o] = live[o]]
       IN \/ /\ dir' = [dir EXCEPT ![x].copy = copied, ![x].roots = R, ![x].gone = G]
             /\ roots' = [roots EXCEPT ![t] = R]
             /\ gone' = [gone EXCEPT ![t] = G]
             /\ NoFault /\ UNCHANGED <<pc, cur, todo, hole, seen>>
          \/ /\ Fault /\ UNCHANGED dir          \* the copy fails
             /\ Undo(t, roots[t], gone[t])
          \/ /\ "unlisted" \in Breaks /\ Fault  \* the manifest cannot be written
             /\ dir' = [dir EXCEPT ![x].copy = copied]
             /\ Undo(t, R, G)
    /\ UNCHANGED <<lockVars, live, store, used, truth, done>>

\* The operation writes or removes an object it has registered.
Change(t, o, v) ==
    /\ At(t, "open") /\ o \in roots[t] /\ v \in {cur[t], Absent}
    /\ live' = [live EXCEPT ![o] = v]
    /\ UNCHANGED <<lockVars, pc, jobVars, dir, store, used, truth, done, faults, crashes>>

\* An error between begin and commit: the transaction is dropped.
Abort(t) ==
    /\ At(t, "open")
    /\ UNCHANGED <<dir, lockVars, live, store, used, truth, done>> /\ NoFault
    /\ Undo(t, roots[t], gone[t])

\* A panic drops the transaction the same way, and the guard of the mutex
\* poisons it.
Panic(t) ==
    /\ pc[t] \in {"in", "open"} /\ Fault
    /\ poisoned' = poisoned \cup {ProcOf[t]}
    /\ UNCHANGED <<mutex, flock, depth, dataVars>>
    /\ IF At(t, "open") THEN Undo(t, roots[t], gone[t]) ELSE Fail(t)

\* commit: the object_applied manifest is the point of no return.
WriteApplied(t) ==
    /\ At(t, "open")
    /\ \/ /\ dir' = [dir EXCEPT ![cur[t]].phase = "applied"]
          /\ truth' = live /\ done' = done \cup {cur[t]}
          /\ Goto(t, "applied") /\ NoFault /\ UNCHANGED jobVars
       \/ /\ Fault /\ UNCHANGED <<dir, truth, done>>
          /\ Undo(t, roots[t], gone[t])
    /\ UNCHANGED <<lockVars, live, store, used>>

\* record_events; a failure leaves the directory to the next acquisition.
Record(t) ==
    /\ At(t, "applied")
    /\ \/ /\ store' = store \cup {cur[t]}
          /\ Goto(t, "recorded") /\ NoFault /\ UNCHANGED jobVars
       \/ Fault /\ Fail(t) /\ UNCHANGED store
    /\ UNCHANGED <<lockVars, dir, live, used, truth, done>>

MarkCommitted(t) ==
    /\ At(t, "recorded")
    /\ \/ /\ dir' = [dir EXCEPT ![cur[t]].phase = "committed"]
          /\ Goto(t, "committed") /\ NoFault /\ UNCHANGED jobVars
       \/ Fault /\ Fail(t) /\ UNCHANGED dir
    /\ UNCHANGED <<lockVars, live, store, used, truth, done>>

RemoveDir(t) ==
    /\ At(t, "committed")
    /\ Delete(cur[t])
    /\ Goto(t, "in") /\ Drop(t)
    /\ UNCHANGED <<seen, lockVars, live, store, used, truth, done>>

(***************************************************************************)
(* restore and restore_manifest: each root is removed, then copied back.    *)
(***************************************************************************)
Restoring(t) == pc[t] \in {"undoing", "restoring"}

\* Mutant: every root is copied back, existed or not.
RestoreRemoveAll(t, o) ==
    /\ Restoring(t) /\ hole[t] = None /\ o \in todo[t]
    /\ live' = [live EXCEPT ![o] = Absent]
    /\ hole' = [hole EXCEPT ![t] = o]
    /\ UNCHANGED <<lockVars, pc, cur, roots, gone, todo, seen, dir, store, used,
                   truth, done, faults, crashes>>

RestoreRemove(t, o) ==
    /\ Restoring(t) /\ hole[t] = None /\ o \in todo[t]
    /\ live' = [live EXCEPT ![o] = Absent]
    /\ IF o \in gone[t]
       THEN todo' = [todo EXCEPT ![t] = @ \ {o}] /\ UNCHANGED hole
       ELSE hole' = [hole EXCEPT ![t] = o] /\ UNCHANGED todo
    /\ UNCHANGED <<lockVars, pc, cur, roots, gone, seen, dir, store, used,
                   truth, done, faults, crashes>>

RestoreCopy(t) ==
    /\ Restoring(t) /\ hole[t] # None
    /\ live' = [live EXCEPT ![hole[t]] = dir[cur[t]].copy[hole[t]]]
    /\ todo' = [todo EXCEPT ![t] = @ \ {hole[t]}]
    /\ hole' = [hole EXCEPT ![t] = None]
    /\ UNCHANGED <<lockVars, pc, cur, roots, gone, seen, dir, store, used,
                   truth, done, faults, crashes>>

\* A rollback that fails keeps its directory: Drop only reports it, a
\* recovery gives the acquisition up.
RestoreFails(t) ==
    /\ Restoring(t) /\ todo[t] # {} /\ Fault
    /\ UNCHANGED dataVars
    /\ IF At(t, "undoing") THEN Fail(t) /\ UNCHANGED lockVars ELSE Unlock(t)

RestoreDone(t) ==
    /\ Restoring(t) /\ todo[t] = {}
    /\ Delete(cur[t])
    /\ Goto(t, IF At(t, "undoing") THEN "leaving" ELSE "recovering")
    /\ Drop(t)
    /\ UNCHANGED <<seen, lockVars, live, store, used, truth, done>>

(***************************************************************************)
(* recover_pending, one directory at a time.                                *)
(***************************************************************************)
Recovers(t, x) == At(t, "recovering") /\ dir[x].phase # "removed" /\ x \notin seen[t]
See(t, x) == seen' = [seen EXCEPT ![t] = @ \cup {x}]

\* Mutant: a prepared directory is discarded like one still backing up.
RecoverDiscardPrepared(t, x) ==
    /\ Recovers(t, x)
    /\ dir[x].phase \in {"bare", "backingUp", "prepared", "committed"}
    /\ Delete(x)
    /\ See(t, x)
    /\ UNCHANGED <<lockVars, pc, cur, roots, gone, todo, hole, live, store,
                   used, truth, done>>

\* No manifest, backing_up or committed: only the directory goes.
RecoverDiscard(t, x) ==
    /\ Recovers(t, x) /\ dir[x].phase \in {"bare", "backingUp", "committed"}
    /\ Delete(x)
    /\ See(t, x)
    /\ UNCHANGED <<lockVars, pc, cur, roots, gone, todo, hole, live, store,
                   used, truth, done>>

\* prepared: restore_manifest, unless a backup is missing.
RecoverPrepared(t, x) ==
    /\ Recovers(t, x) /\ dir[x].phase = "prepared"
    /\ UNCHANGED <<dataVars, faults, crashes>>
    /\ IF \A o \in dir[x].roots \ dir[x].gone : dir[x].copy[o] # None
       THEN /\ Goto(t, "restoring") /\ See(t, x)
            /\ cur' = [cur EXCEPT ![t] = x]
            /\ roots' = [roots EXCEPT ![t] = dir[x].roots]
            /\ gone' = [gone EXCEPT ![t] = dir[x].gone]
            /\ todo' = [todo EXCEPT ![t] = dir[x].roots]
            /\ UNCHANGED <<hole, lockVars>>
       ELSE Unlock(t)

\* Mutant: the events of a prepared transaction are recorded too.
RecoverAppliedEarly(t, x) ==
    /\ Recovers(t, x) /\ dir[x].phase \in {"prepared", "applied"}
    /\ store' = store \cup {x}
    /\ Delete(x)
    /\ See(t, x)
    /\ UNCHANGED <<lockVars, pc, cur, roots, gone, todo, hole, live, used,
                   truth, done>>

\* object_applied: the events are recorded, which does nothing to those that
\* are there already.
RecoverApplied(t, x) ==
    /\ Recovers(t, x) /\ dir[x].phase = "applied"
    /\ store' = store \cup {x}
    /\ Delete(x)
    /\ See(t, x)
    /\ UNCHANGED <<lockVars, pc, cur, roots, gone, todo, hole, live, used,
                   truth, done>>

RecoverDone(t) ==
    /\ At(t, "recovering")
    /\ \A x \in Txns : dir[x].phase = "removed" \/ x \in seen[t]
    /\ Goto(t, "in")
    /\ seen' = [seen EXCEPT ![t] = {}]
    /\ UNCHANGED <<lockVars, cur, roots, gone, todo, hole, dataVars, faults, crashes>>

\* The process dies: its mutex, its lock on the file and its transactions in
\* memory are gone.
Crash(p) ==
    /\ crashes < MaxCrashes
    /\ \E t \in Threads : ProcOf[t] = p /\ pc[t] # "out"
    /\ crashes' = crashes + 1
    /\ LET mine == {t \in Threads : ProcOf[t] = p}
           Reset(f, v) == [t \in Threads |-> IF t \in mine THEN v ELSE f[t]]
       IN /\ mutex' = [mutex EXCEPT ![p] = None]
          /\ poisoned' = poisoned \ {p}
          /\ flock' = IF flock \in mine THEN None ELSE flock
          /\ depth' = Reset(depth, 0) /\ pc' = Reset(pc, "out")
          /\ cur' = Reset(cur, None)
          /\ roots' = Reset(roots, {}) /\ gone' = Reset(gone, {})
          /\ todo' = Reset(todo, {}) /\ hole' = Reset(hole, None)
          /\ seen' = Reset(seen, {})
    /\ UNCHANGED <<dataVars, faults>>

-----------------------------------------------------------------------------
Acquire(t) == Lock(t) \/ LockFile(t) \/ RecoverDone(t)
                \/ \E x \in Txns : RecoverDiscard(t, x) \/ RecoverPrepared(t, x)
                                      \/ RecoverApplied(t, x)
Restore(t) == RestoreCopy(t) \/ RestoreDone(t)
                \/ \E o \in Objects : RestoreRemove(t, o)
Commit(t) == WriteApplied(t) \/ Record(t) \/ MarkCommitted(t) \/ RemoveDir(t)
Prepare(t) == MarkPrepared(t) \/ \E o \in Objects : CopyBackup(t, o)
Fails(t) == AcquireFails(t) \/ RestoreFails(t) \/ Panic(t) \/ Abort(t)
Work(t) ==
    \/ Nest(t)
    \/ \E x \in Txns, R \in RootSets : Begin(t, x, R)
    \/ \E o \in Objects : Register(t, o) \/ \E v \in Txns \cup {Absent} : Change(t, o, v)

ThreadStep(t) == Acquire(t) \/ Restore(t) \/ Prepare(t) \/ Commit(t)
                   \/ Unnest(t) \/ Release(t) \/ Work(t) \/ Fails(t)
Next == \/ \E t \in Threads : ThreadStep(t)
        \/ \E p \in Procs : Crash(p)

Spec == Init /\ [][Next]_vars

\* Code that holds the lock goes on until it releases it, and the workspace is
\* opened or written again: every entry that writes acquires the lock, and so
\* does the start of the application.
Fairness ==
    \A t \in Threads :
        /\ SF_vars(Acquire(t)) /\ SF_vars(Release(t))
        /\ WF_vars(Restore(t) \/ Prepare(t) \/ Commit(t) \/ Unnest(t))
FairSpec == Spec /\ Fairness

-----------------------------------------------------------------------------
TypeOK ==
    /\ mutex \in [Procs -> Threads \cup {None}]
    /\ poisoned \subseteq Procs
    /\ flock \in Threads \cup {None}
    /\ depth \in [Threads -> 0..MaxDepth]
    /\ pc \in [Threads -> {"out", "mutexed", "recovering", "in", "backing",
                           "open", "applied", "recorded", "committed",
                           "undoing", "restoring", "leaving"}]
    /\ cur \in [Threads -> Txns \cup {None}]
    /\ roots \in [Threads -> SUBSET Objects] /\ gone \in [Threads -> SUBSET Objects]
    /\ todo \in [Threads -> SUBSET Objects]
    /\ hole \in [Threads -> Objects \cup {None}]
    /\ seen \in [Threads -> SUBSET Txns]
    /\ dir \in [Txns -> Dirs]
    /\ live \in [Objects -> Values] /\ truth \in [Objects -> Values]
    /\ store \subseteq Txns /\ used \subseteq Txns /\ done \subseteq Txns
    /\ faults \in 0..MaxFaults /\ crashes \in 0..MaxCrashes

Settled == live = truth /\ store = done

\* Whoever has come through acquire finds the objects exactly as the applied
\* operations left them, and the events of every one of those operations
\* recorded, whatever failed or crashed before it and in whichever process
\* (acquire's call of recover_pending, the phases of the manifest).
HolderSeesTruth ==
    \A t \in Threads : At(t, "in") => Settled

\* Events are never on record for a change that has been or can still be
\* rolled back (commit's order: object_applied, events, committed).
NoEventWithoutChange ==
    /\ store \subseteq done
    /\ \A x \in store : dir[x].phase \notin {"backingUp", "prepared"}

\* The read-modify-write of one process is never interleaved with another's:
\* from the lock on the file to the release only one thread is inside.
Inside(t) == pc[t] \notin {"out", "mutexed"}
OneWriter == \A t, u \in Threads : Inside(t) /\ Inside(u) => t = u

\* The workspace comes to rest: what a failed or interrupted operation left in
\* the objects is put back, and the events of an applied one are recorded, as
\* long as the workspace is still opened or written (the recovery inside every
\* acquisition; an event that could not be appended is appended later).
ComesToRest == ~Settled ~> Settled

=============================================================================
