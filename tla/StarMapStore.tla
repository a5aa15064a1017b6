---------------------------- MODULE StarMapStore ----------------------------
(***************************************************************************)
(* One star map on the disk and the stores that cache it (starmap/store,    *)
(* facade/starmap_ops, api/service/starmap_ops.rs).                         *)
(*                                                                          *)
(* graph.json lists the members of the map; every member has a file of its  *)
(* own.  An operation changes the store's memory first and then flushes it: *)
(* files of changed objects, the deletions under a journal of their own     *)
(* (storage/journal/starmap_object_delete.rs), and graph.json last.  Around *)
(* it stands the contribution transaction of module Contribution, here with *)
(* its roll-back as one step: it knows the files and graph.json, and        *)
(* neither the journal of the deletions nor the tombstones.                 *)
(*                                                                          *)
(* Nodes, edges, embeds and links go the same way; a node stands for any of *)
(* them, and the set an operation deletes for a node with its cascade.      *)
(***************************************************************************)
EXTENDS Naturals, FiniteSets

CONSTANTS
    Procs,       \* processes that open the workspace
    Nodes,       \* identifiers of objects; each is added once
    None,
    Original,    \* the members of the map in the beginning
    FailAt,      \* the steps that may fail with an I/O error
    MaxFaults,   \* bound on such failures
    MaxCrashes,  \* bound on crashes
    MaxOps       \* bound on operations that change the map

Starting == {"boot", "bootMark", "bootMeta", "bootClear"}
Steps == Starting \cup
    {"changed", "write", "plan", "move", "bury", "meta", "clear", "flushed"}

ASSUME StoreAssumption ==
    /\ Original \subseteq Nodes /\ FailAt \subseteq Steps
    /\ MaxFaults \in Nat /\ MaxCrashes \in Nat /\ MaxOps \in Nat
    /\ None \notin Procs

VARIABLES
    files,    \* the objects that have a file
    meta,     \* graph.json: package_revision, members, deleted_since_last_sync
    journal,  \* the journal of a deletion
    tombs,    \* SyncState.tombstones of the map's group
    known,    \* SyncState.known_files
    txn,      \* the contribution transaction on the disk
    holder,   \* the process that has the WorkspaceWriteLock
    mem,      \* the store each process caches
    pc,       \* where a process is
    flush,    \* what the operation and its flush keep track of
    asked,    \* history: objects whose deletion was ever requested
    added,    \* history: additions that passed object_applied
    deleted,  \* history: deletions that passed object_applied
    used, ops, faults, crashes

disk == <<files, meta, journal, tombs, known, txn>>
history == <<asked, added, deleted, used, ops>>
storeVars == <<disk, holder, mem, pc, flush, history, faults, crashes>>

NoJournal == [phase |-> "none", objs |-> {}]
NoTxn == [phase |-> "none", paths |-> {}, had |-> {}, graph |-> FALSE,
          meta |-> [rev |-> 0, members |-> {}, log |-> {}]]
NoStore == [loaded |-> FALSE, nodes |-> {}, dirty |-> {}, deleted |-> {},
            dirtyMeta |-> FALSE, meta |-> NoTxn.meta]
Idle == [op |-> FALSE, todo |-> {}, put |-> {}, objs |-> {}, left |-> {},
         sent |-> {}, failed |-> FALSE, adds |-> {}, dels |-> {}]

StoreInit ==
    /\ files = Original /\ known = Original /\ tombs = {}
    /\ meta = [rev |-> 1, members |-> Original, log |-> {}]
    /\ journal = NoJournal /\ txn = NoTxn /\ holder = None
    /\ mem = [p \in Procs |-> NoStore]
    /\ pc = [p \in Procs |-> "off"] /\ flush = [p \in Procs |-> Idle]
    /\ asked = {} /\ added = {} /\ deleted = {} /\ used = Original
    /\ ops = 0 /\ faults = 0 /\ crashes = 0

At(p, place) == pc[p] = place
Goto(p, place) == pc' = [pc EXCEPT ![p] = place]
Quiet == UNCHANGED <<faults, crashes>>

\* The guard is dropped and the caller gets its answer.
Leave(p) ==
    holder' = None /\ Goto(p, "idle") /\ flush' = [flush EXCEPT ![p] = Idle]

(***************************************************************************)
(* The contribution transaction.                                            *)
(***************************************************************************)
\* Mutant: an applied transaction is rolled back too.
SettleAll ==
    /\ txn' = NoTxn
    /\ files' = (files \ txn.paths) \cup txn.had
    /\ meta' = IF txn.graph THEN txn.meta ELSE meta

\* recover_pending and Drop: objects that were not applied are put back.
Settle ==
    /\ txn' = NoTxn
    /\ IF txn.phase = "prepared"
       THEN /\ files' = (files \ txn.paths) \cup txn.had
            /\ meta' = IF txn.graph THEN txn.meta ELSE meta
       ELSE UNCHANGED <<files, meta>>

Take(p) ==
    holder = None /\ holder' = p /\ Settle /\ UNCHANGED <<journal, tombs, known>>

(***************************************************************************)
(* Start-up: bootstrap_workspace.                                           *)
(***************************************************************************)
Start(p) ==
    /\ At(p, "off") /\ Take(p)
    /\ Goto(p, "boot")
    /\ flush' = [flush EXCEPT ![p].left = journal.objs]
    /\ UNCHANGED <<mem, history>> /\ Quiet

\* delete_*_file_to_trash; an object without a file counts as moved.
MoveFile(p, n) ==
    /\ n \in flush[p].left
    /\ files' = files \ {n}
    /\ flush' = [flush EXCEPT ![p].left = @ \ {n}, ![p].sent = @ \cup {n}]
    /\ UNCHANGED <<meta, journal, tombs, known, txn>>

Replay(p, n) ==
    /\ At(p, "boot") /\ journal.phase = "Planned" /\ MoveFile(p, n)
    /\ UNCHANGED <<pc, holder, mem, history>> /\ Quiet

\* ensure_sync_tombstones_from_facts, then the phase that says so.
RebuildTombs(p) ==
    /\ At(p, "boot") /\ journal # NoJournal
    /\ journal.phase = "Planned" => flush[p].left = {}
    /\ tombs' = tombs \cup journal.objs
    /\ Goto(p, "bootMark")
    /\ UNCHANGED <<files, meta, journal, known, txn, holder, mem, flush, history>> /\ Quiet

MarkReplayed(p) ==
    /\ At(p, "bootMark")
    /\ journal' = [journal EXCEPT !.phase = IF @ = "Planned" THEN "Tombstoned" ELSE @]
    /\ Goto(p, IF journal.phase = "GraphMetaWritten" THEN "bootClear" ELSE "bootMeta")
    /\ UNCHANGED <<files, meta, tombs, known, txn, holder, mem, flush, history>> /\ Quiet

\* recover_starmap_object_delete_graph_meta: graph.json is written only when
\* one of the objects is not logged yet.
PatchMeta(p) ==
    /\ At(p, "bootMeta")
    /\ meta' = IF journal.objs \subseteq meta.log THEN meta
               ELSE [rev |-> meta.rev + 1, members |-> meta.members \ journal.objs,
                     log |-> meta.log \cup journal.objs]
    /\ Goto(p, "bootClear")
    /\ UNCHANGED <<files, journal, tombs, known, txn, holder, mem, flush, history>> /\ Quiet

\* Mutant: a journal whose renames are not known to be done is dropped.
StartedEarly(p) ==
    /\ At(p, "bootClear") \/ (At(p, "boot") /\ journal.phase \in {"none", "Planned"})
    /\ journal' = NoJournal
    /\ Leave(p)
    /\ UNCHANGED <<files, meta, tombs, known, txn, mem, history>> /\ Quiet

\* The journal is cleared; without one there is nothing to do.
Started(p) ==
    /\ At(p, "bootClear") \/ (At(p, "boot") /\ journal = NoJournal)
    /\ journal' = NoJournal
    /\ Leave(p)
    /\ UNCHANGED <<files, meta, tombs, known, txn, mem, history>> /\ Quiet

(***************************************************************************)
(* An operation up to the flush.                                            *)
(***************************************************************************)
\* acquire, begin_deferred and load_full, which fails closed when a member
\* has no file.
Open(p) ==
    /\ At(p, "idle") /\ Take(p)
    /\ flush' = [flush EXCEPT ![p].op = TRUE]
    /\ Goto(p, "load")
    /\ UNCHANGED <<mem, history>> /\ Quiet

Loadable == meta.members \subseteq files
Load(p) ==
    /\ At(p, "load")
    /\ IF mem[p].loaded \/ Loadable
       THEN Goto(p, "open") /\ UNCHANGED <<holder, flush>>
       ELSE Leave(p)
    /\ mem' = IF mem[p].loaded \/ ~Loadable THEN mem
              ELSE [mem EXCEPT ![p] = [NoStore EXCEPT !.loaded = TRUE,
                                       !.nodes = meta.members, !.meta = meta]]
    /\ UNCHANGED <<disk, history>> /\ Quiet

\* validate_graph or the expected revision refuses the operation.
Refuse(p) ==
    /\ At(p, "open") /\ Leave(p)
    /\ UNCHANGED <<disk, mem, history>> /\ Quiet

Changing(p) ==
    /\ At(p, "open") /\ ops < MaxOps
    /\ ops' = ops + 1
    /\ Goto(p, "changed")
    /\ UNCHANGED <<disk, holder, added, deleted>> /\ Quiet

\* upsert_node of a new object, and of one that moves.
AddNode(p, n) ==
    /\ n \notin used
    /\ Changing(p)
    /\ mem' = [mem EXCEPT ![p].nodes = @ \cup {n}, ![p].dirty = @ \cup {n},
                          ![p].deleted = @ \ {n}, ![p].dirtyMeta = TRUE]
    /\ flush' = [flush EXCEPT ![p].adds = {n}]
    /\ used' = used \cup {n} /\ UNCHANGED asked

MoveNode(p, n) ==
    /\ n \in mem[p].nodes
    /\ Changing(p)
    /\ mem' = [mem EXCEPT ![p].dirty = @ \cup {n}, ![p].dirtyMeta = TRUE]
    /\ UNCHANGED <<flush, asked, used>>

\* remove_node and its like for a node with its cascade.
DeleteNodes(p, N) ==
    /\ N # {} /\ N \subseteq mem[p].nodes
    /\ Changing(p)
    /\ mem' = [mem EXCEPT ![p].nodes = @ \ N, ![p].dirty = @ \ N,
                          ![p].deleted = @ \cup N, ![p].dirtyMeta = TRUE]
    /\ flush' = [flush EXCEPT ![p].dels = N]
    /\ asked' = asked \cup N /\ UNCHANGED used

\* prepare_paths with pending_flush_paths.
Register(p) ==
    /\ At(p, "changed")
    /\ txn' = [phase |-> "prepared", paths |-> mem[p].dirty \cup mem[p].deleted,
               had |-> files \cap (mem[p].dirty \cup mem[p].deleted),
               graph |-> mem[p].dirtyMeta, meta |-> meta]
    /\ flush' = [flush EXCEPT ![p].todo = mem[p].dirty]
    /\ Goto(p, "write")
    /\ UNCHANGED <<files, meta, journal, tombs, known, holder, mem, history>> /\ Quiet

\* flush_starmap_store, flush_all_starmap_stores: a flush of what is left in
\* the store, under the lock and without a transaction.
FlushDirectly(p) ==
    /\ At(p, "idle")
    /\ mem[p].dirtyMeta \/ mem[p].dirty \cup mem[p].deleted # {}
    /\ Take(p)
    /\ flush' = [flush EXCEPT ![p].todo = mem[p].dirty]
    /\ Goto(p, "write")
    /\ UNCHANGED <<mem, history>> /\ Quiet

(***************************************************************************)
(* flush_save_queue.                                                        *)
(***************************************************************************)
WriteFile(p, n) ==
    /\ At(p, "write") /\ n \in flush[p].todo
    /\ files' = files \cup {n}
    /\ flush' = [flush EXCEPT ![p].todo = @ \ {n}, ![p].put = @ \cup {n}]
    /\ UNCHANGED <<meta, journal, tombs, known, txn, holder, mem, pc, history>> /\ Quiet

Written(p) ==
    /\ At(p, "write") /\ flush[p].todo = {}
    /\ Goto(p, "plan")
    /\ UNCHANGED <<disk, holder, mem, flush, history>> /\ Quiet

\* A journal that is there is resumed with the objects it names; otherwise
\* save_planned writes one for the objects that are deleted in the store.
Plan(p) ==
    /\ At(p, "plan")
    /\ IF mem[p].deleted = {} THEN UNCHANGED journal /\ Goto(p, "meta")
       ELSE /\ Goto(p, "move")
            /\ journal' = IF journal # NoJournal THEN journal
                          ELSE [phase |-> "Planned", objs |-> mem[p].deleted]
    /\ flush' = IF mem[p].deleted = {} THEN flush
              ELSE [flush EXCEPT ![p].objs = journal'.objs,
                                    ![p].left = journal'.objs]
    /\ UNCHANGED <<files, meta, tombs, known, txn, holder, mem, history>> /\ Quiet

Trash(p, n) ==
    /\ At(p, "move") /\ MoveFile(p, n)
    /\ UNCHANGED <<pc, holder, mem, history>> /\ Quiet

Trashed(p) ==
    /\ At(p, "move") /\ flush[p].left = {}
    /\ Goto(p, "bury")
    /\ UNCHANGED <<disk, holder, mem, flush, history>> /\ Quiet

Bury(p) ==
    /\ At(p, "bury")
    /\ tombs' = tombs \cup flush[p].objs
    /\ Goto(p, "mark")
    /\ UNCHANGED <<files, meta, journal, known, txn, holder, mem, flush, history>> /\ Quiet

Mark(p) ==
    /\ At(p, "mark")
    /\ journal' = [journal EXCEPT !.phase = "Tombstoned"]
    /\ Goto(p, "meta")
    /\ UNCHANGED <<files, meta, tombs, known, txn, holder, mem, flush, history>> /\ Quiet

\* reload_graph_meta_if_stale and merge_memory_ids_into_graph_meta_on.
Merged(p) ==
    LET base == IF meta.rev > mem[p].meta.rev THEN meta ELSE mem[p].meta
    IN  [rev |-> base.rev + 1,
         members |-> (base.members \cup mem[p].nodes) \ mem[p].deleted,
         log |-> (base.log \cup mem[p].deleted) \ mem[p].nodes]

\* Mutant: a failure before does not keep graph.json from being written.
WriteMetaAnyway(p) ==
    /\ At(p, "meta")
    /\ meta' = Merged(p)
    /\ mem' = [mem EXCEPT ![p].meta = Merged(p)]
    /\ Goto(p, "markMeta")
    /\ UNCHANGED <<files, journal, tombs, known, txn, holder, flush, history>> /\ Quiet

\* graph.json is the commit record: it is not written after a failure.
WriteMeta(p) ==
    /\ At(p, "meta") /\ ~flush[p].failed
    /\ IF mem[p].dirtyMeta
       THEN /\ meta' = Merged(p)
            /\ mem' = [mem EXCEPT ![p].meta = Merged(p)]
       ELSE UNCHANGED <<meta, mem>>
    /\ Goto(p, "markMeta")
    /\ UNCHANGED <<files, journal, tombs, known, txn, holder, flush, history>> /\ Quiet

MarkMeta(p) ==
    /\ At(p, "markMeta")
    /\ journal' = IF flush[p].objs = {} \/ ~mem[p].dirtyMeta THEN journal
                  ELSE [journal EXCEPT !.phase = "GraphMetaWritten"]
    /\ Goto(p, "clear")
    /\ UNCHANGED <<files, meta, tombs, known, txn, holder, mem, flush, history>> /\ Quiet

\* Only what was written and moved leaves the dirty sets.
Flushed(p) ==
    /\ mem' = [mem EXCEPT ![p].dirty = @ \ flush[p].put,
                          ![p].deleted = @ \ flush[p].sent, ![p].dirtyMeta = FALSE]
    /\ Goto(p, "flushed")

Clear(p) ==
    /\ At(p, "clear")
    /\ Flushed(p)
    /\ journal' = IF flush[p].objs = {} THEN journal ELSE NoJournal
    /\ UNCHANGED <<files, meta, tombs, known, txn, holder, flush, history>> /\ Quiet

(***************************************************************************)
(* The end of an operation.                                                 *)
(***************************************************************************)
\* commit: object_applied on the disk.  A flush without a transaction is done.
Apply(p) ==
    /\ At(p, "flushed")
    /\ IF flush[p].op
       THEN /\ txn' = [txn EXCEPT !.phase = "applied"]
            /\ added' = added \cup flush[p].adds
            /\ deleted' = deleted \cup flush[p].dels
            /\ Goto(p, "applied") /\ UNCHANGED <<holder, flush>>
       ELSE Leave(p) /\ UNCHANGED <<txn, added, deleted>>
    /\ UNCHANGED <<files, meta, journal, tombs, known, mem, asked, used, ops>> /\ Quiet

\* The events are recorded, the directory goes, the caller is told.
Answer(p) ==
    /\ At(p, "applied")
    /\ txn' = NoTxn
    /\ Leave(p)
    /\ UNCHANGED <<files, meta, journal, tombs, known, mem, history>> /\ Quiet

\* A step fails: a start goes on with a warning and the journal as it is;
\* before the flush the store keeps what it was changed to; a file that cannot
\* be written does not stop the deletions; a journal that cannot be removed is
\* left; commit keeps the cache.
StepFails(p) ==
    /\ pc[p] \in FailAt
    /\ faults < MaxFaults /\ faults' = faults + 1 /\ UNCHANGED crashes
    /\ CASE pc[p] \in Starting -> /\ journal # NoJournal
                                  /\ Leave(p) /\ UNCHANGED <<mem, disk>>
         [] At(p, "changed") -> Leave(p) /\ UNCHANGED <<mem, disk>>
         [] At(p, "write") -> /\ flush[p].todo # {}
                              /\ flush' = [flush EXCEPT ![p].failed = TRUE]
                              /\ Goto(p, "plan") /\ UNCHANGED <<holder, mem, disk>>
         [] At(p, "clear") -> /\ flush[p].objs # {}
                              /\ Flushed(p) /\ UNCHANGED <<holder, flush, disk>>
         [] At(p, "flushed") -> /\ flush[p].op
                                /\ Settle /\ Leave(p)
                                /\ UNCHANGED <<mem, journal, tombs, known>>
         [] OTHER -> /\ At(p, "plan") => mem[p].deleted # {}
                     /\ flush' = [flush EXCEPT ![p].failed = TRUE]
                     /\ Goto(p, "failed") /\ UNCHANGED <<holder, mem, disk>>
    /\ UNCHANGED history

\* The flush returns an error: an operation drops the store from the cache
\* and rolls back, a flush of its own leaves everything for a retry.
FlushFails(p) ==
    /\ At(p, "failed") \/ (At(p, "meta") /\ flush[p].failed)
    /\ IF flush[p].op THEN mem' = [mem EXCEPT ![p] = NoStore] /\ Settle
                    ELSE UNCHANGED <<mem, files, meta, txn>>
    /\ Leave(p)
    /\ UNCHANGED <<journal, tombs, known, history>> /\ Quiet

(***************************************************************************)
(* Around it.                                                               *)
(***************************************************************************)
\* An interface object per call (desktop, MCP server), and the eviction after
\* a sync commit: the store leaves the cache.
Forget(p) ==
    /\ At(p, "idle") /\ mem[p].loaded
    /\ mem' = [mem EXCEPT ![p] = NoStore]
    /\ UNCHANGED <<disk, holder, pc, flush, history>> /\ Quiet

\* A round of the synchronisation takes the files over; it begins with
\* flush_all_starmap_stores, which acquires the lock and lets it go.
Sync(p) ==
    /\ At(p, "idle") /\ holder = None
    /\ Settle /\ known' = known \cup files'
    /\ UNCHANGED <<journal, tombs, holder, mem, pc, flush, history>>
    /\ Quiet

Crash(p) ==
    /\ ~At(p, "off") /\ crashes < MaxCrashes /\ crashes' = crashes + 1
    /\ holder' = IF holder = p THEN None ELSE holder
    /\ mem' = [mem EXCEPT ![p] = NoStore]
    /\ flush' = [flush EXCEPT ![p] = Idle] /\ Goto(p, "off")
    /\ UNCHANGED <<disk, history, faults>>

Operation(p) ==
    \/ Open(p) \/ Load(p) \/ Refuse(p) \/ Register(p)
    \/ \E n \in Nodes : AddNode(p, n) \/ MoveNode(p, n)
    \/ \E N \in SUBSET Nodes : DeleteNodes(p, N)
    \/ FlushDirectly(p) \/ Apply(p) \/ Answer(p)
FlushStep(p) ==
    \/ \E n \in Nodes : WriteFile(p, n) \/ Trash(p, n)
    \/ Written(p) \/ Plan(p) \/ Trashed(p) \/ Bury(p) \/ Mark(p)
    \/ WriteMeta(p) \/ MarkMeta(p) \/ Clear(p) \/ FlushFails(p)
Bootstrap(p) ==
    \/ Start(p) \/ RebuildTombs(p) \/ MarkReplayed(p) \/ PatchMeta(p) \/ Started(p)
    \/ \E n \in Nodes : Replay(p, n)

StoreNext ==
    \E p \in Procs :
        \/ Operation(p) \/ FlushStep(p) \/ Bootstrap(p) \/ StepFails(p)
        \/ Forget(p) \/ Sync(p) \/ Crash(p)
StoreSpec == StoreInit /\ [][StoreNext]_storeVars

(***************************************************************************)
(* Properties.                                                              *)
(***************************************************************************)
\* Nothing is under way: the lock is free and no transaction is left.
AtRest == holder = None /\ txn.phase # "prepared"

\* Whatever crashes, fails or is flushed late, the map can be opened: every
\* member graph.json lists has its file, without which load_full fails
\* closed.  The exception is a deletion cut off, which its journal finishes.
MembersLoadable == AtRest => meta.members \ files \subseteq journal.objs

\* An object the synchronisation knows never just disappears: when its file
\* is gone there is a tombstone, or a journal that will write it.
DeathsAreTold ==
    AtRest => known \ files \subseteq tombs \cup journal.objs

\* What passed object_applied stands: an object that was added and never asked
\* to be deleted is a member with a file, one that was deleted is neither.
AppliedStands ==
    AtRest => /\ added \ asked \subseteq meta.members \cap files
              /\ deleted \cap (meta.members \cup files) = {}
=============================================================================
