---------------------------- MODULE DocumentSync ----------------------------
(***************************************************************************)
(* sync: one text document (a chapter's body) shared by several devices    *)
(* through a remote Git repository.  A round copies the device's state to  *)
(* a staging directory, merges the fetched remote tree into it by a        *)
(* three-way comparison of content hashes, pushes the merged tree in one   *)
(* Git commit, merges the staging directory back into the live one under   *)
(* the core write lock (Commit), and last records the conflicts of that    *)
(* second merge (Record).  The user edits, deletes and resolves conflicts  *)
(* meanwhile; only Commit and Record exclude him.                          *)
(*                                                                         *)
(* A content hash is the version it is of, and the empty hash is Empty: no *)
(* file, no known_files entry, the hash of a delete record.  Taking the    *)
(* copy, fetching and merging are one step: only this device changes the   *)
(* copied state, only others the fetched one, and a push by others after   *)
(* the fetch is the loss of fresh.  The commit is atomic, as               *)
(* SaveTransaction shows of a transaction no fault stops.                  *)
(***************************************************************************)
EXTENDS Naturals, FiniteSets

CONSTANTS Devices,      \* devices, each with its own copy of the project
          Versions,     \* contents the user may write; each is written once
          Empty,        \* no content
          None,         \* no remote record, no conflict, nothing to push
          Breaks,       \* the stages of a round at which it may break off
          MaxFaults,    \* bound on broken rounds and resolutions together
          MaxDeletes,   \* bound on deletions by the user
          MaxVanish     \* bound on files lost behind the program's back

ASSUME ConstantsAssumption ==
  /\ Empty \notin Versions /\ None \notin Versions /\ Empty # None
  /\ Breaks \subseteq {"merged", "published", "recording"}
  /\ MaxFaults \in Nat /\ MaxDeletes \in Nat /\ MaxVanish \in Nat

Hash == Versions \union {Empty}
Maybe == Hash \union {None}
RecordOp == {"none", "upsert", "delete"}

\* What a round carries: live and conflict when it was copied (base, bconf);
\* the merged file, its conflict, its known_files entry, its manifest record;
\* the hash to push.
Job == [base : Hash, bconf : Maybe, file : Hash, conf : Maybe, known : Hash,
        man : RecordOp, push : Maybe]
NoJob == [base |-> Empty, bconf |-> None, file |-> Empty, conf |-> None,
          known |-> Empty, man |-> "none", push |-> None]

VARIABLES
  remote,               \* the document's record in the remote manifest
  live, known, man,     \* the file, known_files, op in manifest.sync.json
  tomb, conflict,       \* a tombstone of it, the remote hash it conflicts with
  pc, job,              \* the round in progress
  fresh,                \* devices that fetched the remote's present head
  faults, deletes, vanishes,
  written, gone,        \* history: versions ever written, given up by a user
  shared, decided       \* history: versions the remote ever held; the remote
                        \* hashes a device's user decided against or for

deviceVars == <<live, known, man, tomb, conflict>>
countVars  == <<faults, deletes, vanishes>>
pastVars   == <<written, gone, shared, decided>>
vars == <<remote, deviceVars, pc, job, fresh, countVars, pastVars>>

Init ==
  /\ \E v \in Versions :
       /\ written = {v}
       /\ live \in [Devices -> {v, Empty}]
       /\ \/ /\ remote = v /\ shared = {v}
             /\ known = live
             /\ man = [d \in Devices |->
                         IF live[d] = v THEN "upsert" ELSE "none"]
          \/ /\ remote = None /\ shared = {}
             /\ Cardinality({d \in Devices : live[d] = v}) = 1
             /\ known = [d \in Devices |-> Empty]
             /\ man = [d \in Devices |-> "none"]
  /\ tomb = [d \in Devices |-> FALSE]
  /\ conflict = [d \in Devices |-> None]
  /\ pc = [d \in Devices |-> "idle"]
  /\ job = [d \in Devices |-> NoJob]
  /\ fresh = {}
  /\ faults = 0 /\ deletes = 0 /\ vanishes = 0
  /\ gone = {}
  /\ decided = [d \in Devices |-> {}]

-----------------------------------------------------------------------------
(* The user.                                                               *)

\* He works on the files and conflicts of a device outside its commits.
Free(d) == pc[d] # "recording"

Fault == faults < MaxFaults /\ faults' = faults + 1

Edit(d, v) ==
  /\ Free(d) /\ live[d] # Empty /\ v \notin written
  /\ live' = [live EXCEPT ![d] = v]
  /\ written' = written \union {v}
  /\ gone' = gone \union {live[d]}
  /\ UNCHANGED <<remote, known, man, tomb, conflict, pc, job, fresh,
                 countVars, shared, decided>>

Delete(d) ==
  /\ Free(d) /\ live[d] # Empty
  /\ deletes < MaxDeletes /\ deletes' = deletes + 1
  /\ live' = [live EXCEPT ![d] = Empty]
  /\ tomb' = [tomb EXCEPT ![d] = TRUE]
  /\ gone' = gone \union {live[d]}
  /\ UNCHANGED <<remote, known, man, conflict, pc, job, fresh, faults,
                 vanishes, written, shared, decided>>

\* The file is lost: a damaged disk, a file moved by hand.
Vanish(d) ==
  /\ live[d] # Empty
  /\ vanishes < MaxVanish /\ vanishes' = vanishes + 1
  /\ live' = [live EXCEPT ![d] = Empty]
  /\ UNCHANGED <<remote, known, man, tomb, conflict, pc, job, fresh, faults,
                 deletes, pastVars>>

Decide(d, chosen, dropped) ==
  /\ conflict' = [conflict EXCEPT ![d] = None]
  /\ gone' = gone \union ({dropped} \ {chosen, Empty})
  /\ decided' = [decided EXCEPT ![d] = @ \union {conflict[d]}]
  /\ UNCHANGED <<written, shared>>

\* Mutant: the local hash becomes the base, as if it had been synced.
KeepLocalAsBase(d) ==
  /\ Free(d) /\ conflict[d] # None
  /\ known' = [known EXCEPT ![d] = live[d]]
  /\ Decide(d, live[d], conflict[d])
  /\ UNCHANGED <<remote, live, man, tomb, pc, job, fresh, countVars>>

\* resolve_conflict_keep_local; resolve_conflict_mark_merged differs in what
\* the user put in the file before.
KeepLocal(d) ==
  /\ Free(d) /\ conflict[d] # None
  /\ known' = [known EXCEPT ![d] = conflict[d]]
  /\ Decide(d, live[d], conflict[d])
  /\ UNCHANGED <<remote, live, man, tomb, pc, job, fresh, countVars>>

TakeRemote(d) ==
  /\ Free(d) /\ conflict[d] # None
  /\ live' = [live EXCEPT ![d] = conflict[d]]
  /\ known' = [known EXCEPT ![d] = conflict[d]]
  /\ tomb' = [tomb EXCEPT ![d] = @ /\ conflict[d] = Empty]
  /\ Decide(d, conflict[d], live[d])
  /\ UNCHANGED <<remote, man, pc, job, fresh, countVars>>

\* The file is replaced, the state is not written: the conflict stays open.
TakeRemoteCut(d) ==
  /\ Free(d) /\ conflict[d] # None /\ Fault
  /\ live' = [live EXCEPT ![d] = conflict[d]]
  /\ gone' = gone \union ({live[d]} \ {conflict[d], Empty})
  /\ UNCHANGED <<remote, known, man, tomb, conflict, pc, job, fresh, deletes,
                 vanishes, written, shared, decided>>

-----------------------------------------------------------------------------
(* A round: copy, fetch and merge.                                         *)

ThreeWay(base, mine, theirs) ==
  IF mine = theirs THEN "NoConflict"
  ELSE IF mine = base THEN "RemoteChanged"
  ELSE IF theirs = base THEN "LocalChanged"
  ELSE "BothChanged"

\* build_local_snapshot: what the device has to say of the document.  A file
\* that is gone is deleted only if a tombstone or the manifest says so.
Missing(d) ==
  /\ live[d] = Empty /\ man[d] # "delete" /\ ~tomb[d]
  /\ known[d] # Empty \/ man[d] = "upsert"

\* Mutant: a file that is gone is a deleted one.
MissingIsDeleted(d) == live[d] # Empty \/ man[d] # "none" \/ known[d] # Empty

HasRecord(d) ==
  \/ live[d] # Empty
  \/ man[d] = "delete"
  \/ tomb[d] /\ (known[d] # Empty \/ man[d] = "upsert")

OpOf(r) == IF r = None THEN "none" ELSE IF r = Empty THEN "delete" ELSE "upsert"

\* The staging directory after the merge: its file, the conflict of the path,
\* the hash to push.  The known_files entry of a path in conflict is kept,
\* any other follows the file.
Stage(d, file, conf, push) ==
  job' = [job EXCEPT ![d] =
    [base |-> live[d], bconf |-> conflict[d], file |-> file, conf |-> conf,
     known |-> IF conf = None THEN file ELSE known[d],
     man |-> OpOf(IF push = None THEN remote ELSE push), push |-> push]]

\* A missing file the remote still has is fetched before anything else.
Recovered(d) == Missing(d) /\ remote \in Versions

\* An open conflict is left to the user.
SkipConflict(d) ==
  /\ conflict[d] # None
  /\ Stage(d, IF Recovered(d) THEN remote ELSE live[d], conflict[d], None)

\* Mutant: nothing is downloaded where there is no local record.
FollowNothing(d) ==
  /\ conflict[d] = None /\ ~HasRecord(d)
  /\ Stage(d, Empty, None, None)

\* No local record.  A missing file the remote cannot give back stops the
\* round.
FollowRemote(d) ==
  /\ conflict[d] = None /\ ~HasRecord(d)
  /\ Missing(d) => remote # None
  /\ Stage(d, IF remote = None THEN Empty ELSE remote, None, None)

UploadNew(d) ==
  /\ conflict[d] = None /\ HasRecord(d) /\ remote = None
  /\ Stage(d, live[d], None, live[d])

\* resolve_document_path: known_files is the base of the comparison.
MergeWay(d) == ThreeWay(known[d], live[d], remote)

MergeBoth(d) ==
  /\ conflict[d] = None /\ HasRecord(d) /\ remote # None
  /\ \/ MergeWay(d) = "NoConflict"    /\ Stage(d, live[d], None, None)
     \/ MergeWay(d) = "LocalChanged"  /\ Stage(d, live[d], None, live[d])
     \/ MergeWay(d) = "RemoteChanged" /\ Stage(d, remote, None, None)
     \/ MergeWay(d) = "BothChanged"   /\ Stage(d, live[d], remote, None)

StartSync(d) ==
  /\ pc[d] = "idle"
  /\ SkipConflict(d) \/ FollowRemote(d) \/ UploadNew(d) \/ MergeBoth(d)
  /\ pc' = [pc EXCEPT ![d] = "merged"]
  /\ fresh' = fresh \union {d}
  /\ UNCHANGED <<remote, deviceVars, countVars, pastVars>>

-----------------------------------------------------------------------------
(* A round: publish, commit, record.                                       *)

End(d) ==
  /\ pc' = [pc EXCEPT ![d] = "idle"]
  /\ job' = [job EXCEPT ![d] = NoJob]

Publish(d) ==
  /\ pc[d] = "merged"
  /\ pc' = [pc EXCEPT ![d] = "published"]
  /\ IF job[d].push = None
     THEN fresh' = fresh \ {d} /\ UNCHANGED <<remote, shared, decided>>
     ELSE /\ d \in fresh /\ fresh' = {}
          /\ remote' = job[d].push
          /\ shared' = shared \union ({job[d].push} \ {Empty})
          /\ decided' = [e \in Devices |-> decided[e] \ {job[d].push}]
  /\ UNCHANGED <<deviceVars, job, countVars, written, gone>>

\* Mutant: a refused push is taken for a round with nothing to push.
RejectedCommits(d) ==
  /\ pc[d] = "merged" /\ job[d].push # None /\ d \notin fresh
  /\ pc' = [pc EXCEPT ![d] = "published"]
  /\ UNCHANGED <<remote, deviceVars, job, fresh, countVars, pastVars>>

\* The head moved since the fetch: the push is refused, the copy discarded.
PublishRejected(d) ==
  /\ pc[d] = "merged" /\ job[d].push # None /\ d \notin fresh
  /\ End(d)
  /\ UNCHANGED <<remote, deviceVars, fresh, countVars, pastVars>>

\* A network or disk error, a cancellation or a crash; after the push it is
\* also the push whose answer was lost, or the commit that fails.
BreakOff(d) ==
  /\ pc[d] \in Breaks /\ Fault
  /\ End(d)
  /\ fresh' = fresh \ {d}
  /\ UNCHANGED <<remote, deviceVars, deletes, vanishes, pastVars>>

\* The user closed the conflict while the round was out.
Resolved(d) == job[d].bconf # None /\ conflict[d] = None

\* Mutant: the staged state replaces the live one.
CommitStagedState(d) ==
  /\ known' = [known EXCEPT ![d] = job[d].known]
  /\ conflict' = [conflict EXCEPT ![d] = job[d].conf]
  /\ man' = [man EXCEPT ![d] = job[d].man]

\* merge_sync_state_three_way; its result is part of the commit's transaction.
CommitState(d) ==
  /\ known' = [known EXCEPT ![d] = IF Resolved(d) THEN @ ELSE job[d].known]
  /\ conflict' = [conflict EXCEPT ![d] =
                    IF Resolved(d) THEN None ELSE job[d].conf]
  /\ man' = [man EXCEPT ![d] = job[d].man]

\* compute_commit_plan: the file as it was copied, as it is, as it was merged.
CommitWay(d) == ThreeWay(job[d].base, live[d], job[d].file)

Commit(d) ==
  /\ pc[d] = "published"
  /\ CommitState(d)
  /\ live' = [live EXCEPT ![d] =
                IF CommitWay(d) = "RemoteChanged" THEN job[d].file ELSE @]
  /\ IF CommitWay(d) = "BothChanged"
     THEN pc' = [pc EXCEPT ![d] = "recording"] /\ UNCHANGED job
     ELSE End(d)
  /\ UNCHANGED <<remote, tomb, fresh, countVars, pastVars>>

\* record_staging_conflicts: a second write of the state.
Record(d) ==
  /\ pc[d] = "recording"
  /\ conflict' = [conflict EXCEPT ![d] = job[d].file]
  /\ End(d)
  /\ UNCHANGED <<remote, live, known, man, tomb, fresh, countVars, pastVars>>

Round(d) == StartSync(d) \/ Publish(d) \/ PublishRejected(d) \/ BreakOff(d)
            \/ Commit(d) \/ Record(d)

User(d) == (\E v \in Versions : Edit(d, v)) \/ Delete(d) \/ Vanish(d)
           \/ KeepLocal(d) \/ TakeRemote(d) \/ TakeRemoteCut(d)

Next == \E d \in Devices : Round(d) \/ User(d)

Spec == Init /\ [][Next]_vars

\* The scheduler starts rounds as long as the program runs, and what a round
\* waits for ends; the user owes nothing.
Fairness ==
  \A d \in Devices :
    /\ WF_vars(StartSync(d))
    /\ WF_vars(Publish(d) \/ PublishRejected(d))
    /\ WF_vars(Commit(d))
    /\ WF_vars(Record(d))

FairSpec == Spec /\ Fairness

-----------------------------------------------------------------------------
(* Properties.                                                             *)

\* Every variable has its type; only a round in progress has a job, and only
\* a merged one a fetched head, so nothing of a round outlives it.
TypeOK ==
  /\ remote \in Maybe
  /\ live \in [Devices -> Hash] /\ known \in [Devices -> Hash]
  /\ man \in [Devices -> RecordOp]
  /\ tomb \in [Devices -> BOOLEAN] /\ conflict \in [Devices -> Maybe]
  /\ pc \in [Devices -> {"idle", "merged", "published", "recording"}]
  /\ job \in [Devices -> Job]
  /\ \A d \in Devices : pc[d] = "idle" => job[d] = NoJob
  /\ fresh \subseteq {d \in Devices : pc[d] = "merged"}
  /\ faults \in 0 .. MaxFaults /\ deletes \in 0 .. MaxDeletes
  /\ vanishes \in 0 .. MaxVanish
  /\ written \subseteq Versions /\ gone \subseteq Versions
  /\ shared \subseteq Versions /\ decided \in [Devices -> SUBSET Hash]

\* No edit is lost silently: a version no user replaced, deleted or decided
\* against is still on a device, on the remote or in an open conflict.  Of a
\* file removed behind the program's back nothing is said.
NoEditLost ==
  vanishes = 0 => \A v \in written \ gone :
    v = remote \/ \E d \in Devices : v = live[d] \/ v = conflict[d]

\* The base of the next three-way comparison is content the remote has held:
\* a push that failed never moves known_files (sync_api.rs, after the flush).
BaseShared == \A d \in Devices : known[d] \in shared \union {Empty}

\* A conflict the user closed stays closed, whatever round was out when he
\* did, until that content is pushed again (merge_sync_state_three_way).  Nothing
\* is said of a document whose file was removed behind the program's back.
ResolutionSticks == vanishes = 0 => \A d \in Devices : conflict[d] \notin decided[d]

\* The remote record of a version becomes a delete only after a user gave the
\* version up: a file that is merely missing is never published as deleted
\* (build_local_snapshot).
DeletionMeant ==
  [][(remote \in Versions /\ remote' = Empty) => remote \in gone]_vars

\* When users and faults rest, every device ends with the remote's content or
\* with an open conflict for its user.
Converges ==
  <>[](\A d \in Devices :
         \/ conflict[d] # None
         \/ live[d] = IF remote = None THEN Empty ELSE remote)
=============================================================================
