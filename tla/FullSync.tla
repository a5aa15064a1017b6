------------------------------ MODULE FullSync ------------------------------
(***************************************************************************)
(* full_sync: the life of one work (a project directory) in the full-sync  *)
(* rounds of several devices.  The remote repository holds the work's      *)
(* record in the catalog of targets, an upsert or a delete with the time   *)
(* of the last write, and the work's tree of files.  A round plans one     *)
(* target for the work if it is here or recorded there, and one for a      *)
(* deletion queued on this device; transfers both into a buffer and        *)
(* staging directories; publishes the buffer as one commit on the revision *)
(* it started from; commits the staging directories; and finalizes, which  *)
(* deletes works the remote deleted and drops the queued deletions it has  *)
(* answered.  The user edits and deletes the work meanwhile.               *)
(*                                                                         *)
(* A stamp stands for the pair of a time and a device that orders writes   *)
(* (the greater wins), and for the content written then: a file is the     *)
(* stamp of its content, 0 if it is not there.  The other targets of a     *)
(* round appear by what they can do to this one: fail, and so block its    *)
(* publication.  Deletions of remote objects are buffered like any write,  *)
(* so no failure leaves a part of a tree behind, and the queue of remote   *)
(* cleanups stays empty.                                                   *)
(***************************************************************************)
EXTENDS Naturals, FiniteSets

CONSTANTS Devices,      \* devices, each with its own copy of the work
          Files,        \* the work's files, decided by the last writer
          Main,         \* project.json, which every work has
          MaxStamp,     \* bound on the writes of all users together
          MaxFaults,    \* bound on failures of targets and broken rounds
          Automatic     \* rounds start by themselves and use the checkpoint

ASSUME ConstantsAssumption ==
  /\ Main \in Files /\ IsFiniteSet(Files)
  /\ MaxStamp \in Nat \ {0} /\ MaxFaults \in Nat
  /\ Automatic \in BOOLEAN

Stamps == 1..MaxStamp
Work == [Files -> 0..MaxStamp]
Nothing == [f \in Files |-> 0]

\* The last write to any file of a work; 0 of a work without files.
Newest(w) == CHOOSE s \in {w[f] : f \in Files} : \A f \in Files : w[f] <= s

Later(s, t) == IF s >= t THEN s ELSE t
Merge(v, w) == [f \in Files |-> Later(v[f], w[f])]

\* The work's entry in the catalog.
NoRecord == [op |-> "none", at |-> 0]
Record == {NoRecord} \union [op : {"upsert", "delete"}, at : 0..MaxStamp]
Upsert(s) == [op |-> "upsert", at |-> s]
Tombstone(s) == [op |-> "delete", at |-> s]

\* What a device can read of the remote: the entry and the tree.
Remote == [cat : Record, tree : Work]

\* A target of a round: how it was planned; after the transfer its staging
\* directory, its status, what is left to do to the work here if it still
\* stands at expect, and whether it answers a queued deletion.
Kinds == {"none", "live", "deleteLocal", "restore", "cleanup", "deleteRemote"}
Target == [kind : Kinds, files : Work, status : {"success", "nothing", "failed"},
           act : {"none", "delete", "replace"}, expect : 0..MaxStamp,
           answers : BOOLEAN]
Planned(k) == [kind |-> k, files |-> Nothing, status |-> "nothing",
               act |-> "none", expect |-> 0, answers |-> FALSE]

\* A round: the remote it fetched, the work's stamp and the deletion when it
\* was planned, the copy staged, the two targets, whether one failed that is
\* not of this work, whether it buffered writes and the remote they make.
Job == [seen : Remote, lww : 0..MaxStamp, deleted : 0..MaxStamp, base : Work,
        own : Target, queued : Target, blocked : BOOLEAN, wrote : BOOLEAN,
        out : Remote]
NoJob ==
  [seen |-> [cat |-> NoRecord, tree |-> Nothing], lww |-> 0, deleted |-> 0,
   base |-> Nothing, own |-> Planned("none"), queued |-> Planned("none"),
   blocked |-> FALSE, wrote |-> FALSE,
   out |-> [cat |-> NoRecord, tree |-> Nothing]]

VARIABLES
  remote,               \* the published entry and tree
  local,                \* the files of the work on a device
  journal,              \* a deletion whose history is not recorded yet
  pending,              \* a deletion queued for the remote
  checkpoint,           \* the copy a device recorded as in step, if any
  pc, job,              \* the round in progress
  fresh,                \* devices whose round started from the remote's head
  faults,
  edits, deletions      \* history: the stamps of the users' writes

userVars == <<local, journal, pending, edits, deletions>>
roundVars == <<pc, job>>
vars == <<remote, userVars, checkpoint, roundVars, fresh, faults>>

Exists(d) == local[d][Main] # 0

FirstCopy == [f \in Files |-> IF f = Main THEN 1 ELSE 0]

Init ==
  /\ \E S \in SUBSET Devices \ {{}} :
       /\ local = [d \in Devices |-> IF d \in S THEN FirstCopy ELSE Nothing]
       /\ \/ remote = [cat |-> Upsert(1), tree |-> FirstCopy]
          \/ /\ remote = [cat |-> NoRecord, tree |-> Nothing]
             /\ Cardinality(S) = 1
  /\ journal = [d \in Devices |-> 0]
  /\ pending = [d \in Devices |-> 0]
  /\ checkpoint = [d \in Devices |-> {}]
  /\ pc = [d \in Devices |-> "idle"]
  /\ job = [d \in Devices |-> NoJob]
  /\ fresh = {}
  /\ faults = 0
  /\ edits = {1} /\ deletions = {}

-----------------------------------------------------------------------------
(* The user.  His writes come after everything in the copy he sees; the    *)
(* clocks of two devices agree on nothing else.                            *)

Unused(d, s) == s \notin edits \union deletions /\ s > Newest(local[d])

Edit(d, f, s) ==
  /\ Exists(d) /\ Unused(d, s)
  /\ local' = [local EXCEPT ![d][f] = s]
  /\ edits' = edits \union {s}
  /\ UNCHANGED <<remote, journal, pending, checkpoint, roundVars, fresh,
                 faults, deletions>>

\* The directory goes to the trash and a journal holds the deletion until the
\* history of the workspace is recorded.  Bound: one deletion at a time waits.
Delete(d, s) ==
  /\ Exists(d) /\ Unused(d, s)
  /\ journal[d] = 0 /\ pending[d] = 0
  /\ local' = [local EXCEPT ![d] = Nothing]
  /\ journal' = [journal EXCEPT ![d] = s]
  /\ deletions' = deletions \union {s}
  /\ UNCHANGED <<remote, pending, checkpoint, roundVars, fresh, faults, edits>>

\* The history is recorded, or a restart has recovered the journal.
QueueDeletion(d) ==
  /\ journal[d] # 0
  /\ pending' = [pending EXCEPT ![d] = journal[d]]
  /\ journal' = [journal EXCEPT ![d] = 0]
  /\ UNCHANGED <<remote, local, checkpoint, roundVars, fresh, faults, edits,
                 deletions>>

-----------------------------------------------------------------------------
(* Planning a round.                                                       *)

Fault == faults < MaxFaults /\ faults' = faults + 1

\* The target of the work, or of what the catalog alone knows of it.
OwnKind(d) ==
  CASE Exists(d) ->
         IF remote.cat.op = "delete" /\ Newest(local[d]) <= remote.cat.at
         THEN "deleteLocal" ELSE "live"
    [] ~Exists(d) /\ pending[d] = 0 /\ remote.cat.op = "upsert" -> "restore"
    [] ~Exists(d) /\ pending[d] = 0 /\ remote.cat.op = "delete" -> "cleanup"
    [] OTHER -> "none"

\* The target of a queued deletion.
QueuedKind(d) ==
  CASE pending[d] = 0 -> "none"
    [] pending[d] # 0 /\ remote.cat.op = "upsert"
         /\ pending[d] <= remote.cat.at -> "restore"
    [] OTHER -> "deleteRemote"

SkipsInStep(d) == Automatic /\ pending[d] = 0 /\ checkpoint[d] # {}

\* A round that starts by itself leaves a copy alone that it recorded as in
\* step with the head (a new head has cleared the records of old ones).
Skips(d) == Automatic /\ pending[d] = 0 /\ local[d] \in checkpoint[d]

Plan(d) ==
  /\ pc[d] = "idle" /\ ~Skips(d)
  /\ pc' = [pc EXCEPT ![d] = "planned"]
  /\ job' = [job EXCEPT ![d] =
       [NoJob EXCEPT !.seen = remote, !.out = remote,
          !.lww = Newest(local[d]), !.deleted = pending[d],
          !.own = Planned(OwnKind(d)), !.queued = Planned(QueuedKind(d))]]
  /\ fresh' = fresh \union {d}
  /\ UNCHANGED <<remote, userVars, checkpoint, faults>>

-----------------------------------------------------------------------------
(* The transfer of a target: what it makes of the buffered remote r (out)  *)
(* and of the target (to).                                                 *)

Outcome(r, t) == [out |-> r, to |-> t]

Cleared(r) == [r EXCEPT !.tree = Nothing]

\* The tree is downloaded over the staging directory.
Download(r, base) ==
  [f \in Files |-> IF r.tree[f] # 0 THEN r.tree[f] ELSE base[f]]

\* The work was here (lww): the visible tree is merged into the staged copy,
\* and published unless the record already stands at its last write.
Live(r, t, base, lww) ==
  LET merged == IF r.cat.op = "upsert" THEN Merge(base, r.tree) ELSE base
      last == IF merged = Nothing THEN lww ELSE Newest(merged)
      done == [t EXCEPT !.files = merged, !.status = "success"]
  IN  CASE r.cat.op = "none" \/ last > r.cat.at ->
             Outcome([cat |-> Upsert(last), tree |-> merged], done)
        [] r.cat = Upsert(last) -> Outcome(r, done)
        [] r.cat.op = "upsert" /\ last < r.cat.at ->
             Outcome([r EXCEPT !.tree = merged], done)
        [] OTHER ->
             Outcome(Cleared(r), [done EXCEPT !.act = "delete", !.expect = lww])

\* The work was deleted elsewhere after its last write here.
DeleteLocal(r, t, base, lww) ==
  CASE r.cat.op = "none" -> Outcome(r, [t EXCEPT !.status = "failed"])
    [] r.cat.op = "upsert" ->
         Outcome(r, [t EXCEPT !.files = Download(r, base), !.status = "success",
                              !.act = "replace", !.expect = lww])
    [] r.cat.op = "delete" ->
         Outcome(Cleared(r), [t EXCEPT !.files = base, !.act = "delete",
                                       !.expect = lww])

\* The record is an upsert and the work is not here, or was deleted before.
Restore(r, t, here) ==
  CASE r.cat.op = "none" -> Outcome(r, [t EXCEPT !.status = "failed"])
    [] r.cat.op = "upsert" ->
         Outcome(r, [t EXCEPT !.files = r.tree, !.status = "success",
                              !.answers = TRUE])
    [] r.cat.op = "delete" /\ here = Nothing ->
         Outcome(Cleared(r), [t EXCEPT !.status = "success"])
    [] r.cat.op = "delete" /\ here # Nothing ->
         Outcome(r, [t EXCEPT
                     !.act = IF Newest(here) > r.cat.at THEN "none" ELSE "delete",
                     !.expect = Newest(here)])

\* Neither the work nor a queued deletion is here; seen is the planned record.
Cleanup(r, t, seen) ==
  CASE r.cat.op = "upsert" -> Outcome(r, [t EXCEPT !.answers = TRUE])
    [] r.cat.op = "delete" /\ r.cat.at >= seen.at ->
         Outcome(Cleared(r), [t EXCEPT !.status = "success", !.answers = TRUE])
    [] OTHER -> Outcome(r, [t EXCEPT !.status = "failed"])

DeleteRecordOnly(r, t, s) ==
  LET wins == r.cat.op = "none" \/ s > r.cat.at
  IN  Outcome([r EXCEPT !.cat = IF wins THEN Tombstone(s) ELSE @],
              [t EXCEPT !.status = "success", !.answers = TRUE])

\* The tombstone of a queued deletion is written unless the record wins.
DeleteRemote(r, t, s) ==
  LET wins == r.cat.op = "none" \/ s > r.cat.at
      done == [t EXCEPT !.status = "success", !.answers = TRUE]
  IN  IF r.cat.op = "upsert" /\ ~wins
      THEN Outcome(r, [done EXCEPT !.files = r.tree])
      ELSE Outcome([cat |-> IF wins THEN Tombstone(s) ELSE r.cat,
                    tree |-> Nothing], done)

\* current is what a provider reads that does not hold to the fetched head;
\* the catalog of live and deleteRemote is the one fetched for the plan.
Reads(d, t, current) ==
  IF t.kind \in {"deleteLocal", "restore", "cleanup"}
  THEN current ELSE job[d].seen

\* The staging directory of a work that is here starts as its copy, any other
\* one empty.
Seed(d, t) == IF t.kind \in {"live", "deleteLocal"} THEN local[d] ELSE Nothing

TransferOf(d, t, r) ==
  LET j == job[d]
  IN  CASE t.kind = "live" -> Live(r, t, Seed(d, t), j.lww)
        [] t.kind = "deleteLocal" -> DeleteLocal(r, t, Seed(d, t), j.lww)
        [] t.kind = "restore" -> Restore(r, t, local[d])
        [] t.kind = "cleanup" -> Cleanup(r, t, j.seen.cat)
        [] t.kind = "deleteRemote" -> DeleteRemote(r, t, j.deleted)
        [] t.kind = "none" -> Outcome(r, t)

Failed(t) == [t EXCEPT !.status = "failed", !.act = "none", !.answers = FALSE]

\* The staging copies are made and the targets transferred, the second on top
\* of what the first has buffered; broken is the target that fails, "other"
\* one that is not of this work.
Transfer(d, current, broken) ==
  /\ pc[d] = "planned"
  /\ current \in {job[d].seen, remote}
  /\ IF broken = "no" THEN UNCHANGED faults ELSE Fault
  /\ LET first == Reads(d, job[d].own, current)
         own == TransferOf(d, job[d].own, first)
         second == IF own.out # first THEN own.out
                   ELSE Reads(d, job[d].queued, current)
         queued == TransferOf(d, job[d].queued, second)
     IN  job' = [job EXCEPT ![d] =
           [@ EXCEPT !.base = Seed(d, job[d].own), !.out = queued.out,
              !.wrote = own.out # first \/ queued.out # second,
              !.own = IF broken = "own" THEN Failed(own.to) ELSE own.to,
              !.queued = IF broken = "queued" THEN Failed(queued.to)
                         ELSE queued.to,
              !.blocked = broken # "no"]]
  /\ pc' = [pc EXCEPT ![d] = "transferred"]
  /\ UNCHANGED <<remote, userVars, checkpoint, fresh>>

-----------------------------------------------------------------------------
(* Publication and the end of a round.                                     *)

Blocked(d) ==
  job[d].blocked \/ "failed" \in {job[d].own.status, job[d].queued.status}

\* A failed target discards the buffer; the results go on to Finalize.
Discard(d) ==
  /\ pc[d] = "transferred" /\ Blocked(d)
  /\ pc' = [pc EXCEPT ![d] = "committed"]
  /\ UNCHANGED <<remote, userVars, checkpoint, job, fresh, faults>>

\* What a round buffered is one commit on the revision it started from.
AtAnyHead(d) == TRUE
AtHead(d) == job[d].wrote => d \in fresh

Publish(d) ==
  /\ pc[d] = "transferred" /\ ~Blocked(d)
  /\ AtHead(d)
  /\ IF job[d].wrote
     THEN /\ remote' = job[d].out
          /\ fresh' = {}
          /\ checkpoint' = [e \in Devices |-> {}]
     ELSE UNCHANGED <<remote, fresh, checkpoint>>
  /\ pc' = [pc EXCEPT ![d] = "published"]
  /\ UNCHANGED <<userVars, job, faults>>

End(d) ==
  /\ pc' = [pc EXCEPT ![d] = "idle"]
  /\ job' = [job EXCEPT ![d] = NoJob]

\* The head has moved: nothing is published, and another round is planned.
Refused(d) ==
  /\ pc[d] = "transferred" /\ ~Blocked(d)
  /\ ~AtHead(d)
  /\ End(d)
  /\ checkpoint' = [checkpoint EXCEPT ![d] = {}]
  /\ UNCHANGED <<remote, userVars, fresh, faults>>

\* A file of the staging directory against the live one and the copied one.
CommitFile(live, base, staged) ==
  CASE staged = base \/ staged = live -> live
    [] live = base -> staged
    [] live = 0 /\ base # 0 -> live
    [] OTHER -> Later(live, staged)

\* The work after the staging directory of target t is committed to it.
CommitTarget(w, t, base) ==
  CASE t.kind = "none" \/ t.act = "delete" -> w
    [] t.act = "replace" -> IF Newest(w) = t.expect THEN t.files ELSE w
    [] OTHER -> [f \in Files |-> CommitFile(w[f], base[f], t.files[f])]

CommitStatus(w, t) ==
  IF t.act = "replace" /\ Newest(w) # t.expect THEN Failed(t) ELSE t

\* Both staging directories are committed, each under the write lock.
Commit(d) ==
  /\ pc[d] = "published"
  /\ LET j == job[d]
         first == CommitTarget(local[d], j.own, j.base)
     IN  /\ local' = [local EXCEPT ![d] = CommitTarget(first, j.queued, Nothing)]
         /\ job' = [job EXCEPT ![d].own = CommitStatus(local[d], @)]
  /\ pc' = [pc EXCEPT ![d] = "committed"]
  /\ UNCHANGED <<remote, journal, pending, edits, deletions, checkpoint, fresh,
                 faults>>

\* The commit of a target fails before its transaction starts.
CommitFails(d) ==
  /\ pc[d] = "published" /\ Fault
  /\ job' = [job EXCEPT ![d].own = Failed(@), ![d].queued = Failed(@)]
  /\ pc' = [pc EXCEPT ![d] = "committed"]
  /\ UNCHANGED <<remote, userVars, checkpoint, fresh>>

MayDeleteAnyCopy(d, t) == t.act = "delete"

\* A deletion left to do is done if the work still stands where it stood.
MayDelete(d, t) == t.act = "delete" /\ Newest(local[d]) = t.expect

AnswersDeletion(t) ==
  t.kind # "live" /\ t.answers /\ t.status = "success"

InStep(d) ==
  LET j == job[d]
  IN  /\ ~Blocked(d) /\ ~j.wrote /\ d \in fresh
      /\ \A t \in {j.own, j.queued} : t.act = "delete" => MayDelete(d, t)

\* Works the remote deleted go, answered deletions leave the queue.
Finalize(d) ==
  /\ pc[d] = "committed"
  /\ LET two == {job[d].own, job[d].queued}
     IN  /\ local' = [local EXCEPT ![d] =
                        IF \E t \in two : MayDelete(d, t) THEN Nothing ELSE @]
         /\ pending' = [pending EXCEPT ![d] =
                          IF \E t \in two : AnswersDeletion(t) THEN 0 ELSE @]
  /\ IF Automatic /\ InStep(d)
     THEN /\ pc' = [pc EXCEPT ![d] = "recording"]
          /\ UNCHANGED <<job, checkpoint>>
     ELSE /\ End(d)
          /\ checkpoint' = [checkpoint EXCEPT ![d] = IF Blocked(d) THEN {} ELSE @]
  /\ UNCHANGED <<remote, journal, edits, deletions, fresh, faults>>

\* A round that found everything in step records the copy as it is now.
RecordCheckpoint(d) ==
  /\ pc[d] = "recording"
  /\ checkpoint' = [checkpoint EXCEPT ![d] =
       IF d \in fresh /\ pending[d] = 0 THEN {local[d]} ELSE @]
  /\ End(d)
  /\ UNCHANGED <<remote, userVars, fresh, faults>>

\* A crash, a cancellation, a lost connection.
BreakOff(d) ==
  /\ pc[d] # "idle" /\ Fault
  /\ End(d)
  /\ checkpoint' = [checkpoint EXCEPT ![d] = {}]
  /\ UNCHANGED <<remote, userVars, fresh>>

-----------------------------------------------------------------------------
User(d) ==
  \/ \E f \in Files, s \in Stamps : Edit(d, f, s)
  \/ \E s \in Stamps : Delete(d, s)

Broken == {"no", "own", "queued", "other"}

Round(d) ==
  \/ Plan(d)
  \/ \E current \in {job[d].seen, remote}, broken \in Broken :
       Transfer(d, current, broken)
  \/ Discard(d) \/ Publish(d) \/ Refused(d)
  \/ Commit(d) \/ CommitFails(d) \/ Finalize(d) \/ RecordCheckpoint(d)

Next ==
  \E d \in Devices : User(d) \/ QueueDeletion(d) \/ Round(d) \/ BreakOff(d)

\* A round goes on until it ends and the platform starts the next one; the
\* history of a deletion is recorded at once or at the next start.
Fairness ==
  \A d \in Devices : WF_vars(Round(d)) /\ WF_vars(QueueDeletion(d))

Spec == Init /\ [][Next]_vars /\ Fairness

-----------------------------------------------------------------------------
TypeOK ==
  /\ remote \in Remote
  /\ local \in [Devices -> Work]
  /\ journal \in [Devices -> 0..MaxStamp]
  /\ pending \in [Devices -> 0..MaxStamp]
  /\ checkpoint \in [Devices -> SUBSET Work]
  /\ pc \in [Devices -> {"idle", "planned", "transferred", "published",
                         "committed", "recording"}]
  /\ job \in [Devices -> Job]
  /\ fresh \subseteq Devices
  /\ faults \in 0..MaxFaults
  /\ edits \subseteq Stamps /\ deletions \subseteq Stamps

\* An upsert in the catalog announces a whole tree whose last write is the
\* record's; no tree, or an older copy of another device, only if the work was
\* deleted while the round that wrote the record copied it; a tombstone, one
\* that is gone.
TreeMatchesRecord ==
  /\ remote.cat.op = "upsert" =>
       /\ remote.tree = Nothing \/ remote.tree[Main] # 0
       /\ \/ remote.tree # Nothing /\ Newest(remote.tree) = remote.cat.at
          \/ /\ Newest(remote.tree) < remote.cat.at
             /\ \E s \in deletions : s > remote.cat.at
  /\ remote.cat.op # "upsert" => remote.tree = Nothing

\* No round takes the record, or a file of a work not deleted, back to an
\* older write, whatever it had fetched.
RemoteOnlyAdvances ==
  [][/\ remote'.cat.at >= remote.cat.at
     /\ remote.cat.op # "none" => remote'.cat.op # "none"
     /\ remote'.cat.op = "upsert" =>
          \A f \in Files : remote'.tree[f] >= remote.tree[f]]_vars

\* A round deletes the work on a device only if some user deleted it after
\* every write in the copy there.
RemovedByNewerDeletion ==
  [][\A d \in Devices :
       (pc[d] = "committed" /\ local'[d] = Nothing /\ local[d] # Nothing) =>
         \E s \in deletions' : s > Newest(local[d])]_vars

\* Until the record is a newer write, a deletion is in a journal or queued.
DeletionRemembered ==
  \A s \in deletions :
    \/ remote.cat.at >= s
    \/ \E d \in Devices : journal[d] >= s \/ pending[d] >= s

\* A checkpoint vouches only for what the remote holds.
CheckpointInStep ==
  \A d \in Devices : \A w \in checkpoint[d] :
    remote.cat.op = "upsert" => \A f \in Files : w[f] <= remote.tree[f]

\* All devices have the work, or none has, as the record says.
Agreed == \A d \in Devices : Exists(d) <=> remote.cat.op = "upsert"

\* The record is the last write of all users.
LastWriteWins ==
  \E s \in edits \union deletions :
    /\ \A t \in edits \union deletions : t <= s
    /\ remote.cat = IF s \in edits THEN Upsert(s) ELSE Tombstone(s)

\* Once the users rest, the devices come to agree with the record on whether
\* the work exists, and the record is the last write, unless a deletion was
\* forgotten or a checkpoint taken of a copy out of step.
Settles ==
  [](DeletionRemembered /\ CheckpointInStep) => <>[](Agreed /\ LastWriteWins)
=============================================================================
