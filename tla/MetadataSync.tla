---------------------------- MODULE MetadataSync ----------------------------
(***************************************************************************)
(* A file that is not a document (the data of a work, a chapter or a star  *)
(* map, settings, an index) on several devices.  Two versions of it are    *)
(* never a conflict: the later one wins, and of two as late the one of the *)
(* greater device.  A version is a record of the manifest: the content's   *)
(* hash or a deletion, a time, and the device.  A round of a device takes  *)
(* a snapshot of the file as a record, merges the remote's record into it, *)
(* publishes the result unless another device did meanwhile, and commits   *)
(* it to the file, which the user may have changed since the snapshot.     *)
(*                                                                         *)
(* Times are in ticks of clocks that agree.  A deletion is known to the    *)
(* second only, and is forgotten after a while.                            *)
(***************************************************************************)
EXTENDS Naturals, Sequences, FiniteSets, SequencesExt

CONSTANTS N,            \* devices, 1..N; their order is that of their ids
          Second,       \* ticks in a second
          PurgeAfter,   \* ticks after which a deletion is forgotten
          MaxTime,      \* bound on the clock; rounds break off before it only
          MaxEdits,     \* bound on the user's changes
          Allowed       \* what a user may do besides: see Oddities

\* "again": delete a file whose former deletion is still kept; "same second":
\* delete it in the second in which it was changed; "back": give it a content
\* that it had before, which counts as no change if the manifest records it.
Oddities == {"again", "same second", "back"}

ASSUME MetadataAssumption ==
  /\ N \in Nat \ {0} /\ Second \in Nat \ {0} /\ PurgeAfter \in Nat \ {0}
  /\ MaxTime \in Nat \ {0} /\ MaxEdits \in Nat
  /\ Allowed \subseteq Oddities

Ids == 1..N
Times == 0..MaxTime
Contents == 1..MaxEdits   \* what the user's changes give the file
Absent == 0
Files == Contents \union {Absent}

\* ManifestFileRecord: a record whose hash is that of no file is a delete.
Records == [hash : Files, time : Times, dev : Ids]
NoRecord == [hash |-> Absent, time |-> 0, dev |-> 0]
Known == Records \union {NoRecord}
IsUpsert(r) == r.hash \in Contents
IsDelete(r) == r # NoRecord /\ r.hash = Absent

VARIABLES
  now,
  file, mtime,          \* the file of a device and when it was written
  rec,                  \* its record in the device's manifest
  tombs,                \* when it was deleted, in the order they are kept
  last,                 \* when the user changed it last
  version,              \* what the file is a version of: record of the user's
                        \* change, or of the round that brought it
  remoteRec,            \* the record and the content on the remote
  round,                \* the round a device is in
  edits

liveVars == <<file, mtime, rec, tombs, version>>
metadataVars == <<now, liveVars, last, remoteRec, round, edits>>

\* A round: its snapshot of the file and of the record, what it fetched, what
\* it merged, the deletions it knew of and then those it forgot, and whether
\* another device published meanwhile.
Rounds == [at : {"idle", "seeded", "merged", "published"}, base : Files,
           mine : Known, fetched : Known, staged : Known, gone : SUBSET Times,
           stale : BOOLEAN]
NoRound == [at |-> "idle", base |-> Absent, mine |-> NoRecord,
            fetched |-> NoRecord, staged |-> NoRecord, gone |-> {},
            stale |-> FALSE]

MetadataInit ==
  /\ now = 1
  /\ file = [d \in Ids |-> Absent]
  /\ mtime = [d \in Ids |-> 0]
  /\ rec = [d \in Ids |-> NoRecord]
  /\ tombs = [d \in Ids |-> <<>>]
  /\ last = [d \in Ids |-> 0]
  /\ version = [d \in Ids |-> NoRecord]
  /\ remoteRec = NoRecord
  /\ round = [d \in Ids |-> NoRound]
  /\ edits = 0

-----------------------------------------------------------------------------
(* The rule.                                                               *)

\* Mutant: of two versions as late as each other the local one is taken.
WinnerLocal(l, r) ==
  CASE r.time > l.time -> "remote"
    [] r.time < l.time -> "local"
    [] OTHER -> IF r.hash = l.hash THEN "tie" ELSE "local"

\* resolve_lww.
Winner(l, r) ==
  CASE r.time > l.time -> "remote"
    [] r.time < l.time -> "local"
    [] OTHER -> IF r.hash = l.hash THEN "tie" ELSE
                IF r.dev > l.dev THEN "remote" ELSE "local"

\* build_local_lww_record_with_manifest: an unchanged file has the record of
\* the manifest, a changed one is as late as the file; a file that is gone
\* has the time of the first deletion kept for it, or no record.
RecordOf(d, content) ==
  CASE content \in Contents ->
         IF rec[d].hash = content THEN rec[d]
         ELSE [hash |-> content, time |-> mtime[d], dev |-> d]
    [] OTHER ->
         IF tombs[d] # <<>>
         THEN [hash |-> Absent, time |-> Head(tombs[d]), dev |-> d]
         ELSE NoRecord

\* build_local_snapshot: the same, but a deletion the manifest already has
\* stays as it is, and one of a file the manifest never had is no fact.
Snapshot(d) ==
  IF file[d] \in Contents \/ IsUpsert(rec[d]) THEN RecordOf(d, file[d])
                                              ELSE rec[d]

-----------------------------------------------------------------------------
(* The user.  A device changes the file at most once in a tick.            *)

Changes(d) ==
  /\ edits < MaxEdits /\ edits' = edits + 1
  /\ last[d] < now /\ last' = [last EXCEPT ![d] = now]
  /\ UNCHANGED <<now, rec, remoteRec, round>>

EditFile(d, c) ==
  /\ Changes(d)
  /\ c # file[d] /\ c <= edits'
  /\ "back" \in Allowed \/ c = edits'
  /\ file' = [file EXCEPT ![d] = c]
  /\ mtime' = [mtime EXCEPT ![d] = now]
  /\ version' = [version EXCEPT ![d] = [hash |-> c, time |-> now, dev |-> d]]
  /\ UNCHANGED tombs

\* A tombstone keeps the second, and is put behind those kept already.
ThisSecond == (now \div Second) * Second

DeleteFile(d) ==
  /\ Changes(d)
  /\ file[d] \in Contents
  /\ "same second" \in Allowed \/ last[d] < ThisSecond
  /\ "again" \in Allowed \/ tombs[d] = <<>>
  /\ file' = [file EXCEPT ![d] = Absent]
  /\ tombs' = [tombs EXCEPT ![d] = Append(tombs[d], ThisSecond)]
  /\ version' = [version EXCEPT ![d] =
       IF IsUpsert(rec[d])
       THEN [hash |-> Absent, time |-> ThisSecond, dev |-> d] ELSE NoRecord]
  /\ UNCHANGED mtime

Tick ==
  /\ now < MaxTime
  /\ now' = now + 1
  /\ UNCHANGED <<liveVars, last, remoteRec, round, edits>>

-----------------------------------------------------------------------------
(* A round.                                                                *)

outside == <<now, liveVars, last, edits>>

Seed(d) ==
  /\ round[d].at = "idle"
  /\ round' = [round EXCEPT ![d] =
       [NoRound EXCEPT !.at = "seeded", !.base = file[d], !.mine = Snapshot(d),
                       !.gone = ToSet(tombs[d])]]
  /\ UNCHANGED <<outside, remoteRec>>

\* The record both sides go on with.
Merged(l, r) ==
  IF l = NoRecord THEN r ELSE
  IF r = NoRecord THEN l ELSE
  IF Winner(l, r) = "remote" THEN r ELSE l

Forgotten(t) == t + PurgeAfter <= now
Purge(r) == IF IsDelete(r) /\ Forgotten(r.time) THEN NoRecord ELSE r

Merge(d) ==
  /\ round[d].at = "seeded"
  /\ round' = [round EXCEPT ![d] =
       [round[d] EXCEPT !.at = "merged", !.fetched = remoteRec,
                        !.staged = Purge(Merged(round[d].mine, remoteRec)),
                        !.gone = {t \in round[d].gone : Forgotten(t)}]]
  /\ UNCHANGED <<outside, remoteRec>>

Told(d) == [round[d] EXCEPT !.at = "published", !.mine = NoRecord]

\* Mutant: the round does not look whether the remote is still as fetched.
PublishRecordAnyway(d) ==
  /\ round[d].at = "merged"
  /\ remoteRec' = round[d].staged
  /\ round' = [round EXCEPT ![d] = Told(d)]
  /\ UNCHANGED outside

\* The generation is replaced only if it is still the one that was fetched.
PublishRecord(d) ==
  /\ round[d].at = "merged"
  /\ \/ round[d].staged = round[d].fetched
        /\ UNCHANGED remoteRec
        /\ round' = [round EXCEPT ![d] = Told(d)]
     \/ round[d].staged # round[d].fetched /\ ~round[d].stale
        /\ remoteRec' = round[d].staged
        /\ round' = [e \in Ids |->
             IF e = d THEN Told(d)
             ELSE [round[e] EXCEPT !.stale = (round[e].at = "merged")]]
  /\ UNCHANGED outside

Rejected(d) ==
  /\ round[d].at = "merged"
  /\ round[d].staged # round[d].fetched /\ round[d].stale
  /\ round' = [round EXCEPT ![d] = NoRound]
  /\ UNCHANGED <<outside, remoteRec>>

\* A round may end at any step (no network, an error, a crash).
StopRound(d) ==
  /\ now < MaxTime
  /\ round[d].at # "idle"
  /\ round' = [round EXCEPT ![d] = NoRound]
  /\ UNCHANGED <<outside, remoteRec>>

\* compute_commit_plan: what the file is to be, given the snapshot and the
\* staged file.
Incoming(d) ==
  IF round[d].staged = NoRecord THEN Absent ELSE round[d].staged.hash

\* Mutant: what was fetched replaces the file whatever happened to it.
AppliesAlways(d) == Incoming(d) # round[d].base

Applies(d) ==
  LET mine == RecordOf(d, file[d]) IN
  /\ Incoming(d) # round[d].base
  /\ \/ file[d] = round[d].base
     \/ /\ file[d] # Incoming(d)
        /\ mine # NoRecord /\ round[d].staged # NoRecord
        /\ Winner(mine, round[d].staged) = "remote"

\* The times of a set, the latest first.
LatestFirst(S) ==
  CHOOSE s \in [1..Cardinality(S) -> S] :
    \A i, j \in DOMAIN s : i < j => s[i] > s[j]

\* Mutant: the round's deletions are put before the device's.
MergedTombsTwice(d) ==
  LatestFirst(ToSet(tombs[d]) \ round[d].gone) \o tombs[d]

\* merge_tombstones_three_way: those the round forgot are dropped, those the
\* user added meanwhile are kept, the latest comes first.
MergedTombs(d) == LatestFirst(ToSet(tombs[d]) \ round[d].gone)

CommitFile(d) ==
  /\ round[d].at = "published"
  /\ IF Applies(d)
     THEN /\ file' = [file EXCEPT ![d] = Incoming(d)]
          /\ mtime' = [mtime EXCEPT ![d] = now]
          /\ version' = [version EXCEPT ![d] = round[d].staged]
     ELSE UNCHANGED <<file, mtime, version>>
  /\ rec' = [rec EXCEPT ![d] = round[d].staged]
  /\ tombs' = [tombs EXCEPT ![d] = MergedTombs(d)]
  /\ round' = [round EXCEPT ![d] = NoRound]
  /\ UNCHANGED <<now, last, remoteRec, edits>>

RoundStep(d) ==
  Seed(d) \/ Merge(d) \/ PublishRecord(d) \/ Rejected(d) \/ CommitFile(d)

MetadataNext ==
  \/ Tick
  \/ \E d \in Ids :
       \/ RoundStep(d) \/ StopRound(d) \/ DeleteFile(d)
       \/ \E c \in Contents : EditFile(d, c)

\* A device goes on syncing: rounds are started by a timer and after changes.
\* Time passes, and in the end rounds are no longer broken off.
MetadataFairness ==
  WF_metadataVars(Tick) /\ \A d \in Ids : WF_metadataVars(RoundStep(d))

MetadataSpec ==
  MetadataInit /\ [][MetadataNext]_metadataVars /\ MetadataFairness

-----------------------------------------------------------------------------
(* Properties.                                                             *)

\* The types, and: the deletions a device keeps are each kept once, also after
\* the merge of a round (merge_tombstones_three_way, no two of a second).
MetadataTypeOK ==
  /\ now \in Times /\ edits \in 0..MaxEdits
  /\ file \in [Ids -> Files] /\ mtime \in [Ids -> Times]
  /\ rec \in [Ids -> Known] /\ version \in [Ids -> Known]
  /\ last \in [Ids -> Times] /\ remoteRec \in Known
  /\ round \in [Ids -> Rounds]
  /\ tombs \in [Ids -> Seq(Times)] /\ \A d \in Ids : IsInjective(tombs[d])

Beats(r, l) == l = NoRecord \/ Winner(l, r) # "local"

\* The remote never goes back to an older version: rounds of several devices
\* that overlap do not undo each other.  It has no version at all only after a
\* deletion that beats the one it had and is old enough to be forgotten
\* (merge.rs, generation.rs).
ForgetsDeletion(d) ==
  LET m == Merged(round[d].mine, round[d].fetched) IN
  IsDelete(m) /\ Forgotten(m.time) /\ Beats(m, remoteRec)
NeverOlder ==
  [][remoteRec' = remoteRec \/
     IF remoteRec' = NoRecord
     THEN \E d \in Ids : round[d].at = "merged" /\ ForgetsDeletion(d)
     ELSE Beats(remoteRec', remoteRec)]_metadataVars

\* A round never replaces what the user last did with a file, an edit or a
\* deletion of a file the devices share, by an older version, whenever in the
\* round that was done (compute_commit_plan).  A deletion stands until it is
\* forgotten; but one made during a round that brings an older deletion is
\* lost, since the manifest then has that one (build_local_snapshot), and in
\* no other way.
Brought(d) ==
  IF round[d].staged = NoRecord THEN round[d].fetched ELSE round[d].staged

Later(r, v) == r.time > v.time \/ (r.time = v.time /\ r.dev > v.dev)
Covers(r, v) ==
  \/ v = NoRecord
  \/ r # NoRecord /\ (r = v \/ Later(r, v))
  \/ IsDelete(v) /\ Forgotten(v.time)

LostDeletion(d) ==
  IsDelete(version[d]) /\ ~IsUpsert(rec[d]) /\ ~Covers(rec[d], version[d])

NewerOnly ==
  [][\A d \in Ids :
       /\ file'[d] # file[d] /\ edits' = edits
            => Covers(Brought(d), version[d]) \/ LostDeletion(d)
       /\ LostDeletion(d)' /\ ~LostDeletion(d)
            => /\ round[d].at = "published"
               /\ file[d] # round[d].base]_metadataVars

\* When the user stops, all devices come to hold the same file, the remote's:
\* both sides of a merge take the same version (resolve_lww), and a version
\* that lost on one device does not return from another for ever.
FilesAgree ==
  <>[](\A d \in Ids :
         file[d] = IF remoteRec = NoRecord THEN Absent ELSE remoteRec.hash)
=============================================================================
