--------------------------- MODULE FullSyncProofs ---------------------------
(***************************************************************************)
(* TLAPS proofs about FullSync, for any number of devices, files, writes   *)
(* and faults: type correctness, and that no round takes the published     *)
(* record or tree back to an older write.                                  *)
(***************************************************************************)
EXTENDS FullSync, FiniteSetTheorems, WellFoundedInduction, TLAPS

-----------------------------------------------------------------------------
(* Works and their last writes.                                            *)

\* A set of numbers up to a bound has a greatest one.
LEMMA Greatest ==
  ASSUME NEW S \in SUBSET (0..MaxStamp), S # {}
  PROVE  \E s \in S : \A t \in S : t <= s
<1> DEFINE Stage == 0..MaxStamp
           Above(s) == {n \in Stage : s < n}
           T == {Above(s) : s \in S}
           R == StrictSubsetOrdering(Stage)
<1>1. IsFiniteSet(Stage) /\ MaxStamp \in Nat
  BY ConstantsAssumption, FS_Interval
<1>2. IsWellFoundedOn(R, SUBSET Stage)
  BY <1>1, FS_FiniteSubsetsOfFinite, FS_StrictSubsetOrderingWellFounded
<1>3. T \subseteq SUBSET Stage /\ T # {}
  OBVIOUS
<1>4. PICK x \in T : \A y \in T : ~ (<<y, x>> \in R)
  <2> HIDE DEF T, R
  <2> QED BY <1>2, <1>3, WFMin
<1>5. PICK s \in S : x = Above(s)
  BY <1>4
<1>6. ASSUME NEW t \in S, s < t PROVE FALSE
  <2>1. s \in Stage /\ t \in Stage
    OBVIOUS
  <2>2. Above(t) \subseteq Above(s)
    BY <1>6, <2>1, <1>1
  <2>3. t \in Above(s) /\ t \notin Above(t)
    BY <1>6, <2>1, <1>1
  <2>4. <<Above(t), Above(s)>> \in R
    BY <2>2, <2>3 DEF StrictSubsetOrdering
  <2> QED BY <2>4, <1>4, <1>5
<1> QED BY <1>1, <1>6

\* The last write to a work bounds every file and is a stamp.
LEMMA NewestBounds ==
  ASSUME NEW w \in Work
  PROVE  Newest(w) \in 0..MaxStamp /\ \A f \in Files : w[f] <= Newest(w)
<1> DEFINE S == {w[f] : f \in Files}
<1>1. S \subseteq 0..MaxStamp /\ S # {}
  BY ConstantsAssumption DEF Work
<1>2. \E s \in S : \A t \in S : t <= s
  BY <1>1, Greatest
<1>3. \E s \in S : \A f \in Files : w[f] <= s
  BY <1>2
<1>4. Newest(w) \in S /\ \A f \in Files : w[f] <= Newest(w)
  BY <1>3 DEF Newest
<1> QED BY <1>1, <1>4

\* Works are built from works.
LEMMA Works ==
  ASSUME NEW v \in Work, NEW w \in Work
  PROVE  /\ Nothing \in Work /\ FirstCopy \in Work
         /\ Merge(v, w) \in Work
         /\ \A f \in Files : v[f] <= Merge(v, w)[f] /\ w[f] <= Merge(v, w)[f]
<1>1. Nothing \in Work /\ FirstCopy \in Work
  BY ConstantsAssumption DEF Nothing, FirstCopy, Work
<1>2. \A f \in Files : v[f] \in 0..MaxStamp /\ w[f] \in 0..MaxStamp
  BY DEF Work
<1>3. \A f \in Files : /\ Later(v[f], w[f]) \in 0..MaxStamp
                       /\ v[f] <= Later(v[f], w[f])
                       /\ w[f] <= Later(v[f], w[f])
  BY <1>2 DEF Later
<1> QED BY <1>1, <1>3 DEF Merge, Work

-----------------------------------------------------------------------------
(* What the transfer of one target makes of the buffered remote.           *)

\* A record that is no upsert has no tree.
Gone(r) == r.cat.op # "upsert" => r.tree = Nothing

\* The remote q is no older write than r, and no file of a work that is there
\* is older in it.
Advances(r, q) ==
  /\ q.cat.at >= r.cat.at
  /\ r.cat.op # "none" => q.cat.op # "none"
  /\ q.cat.op = "upsert" => \A f \in Files : q.tree[f] >= r.tree[f]

\* An outcome o of target t on the buffered remote r.
Sound(o, r, t) ==
  /\ o.out \in Remote /\ Gone(o.out) /\ Advances(r, o.out)
  /\ o.to \in Target /\ o.to.kind = t.kind

\* A target stays one when its results are entered.
LEMMA TargetUpdate ==
  ASSUME NEW t \in Target, NEW w \in Work,
         NEW s \in {"success", "nothing", "failed"},
         NEW a \in {"none", "delete", "replace"}, NEW e \in 0..MaxStamp,
         NEW b \in BOOLEAN
  PROVE  LET u == [kind |-> t.kind, files |-> w, status |-> s, act |-> a,
                   expect |-> e, answers |-> b]
         IN  u \in Target /\ u.kind = t.kind
BY DEF Target

\* A target is its fields.
LEMMA TargetFields ==
  ASSUME NEW t \in Target
  PROVE  /\ t = [kind |-> t.kind, files |-> t.files, status |-> t.status,
                 act |-> t.act, expect |-> t.expect, answers |-> t.answers]
         /\ t.kind \in Kinds /\ t.files \in Work
         /\ t.status \in {"success", "nothing", "failed"}
         /\ t.act \in {"none", "delete", "replace"}
         /\ t.expect \in 0..MaxStamp /\ t.answers \in BOOLEAN
BY DEF Target

\* What is known of a remote and its fields.
LEMMA RemoteFields ==
  ASSUME NEW r \in Remote
  PROVE  /\ r = [cat |-> r.cat, tree |-> r.tree]
         /\ r.cat \in Record /\ r.tree \in Work
         /\ r.cat = [op |-> r.cat.op, at |-> r.cat.at]
         /\ r.cat.op \in {"none", "upsert", "delete"} /\ r.cat.at \in 0..MaxStamp
         /\ r.cat.op = "none" => r.cat = NoRecord /\ r.cat.at = 0
         /\ \A f \in Files : r.tree[f] \in 0..MaxStamp
         /\ Advances(r, r)
<1>1. /\ r = [cat |-> r.cat, tree |-> r.tree]
      /\ r.cat \in Record /\ r.tree \in Work
  BY DEF Remote
<1>2. /\ r.cat = [op |-> r.cat.op, at |-> r.cat.at]
      /\ r.cat.op \in {"none", "upsert", "delete"} /\ r.cat.at \in 0..MaxStamp
      /\ r.cat.op = "none" => r.cat = NoRecord /\ r.cat.at = 0
  BY <1>1, ConstantsAssumption DEF Record, NoRecord
<1>3. \A f \in Files : r.tree[f] \in 0..MaxStamp
  BY <1>1 DEF Work
<1>4. Advances(r, r)
  BY <1>2, <1>3, ConstantsAssumption DEF Advances
<1> QED BY <1>1, <1>2, <1>3, <1>4

\* The remote without the tree.
LEMMA ClearedRemote ==
  ASSUME NEW r \in Remote, r.cat.op # "upsert"
  PROVE  /\ Cleared(r) \in Remote /\ Gone(Cleared(r))
         /\ Advances(r, Cleared(r)) /\ Cleared(r).cat = r.cat
<1>1. Cleared(r) = [cat |-> r.cat, tree |-> Nothing]
  <2>1. r = [cat |-> r.cat, tree |-> r.tree]
    BY RemoteFields
  <2> QED BY <2>1 DEF Cleared
<1>2. Nothing \in Work
  BY Works, RemoteFields
<1>3. r.cat \in Record
  BY RemoteFields
<1> HIDE DEF Nothing
<1>4. Cleared(r) \in Remote
  BY <1>1, <1>2, <1>3 DEF Remote
<1>5. Cleared(r).cat = r.cat /\ Cleared(r).tree = Nothing
  BY <1>1
<1> QED
  BY <1>4, <1>5, RemoteFields, ConstantsAssumption DEF Gone, Advances

\* The target of the work: a merge only adds later writes.
LEMMA LiveSound ==
  ASSUME NEW r \in Remote, Gone(r), NEW t \in Target, NEW base \in Work,
         NEW lww \in 0..MaxStamp
  PROVE  Sound(Live(r, t, base, lww), r, t)
<1> DEFINE merged == IF r.cat.op = "upsert" THEN Merge(base, r.tree) ELSE base
           last == IF merged = Nothing THEN lww ELSE Newest(merged)
           done == [t EXCEPT !.files = merged, !.status = "success"]
<1>0. /\ r.cat.at \in Int /\ r.cat.op \in {"none", "upsert", "delete"}
      /\ r.cat = [op |-> r.cat.op, at |-> r.cat.at]
      /\ r.cat.op = "none" => r.cat.at = 0
  BY RemoteFields, ConstantsAssumption
<1>1. merged \in Work /\ \A f \in Files : r.tree[f] <= merged[f]
  <2>1. CASE r.cat.op = "upsert"
    BY <2>1, Works, RemoteFields
  <2>2. CASE r.cat.op # "upsert"
    BY <2>2, ConstantsAssumption DEF Gone, Nothing, Work
  <2> QED BY <2>1, <2>2
<1>2. last \in 0..MaxStamp
  BY <1>1, NewestBounds
<1>3. done \in Target /\ done.kind = t.kind
  <2> HIDE DEF merged
  <2> QED BY <1>1 DEF Target
<1>4. /\ [done EXCEPT !.act = "delete", !.expect = lww] \in Target
      /\ [done EXCEPT !.act = "delete", !.expect = lww].kind = t.kind
  <2> HIDE DEF done
  <2> QED BY <1>3 DEF Target
<1> HIDE DEF merged, last, done
<1>5. CASE r.cat.op = "none" \/ last > r.cat.at
  <2> DEFINE q == [cat |-> Upsert(last), tree |-> merged]
  <2>1. Live(r, t, base, lww) = Outcome(q, done)
    BY <1>0, <1>2, <1>5, ConstantsAssumption, SMTT(30)
    DEF Live, merged, last, done, Upsert
  <2>2. last >= r.cat.at \/ r.cat.op = "none"
    BY <1>5, <1>2, <1>0, ConstantsAssumption
  <2>3. r.cat.op = "none" => r.cat.at = 0
    BY RemoteFields
  <2> QED
    BY <1>1, <1>2, <1>3, <2>1, <2>2, <2>3, RemoteFields
    DEF Sound, Outcome, Upsert, Remote, Record, Gone, Advances
<1>6. CASE ~(r.cat.op = "none" \/ last > r.cat.at) /\ r.cat = Upsert(last)
  <2>1. Live(r, t, base, lww) = Outcome(r, done)
    BY <1>0, <1>2, <1>6, ConstantsAssumption, SMTT(30)
    DEF Live, merged, last, done, Upsert
  <2>2. Advances(r, r)
    BY RemoteFields
  <2> QED
    BY <1>3, <2>1, <2>2 DEF Sound, Outcome
<1>7. CASE r.cat.op = "upsert" /\ last < r.cat.at
  <2> DEFINE q == [cat |-> r.cat, tree |-> merged]
  <2>0. r = [cat |-> r.cat, tree |-> r.tree] /\ r.cat \in Record
    BY RemoteFields
  <2>1. Live(r, t, base, lww) = Outcome([r EXCEPT !.tree = merged], done)
    BY <1>0, <1>2, <1>7, ConstantsAssumption, SMTT(30)
    DEF Live, merged, last, done, Upsert
  <2>2. [r EXCEPT !.tree = merged] = q
    BY <2>0
  <2>3. q \in Remote /\ q.cat = r.cat /\ q.tree = merged
    BY <1>1, <2>0 DEF Remote
  <2>4. Gone(q) /\ Advances(r, q)
    <3>1. \A f \in Files : merged[f] >= r.tree[f]
      <4>1. r.tree \in Work
        BY RemoteFields
      <4>2. \A f \in Files : merged[f] \in Int /\ r.tree[f] \in Int
        BY <1>1, <4>1, ConstantsAssumption DEF Work
      <4> QED BY <4>2, <1>1
    <3> QED
      BY <1>0, <1>7, <2>3, <3>1 DEF Gone, Advances
  <2> QED
    BY <1>3, <2>1, <2>2, <2>3, <2>4 DEF Sound, Outcome
<1>8. CASE /\ ~(r.cat.op = "none" \/ last > r.cat.at) /\ r.cat # Upsert(last)
           /\ ~(r.cat.op = "upsert" /\ last < r.cat.at)
  <2>1. r.cat.op = "delete"
    BY <1>0, <1>2, <1>8, ConstantsAssumption DEF Upsert
  <2>2. Live(r, t, base, lww) =
          Outcome(Cleared(r), [done EXCEPT !.act = "delete", !.expect = lww])
    BY <1>0, <1>2, <1>8, <2>1, ConstantsAssumption, SMTT(30)
    DEF Live, merged, last, done, Upsert
  <2>3. /\ Cleared(r) \in Remote /\ Gone(Cleared(r))
        /\ Advances(r, Cleared(r))
    BY <2>1, ClearedRemote
  <2> DEFINE u == [done EXCEPT !.act = "delete", !.expect = lww]
  <2>4. Live(r, t, base, lww) = Outcome(Cleared(r), u)
    BY <2>2
  <2>5. u \in Target /\ u.kind = t.kind
    BY <1>4
  <2> HIDE DEF u
  <2> QED BY <2>3, <2>4, <2>5 DEF Sound, Outcome
<1> QED BY <1>5, <1>6, <1>7, <1>8

\* The target of a work the record says is deleted.
LEMMA DeleteLocalSound ==
  ASSUME NEW r \in Remote, Gone(r), NEW t \in Target, NEW base \in Work,
         NEW lww \in 0..MaxStamp
  PROVE  Sound(DeleteLocal(r, t, base, lww), r, t)
<1>0. /\ r.cat.op \in {"none", "upsert", "delete"} /\ r.tree \in Work
      /\ Advances(r, r)
  BY RemoteFields
<1>1. Download(r, base) \in Work
  BY <1>0 DEF Download, Work
<1>2. CASE r.cat.op = "none"
  BY <1>0, <1>2 DEF DeleteLocal, Sound, Outcome, Target
<1>3. CASE r.cat.op = "upsert"
  BY <1>0, <1>1, <1>3 DEF DeleteLocal, Sound, Outcome, Target
<1>4. CASE r.cat.op = "delete"
  <2>1. /\ Cleared(r) \in Remote /\ Gone(Cleared(r))
        /\ Advances(r, Cleared(r))
    BY <1>4, ClearedRemote
  <2> QED BY <1>4, <2>1 DEF DeleteLocal, Sound, Outcome, Target
<1> QED BY <1>0, <1>2, <1>3, <1>4

\* The target of a work to restore leaves a published tree alone.
LEMMA RestoreSound ==
  ASSUME NEW r \in Remote, Gone(r), NEW t \in Target, NEW here \in Work
  PROVE  /\ Sound(Restore(r, t, here), r, t)
         /\ Restore(r, t, here).out.cat.op = "upsert" =>
              Restore(r, t, here).out = r
<1>0. /\ r.cat.op \in {"none", "upsert", "delete"} /\ r.tree \in Work
      /\ Advances(r, r)
  BY RemoteFields
<1>1. Newest(here) \in 0..MaxStamp
  BY NewestBounds
<1>2. CASE r.cat.op = "none"
  BY <1>0, <1>2 DEF Restore, Sound, Outcome, Target
<1>3. CASE r.cat.op = "upsert"
  BY <1>0, <1>3 DEF Restore, Sound, Outcome, Target
<1>4. CASE r.cat.op = "delete" /\ here = Nothing
  <2>1. /\ Cleared(r) \in Remote /\ Gone(Cleared(r))
        /\ Advances(r, Cleared(r)) /\ Cleared(r).cat = r.cat
    BY <1>4, ClearedRemote
  <2> QED BY <1>4, <2>1 DEF Restore, Sound, Outcome, Target
<1>5. CASE r.cat.op = "delete" /\ here # Nothing
  BY <1>0, <1>1, <1>5 DEF Restore, Sound, Outcome, Target
<1> QED BY <1>0, <1>2, <1>3, <1>4, <1>5

\* The target of a work that is neither here nor recorded.
LEMMA CleanupSound ==
  ASSUME NEW r \in Remote, Gone(r), NEW t \in Target, NEW seen \in Record
  PROVE  Sound(Cleanup(r, t, seen), r, t)
<1>0. /\ r.cat.op \in {"none", "upsert", "delete"} /\ r.tree \in Work
      /\ Advances(r, r)
  BY RemoteFields
<1>1. CASE r.cat.op = "upsert"
  BY <1>0, <1>1 DEF Cleanup, Sound, Outcome, Target
<1>2. CASE r.cat.op = "delete" /\ r.cat.at >= seen.at
  <2>1. /\ Cleared(r) \in Remote /\ Gone(Cleared(r))
        /\ Advances(r, Cleared(r))
    BY <1>2, ClearedRemote
  <2> QED BY <1>2, <2>1 DEF Cleanup, Sound, Outcome, Target
<1>3. CASE r.cat.op # "upsert" /\ ~(r.cat.op = "delete" /\ r.cat.at >= seen.at)
  BY <1>0, <1>3 DEF Cleanup, Sound, Outcome, Target
<1> QED BY <1>1, <1>2, <1>3

\* The target of a queued deletion publishes a tombstone or nothing.
LEMMA DeleteRemoteSound ==
  ASSUME NEW r \in Remote, Gone(r), NEW t \in Target, NEW s \in 0..MaxStamp
  PROVE  /\ Sound(DeleteRemote(r, t, s), r, t)
         /\ DeleteRemote(r, t, s).out.cat.op = "upsert" =>
              DeleteRemote(r, t, s).out = r
<1> DEFINE wins == r.cat.op = "none" \/ s > r.cat.at
           done == [t EXCEPT !.status = "success", !.answers = TRUE]
           q == [cat |-> IF wins THEN Tombstone(s) ELSE r.cat,
                 tree |-> Nothing]
<1>0. /\ r.cat.op \in {"none", "upsert", "delete"} /\ r.tree \in Work
      /\ r.cat.at \in 0..MaxStamp
      /\ r.cat.op = "none" => r.cat.at = 0
  BY RemoteFields
<1>r. Advances(r, r) /\ r.cat \in Record
  BY RemoteFields
<1>1. done \in Target /\ done.kind = t.kind
  BY DEF Target
<1>2. [done EXCEPT !.files = r.tree] \in Target
      /\ [done EXCEPT !.files = r.tree].kind = t.kind
  <2> HIDE DEF done
  <2> QED BY <1>0, <1>1 DEF Target
<1> HIDE DEF done
<1>3. CASE r.cat.op = "upsert" /\ ~wins
  BY <1>0, <1>r, <1>2, <1>3 DEF DeleteRemote, Sound, Outcome, done
<1>4. CASE ~(r.cat.op = "upsert" /\ ~wins)
  <2>1. DeleteRemote(r, t, s) = Outcome(q, done)
    BY <1>4 DEF DeleteRemote, done
  <2>2. /\ q.cat \in Record /\ q.cat.op # "upsert" /\ q.cat.at >= r.cat.at
        /\ q.cat.op = "none" => r.cat.op = "none"
    <3>1. CASE wins
      <4>1. q.cat = [op |-> "delete", at |-> s]
        BY <3>1 DEF Tombstone
      <4> QED BY <1>0, <3>1, <4>1, ConstantsAssumption DEF Record
    <3>2. CASE ~wins
      BY <1>0, <1>r, <1>4, <3>2, ConstantsAssumption
    <3> QED BY <3>1, <3>2
  <2>3. Nothing \in Work
    BY <1>0, Works
  <2>4. q \in Remote /\ Gone(q) /\ Advances(r, q)
    <3>1. q.tree = Nothing /\ q = [cat |-> q.cat, tree |-> q.tree]
      OBVIOUS
    <3> HIDE DEF q
    <3> QED BY <2>2, <2>3, <3>1 DEF Remote, Gone, Advances
  <2> HIDE DEF q
  <2> QED BY <1>1, <2>1, <2>2, <2>4 DEF Sound, Outcome
<1> QED BY <1>3, <1>4

\* The transfer of any target; that of a queued deletion publishes no tree.
LEMMA TransferSound ==
  ASSUME TypeOK, NEW d \in Devices, NEW t \in Target, NEW r \in Remote, Gone(r)
  PROVE  /\ Sound(TransferOf(d, t, r), r, t)
         /\ (/\ t.kind \in {"none", "restore", "deleteRemote"}
             /\ TransferOf(d, t, r).out.cat.op = "upsert")
              => TransferOf(d, t, r).out = r
<1>1. /\ local[d] \in Work /\ job[d].lww \in 0..MaxStamp
      /\ job[d].deleted \in 0..MaxStamp /\ job[d].seen \in Remote
  BY DEF TypeOK, Job
<1>2. Nothing \in Work /\ job[d].seen.cat \in Record
  BY <1>1, Works DEF Remote
<1>3. Seed(d, t) \in Work
  BY <1>1, <1>2 DEF Seed
<1>4. CASE t.kind = "live"
  BY <1>1, <1>3, <1>4, LiveSound DEF TransferOf
<1>5. CASE t.kind = "deleteLocal"
  BY <1>1, <1>3, <1>5, DeleteLocalSound DEF TransferOf
<1>6. CASE t.kind = "restore"
  BY <1>1, <1>6, RestoreSound DEF TransferOf
<1>7. CASE t.kind = "cleanup"
  BY <1>2, <1>7, CleanupSound DEF TransferOf
<1>8. CASE t.kind = "deleteRemote"
  BY <1>1, <1>8, DeleteRemoteSound DEF TransferOf
<1>9. CASE t.kind = "none"
  <2>1. Advances(r, r)
    BY RemoteFields
  <2>2. TransferOf(d, t, r) = Outcome(r, t)
    BY <1>9 DEF TransferOf
  <2> QED BY <2>1, <2>2 DEF Sound, Outcome
<1> QED BY <1>4, <1>5, <1>6, <1>7, <1>8, <1>9 DEF Target, Kinds

-----------------------------------------------------------------------------
(* The invariant.                                                          *)

\* A round from the head has read the head, and what it buffers is no older.
RoundsAdvance ==
  /\ Gone(remote)
  /\ \A d \in Devices :
       /\ job[d].queued.kind \in {"none", "restore", "deleteRemote"}
       /\ Gone(job[d].seen) /\ Gone(job[d].out)
       /\ d \in fresh /\ pc[d] # "idle" => job[d].seen = remote
       /\ d \in fresh /\ pc[d] = "transferred" => Advances(remote, job[d].out)

IInv == TypeOK /\ RoundsAdvance

\* A planned target is a target.
LEMMA PlannedTarget ==
  ASSUME NEW k \in Kinds
  PROVE  Planned(k) \in Target /\ Planned(k).kind = k
BY Works, ConstantsAssumption DEF Planned, Target, Work, Nothing

\* A failed target is a target of its kind.
LEMMA FailedTarget ==
  ASSUME NEW t \in Target
  PROVE  Failed(t) \in Target /\ Failed(t).kind = t.kind
BY DEF Failed, Target

\* The job of a device without a round.
LEMMA NoJobType ==
  /\ NoJob \in Job /\ NoJob.queued.kind = "none"
  /\ Gone(NoJob.seen) /\ Gone(NoJob.out) /\ Nothing \in Work
<1>1. Nothing \in Work
  BY ConstantsAssumption DEF Work, Nothing
<1>2. Planned("none") \in Target /\ Planned("none").kind = "none"
  BY PlannedTarget DEF Kinds
<1>3. [cat |-> NoRecord, tree |-> Nothing] \in Remote
  BY <1>1 DEF Remote, Record
<1>4. Gone([cat |-> NoRecord, tree |-> Nothing])
  BY DEF Gone
<1>5. 0 \in 0..MaxStamp
  BY ConstantsAssumption
<1> QED BY <1>1, <1>2, <1>3, <1>4, <1>5 DEF NoJob, Job

\* The invariant holds at the start.
LEMMA InitIInv == Init => IInv
<1> SUFFICES ASSUME Init PROVE IInv
  OBVIOUS
<1>1. FirstCopy \in Work /\ Nothing \in Work
  BY ConstantsAssumption DEF FirstCopy, Nothing, Work
<1>2. /\ NoJob \in Job /\ NoJob.queued.kind = "none"
      /\ Gone(NoJob.seen) /\ Gone(NoJob.out)
  BY NoJobType
<1>3. /\ Upsert(1) \in Record /\ NoRecord \in Record
      /\ Upsert(1).op = "upsert" /\ 1 \in Stamps /\ 0 \in 0..MaxStamp
      /\ 0 \in 0..MaxFaults
  BY ConstantsAssumption DEF Upsert, Record, Stamps
<1>4. remote \in Remote /\ Gone(remote)
  BY <1>1, <1>3 DEF Init, Remote, Gone
<1>5. local \in [Devices -> Work]
  BY <1>1 DEF Init
<1> HIDE DEF NoJob, FirstCopy, Nothing
<1>6. TypeOK
  BY <1>2, <1>3, <1>4, <1>5 DEF Init, TypeOK
<1>7. RoundsAdvance
  BY <1>2, <1>4 DEF Init, RoundsAdvance
<1> QED BY <1>6, <1>7 DEF IInv

\* The users, and the recovery of a deletion's journal.
LEMMA UserIInv ==
  ASSUME IInv, NEW d \in Devices, User(d) \/ QueueDeletion(d)
  PROVE  IInv'
<1>1. Nothing \in Work /\ Stamps \subseteq 0..MaxStamp /\ 0 \in 0..MaxStamp
  BY NoJobType, ConstantsAssumption DEF Stamps
<1>2. UNCHANGED <<remote, pc, job, fresh>>
  BY DEF User, Edit, Delete, QueueDeletion, roundVars
<1>3. RoundsAdvance'
  BY <1>2 DEF IInv, RoundsAdvance, Gone, Advances
<1>4. ASSUME NEW f \in Files, NEW s \in Stamps, Edit(d, f, s)
      PROVE  TypeOK'
  <2>1. local' \in [Devices -> Work]
    BY <1>1, <1>4 DEF IInv, TypeOK, Edit, Work
  <2> QED BY <1>4, <2>1 DEF IInv, TypeOK, Edit, roundVars
<1>5. ASSUME NEW s \in Stamps, Delete(d, s)
      PROVE  TypeOK'
  <2>1. local' \in [Devices -> Work] /\ journal' \in [Devices -> 0..MaxStamp]
    BY <1>1, <1>5 DEF IInv, TypeOK, Delete
  <2> QED BY <1>5, <2>1 DEF IInv, TypeOK, Delete, roundVars
<1>6. CASE QueueDeletion(d)
  <2>1. /\ pending' \in [Devices -> 0..MaxStamp]
        /\ journal' \in [Devices -> 0..MaxStamp]
    BY <1>1, <1>6 DEF IInv, TypeOK, QueueDeletion
  <2> QED BY <1>3, <1>6, <2>1 DEF IInv, TypeOK, QueueDeletion, roundVars
<1> QED BY <1>3, <1>4, <1>5, <1>6 DEF IInv, User

\* Planning reads the head.
LEMMA PlanIInv ==
  ASSUME IInv, NEW d \in Devices, Plan(d)
  PROVE  IInv'
<1> DEFINE j == [NoJob EXCEPT !.seen = remote, !.out = remote,
                   !.lww = Newest(local[d]), !.deleted = pending[d],
                   !.own = Planned(OwnKind(d)),
                   !.queued = Planned(QueuedKind(d))]
<1>1. /\ Newest(local[d]) \in 0..MaxStamp /\ pending[d] \in 0..MaxStamp
      /\ remote \in Remote /\ NoJob \in Job
  BY NewestBounds, NoJobType DEF IInv, TypeOK
<1>2. OwnKind(d) \in Kinds /\ QueuedKind(d) \in {"none", "restore", "deleteRemote"}
  BY DEF OwnKind, QueuedKind, Kinds
<1>3. /\ Planned(OwnKind(d)) \in Target /\ Planned(QueuedKind(d)) \in Target
      /\ Planned(QueuedKind(d)).kind = QueuedKind(d)
  BY <1>2, PlannedTarget DEF Kinds
<1>4. /\ j \in Job /\ j.seen = remote /\ j.out = remote
      /\ j.queued = Planned(QueuedKind(d))
  <2> HIDE DEF NoJob
  <2> QED BY <1>1, <1>3 DEF Job
<1>5. job' = [job EXCEPT ![d] = j] /\ pc' = [pc EXCEPT ![d] = "planned"]
  <2>1. job' = [job EXCEPT ![d] =
       [NoJob EXCEPT !.seen = remote, !.out = remote,
          !.lww = Newest(local[d]), !.deleted = pending[d],
          !.own = Planned(OwnKind(d)), !.queued = Planned(QueuedKind(d))]]
    BY DEF Plan
  <2> QED BY <2>1 DEF Plan
<1> HIDE DEF j
<1>6. TypeOK'
  <2>1. job' \in [Devices -> Job]
    BY <1>4, <1>5 DEF IInv, TypeOK
  <2>2. pc' \in [Devices -> {"idle", "planned", "transferred", "published",
                             "committed", "recording"}]
    BY <1>5 DEF IInv, TypeOK
  <2>3. fresh' \subseteq Devices
    BY DEF IInv, TypeOK, Plan
  <2> QED BY <2>1, <2>2, <2>3 DEF IInv, TypeOK, Plan, userVars
<1>7. ASSUME NEW e \in Devices
      PROVE  /\ job'[e].queued.kind \in {"none", "restore", "deleteRemote"}
             /\ Gone(job'[e].seen) /\ Gone(job'[e].out)
             /\ e \in fresh' /\ pc'[e] # "idle" => job'[e].seen = remote
             /\ e \in fresh' /\ pc'[e] = "transferred" =>
                  Advances(remote, job'[e].out)
  <2>1. CASE e = d
    <3>1. job'[e] = j /\ pc'[e] = "planned"
      BY <1>5, <2>1 DEF IInv, TypeOK
    <3> QED BY <1>2, <1>3, <1>4, <3>1 DEF IInv, RoundsAdvance
  <2>2. CASE e # d
    <3>1. job'[e] = job[e] /\ pc'[e] = pc[e] /\ (e \in fresh' <=> e \in fresh)
      BY <1>5, <2>2 DEF IInv, TypeOK, Plan
    <3> QED BY <3>1 DEF IInv, RoundsAdvance
  <2> QED BY <2>1, <2>2
<1>8. remote' = remote
  BY DEF Plan
<1>9. RoundsAdvance'
  BY <1>7, <1>8 DEF IInv, RoundsAdvance, Gone, Advances
<1> QED BY <1>6, <1>9 DEF IInv

\* The transfer of both targets; what they make of the head is no older.
LEMMA TransferIInv ==
  ASSUME IInv, NEW d \in Devices, NEW current, NEW broken,
         Transfer(d, current, broken)
  PROVE  IInv'
<1> USE DEF IInv
<1> DEFINE j == job[d]
           first == Reads(d, j.own, current)
           own == TransferOf(d, j.own, first)
           second == IF own.out # first THEN own.out
                     ELSE Reads(d, j.queued, current)
           queued == TransferOf(d, j.queued, second)
           ownTo == IF broken = "own" THEN Failed(own.to) ELSE own.to
           queuedTo == IF broken = "queued" THEN Failed(queued.to)
                       ELSE queued.to
           base == Seed(d, j.own)
           wrote == own.out # first \/ queued.out # second
           blocked == broken # "no"
           k == [j EXCEPT !.base = base, !.out = queued.out, !.wrote = wrote,
                   !.own = ownTo, !.queued = queuedTo, !.blocked = blocked]
<1>1. /\ j \in Job /\ j.seen \in Remote /\ Gone(j.seen)
      /\ j.own \in Target /\ j.queued \in Target
      /\ j.queued.kind \in {"none", "restore", "deleteRemote"}
  BY DEF TypeOK, Job, RoundsAdvance
<1>2. /\ current \in Remote /\ Gone(current)
      /\ d \in fresh => current = remote /\ j.seen = remote
  BY <1>1 DEF TypeOK, Transfer, RoundsAdvance
<1>3. /\ first \in Remote /\ Gone(first)
      /\ Reads(d, j.queued, current) \in Remote
      /\ Gone(Reads(d, j.queued, current))
      /\ d \in fresh => first = remote /\ Reads(d, j.queued, current) = remote
  BY <1>1, <1>2 DEF Reads
<1>4. Sound(own, first, j.own)
  <2> HIDE DEF first
  <2> QED BY <1>1, <1>3, TransferSound
<1>5. /\ second \in Remote /\ Gone(second)
      /\ d \in fresh => Advances(remote, second)
  <2>1. CASE own.out # first
    BY <1>3, <1>4, <2>1 DEF Sound
  <2>2. CASE own.out = first
    <3>1. second = Reads(d, j.queued, current)
      BY <2>2
    <3>2. second \in Remote /\ Gone(second) /\ (d \in fresh => second = remote)
      BY <1>3, <3>1
    <3>3. Advances(remote, remote)
      BY RemoteFields DEF TypeOK
    <3> HIDE DEF second
    <3> QED BY <3>2, <3>3
  <2> QED BY <2>1, <2>2
<1>6. /\ Sound(queued, second, j.queued)
      /\ queued.out.cat.op = "upsert" => queued.out = second
  <2> HIDE DEF second
  <2> QED BY <1>1, <1>5, TransferSound
<1>7. d \in fresh => Advances(remote, queued.out)
  <2> HAVE d \in fresh
  <2>1. Advances(remote, second) /\ Advances(second, queued.out)
    BY <1>5, <1>6 DEF Sound
  <2>2. /\ remote.cat.at \in Int /\ second.cat.at \in Int
        /\ queued.out.cat.at \in Int
    <3>1. queued.out \in Remote /\ remote \in Remote /\ second \in Remote
      BY <1>5, <1>6 DEF Sound, TypeOK
    <3> HIDE DEF second, queued
    <3> QED BY <3>1, ConstantsAssumption DEF Remote, Record, NoRecord
  <2> HIDE DEF second, queued
  <2> QED BY <1>6, <2>1, <2>2 DEF Advances
<1> HIDE DEF first, own, second, queued
<1>8. /\ ownTo \in Target /\ queuedTo \in Target
      /\ queuedTo.kind \in {"none", "restore", "deleteRemote"}
      /\ queued.out \in Remote /\ Gone(queued.out)
  BY <1>1, <1>4, <1>6, FailedTarget DEF Sound
<1>9. base \in Work /\ wrote \in BOOLEAN /\ blocked \in BOOLEAN
  BY NoJobType DEF TypeOK, Seed
<1>10. job' = [job EXCEPT ![d] = k] /\ pc' = [pc EXCEPT ![d] = "transferred"]
  BY DEF Transfer, first, own, second, queued
<1> HIDE DEF ownTo, queuedTo, base, wrote, blocked
<1>11. /\ k \in Job /\ k.seen = j.seen /\ k.out = queued.out
       /\ k.queued = queuedTo
  BY <1>1, <1>8, <1>9 DEF Job
<1> HIDE DEF k
<1>12. TypeOK'
  <2>1. job' \in [Devices -> Job]
    BY <1>10, <1>11 DEF TypeOK
  <2>2. pc' \in [Devices -> {"idle", "planned", "transferred", "published",
                             "committed", "recording"}]
    BY <1>10 DEF TypeOK
  <2>3. faults' \in 0..MaxFaults
    BY ConstantsAssumption DEF TypeOK, Transfer, Fault
  <2> QED BY <2>1, <2>2, <2>3 DEF TypeOK, Transfer, userVars
<1>13. ASSUME NEW e \in Devices
      PROVE  /\ job'[e].queued.kind \in {"none", "restore", "deleteRemote"}
             /\ Gone(job'[e].seen) /\ Gone(job'[e].out)
             /\ e \in fresh /\ pc'[e] # "idle" => job'[e].seen = remote
             /\ e \in fresh /\ pc'[e] = "transferred" =>
                  Advances(remote, job'[e].out)
  <2>1. CASE e = d
    <3>1. job'[e] = k /\ pc'[e] = "transferred"
      BY <1>10, <2>1 DEF TypeOK
    <3> QED BY <1>1, <1>2, <1>7, <1>8, <1>11, <2>1, <3>1
  <2>2. CASE e # d
    <3>1. job'[e] = job[e] /\ pc'[e] = pc[e]
      BY <1>10, <2>2 DEF TypeOK
    <3> QED BY <3>1 DEF RoundsAdvance
  <2> QED BY <2>1, <2>2
<1>14. remote' = remote /\ fresh' = fresh
  BY DEF Transfer
<1>15. RoundsAdvance'
  BY <1>13, <1>14 DEF RoundsAdvance, Gone, Advances
<1> QED BY <1>12, <1>15

\* Steps of a round that leave the remote and the device's job alone.
LEMMA PhaseIInv ==
  ASSUME IInv, NEW d \in Devices, TypeOK', UNCHANGED <<remote, fresh, job>>,
         NEW p, p # "transferred", pc[d] # "idle",
         pc' = [pc EXCEPT ![d] = p]
  PROVE  IInv'
<1>1. ASSUME NEW e \in Devices
      PROVE  \/ pc'[e] = pc[e]
             \/ pc[e] # "idle" /\ pc'[e] # "transferred"
  <2>1. pc \in [Devices -> {"idle", "planned", "transferred", "published",
                            "committed", "recording"}]
    BY DEF IInv, TypeOK
  <2> QED BY <2>1
<1>2. RoundsAdvance'
  BY <1>1 DEF IInv, RoundsAdvance, Gone, Advances
<1> QED BY <1>2 DEF IInv

\* Steps that end a round.
LEMMA EndIInv ==
  ASSUME IInv, NEW d \in Devices, TypeOK', UNCHANGED <<remote, fresh>>, End(d)
  PROVE  IInv'
<1>1. ASSUME NEW e \in Devices
      PROVE  \/ pc'[e] = pc[e] /\ job'[e] = job[e]
             \/ pc'[e] = "idle" /\ job'[e] = NoJob
  BY DEF IInv, TypeOK, End
<1>2. RoundsAdvance'
  <2> HIDE DEF NoJob
  <2> QED BY <1>1, NoJobType DEF IInv, RoundsAdvance, Gone, Advances
<1> QED BY <1>2 DEF IInv

\* End keeps the types.
LEMMA EndType ==
  ASSUME TypeOK, NEW d \in Devices, End(d)
  PROVE  /\ job' \in [Devices -> Job]
         /\ pc' \in [Devices -> {"idle", "planned", "transferred", "published",
                                 "committed", "recording"}]
<1> HIDE DEF NoJob
<1> QED BY NoJobType DEF TypeOK, End

\* Publication installs what a round from the head has buffered.
LEMMA PublishIInv ==
  ASSUME IInv, NEW d \in Devices, Publish(d)
  PROVE  IInv' /\ (remote' = remote \/ Advances(remote, remote'))
<1> USE DEF IInv
<1>1. pc' = [pc EXCEPT ![d] = "published"] /\ job' = job /\ pc[d] = "transferred"
  BY DEF Publish
<1>2. pc' \in [Devices -> {"idle", "planned", "transferred", "published",
                           "committed", "recording"}]
  BY <1>1 DEF TypeOK
<1>3. CASE job[d].wrote
  <2>1. /\ d \in fresh /\ remote' = job[d].out /\ fresh' = {}
        /\ checkpoint' = [e \in Devices |-> {}]
    BY <1>3 DEF Publish, AtHead
  <2>2. job[d].out \in Remote
    BY DEF TypeOK, Job
  <2>3. TypeOK'
    BY <1>1, <1>2, <2>1, <2>2 DEF TypeOK, Publish, userVars
  <2>4. RoundsAdvance'
    BY <1>1, <2>1 DEF RoundsAdvance, Gone
  <2>5. Advances(remote, remote')
    BY <1>1, <2>1 DEF RoundsAdvance
  <2> QED BY <2>3, <2>4, <2>5
<1>4. CASE ~job[d].wrote
  <2>1. UNCHANGED <<remote, fresh, checkpoint>>
    BY <1>4 DEF Publish
  <2>2. TypeOK'
    BY <1>1, <1>2, <2>1 DEF TypeOK, Publish, userVars
  <2> QED BY <1>1, <2>1, <2>2, PhaseIInv
<1> QED BY <1>3, <1>4

\* The commit of a target leaves a work a work.
LEMMA CommitWork ==
  ASSUME NEW w \in Work, NEW t \in Target, NEW base \in Work
  PROVE  /\ CommitTarget(w, t, base) \in Work
         /\ CommitStatus(w, t) \in Target /\ CommitStatus(w, t).kind = t.kind
<1>1. \A f \in Files : /\ w[f] \in 0..MaxStamp /\ base[f] \in 0..MaxStamp
                       /\ t.files[f] \in 0..MaxStamp
  BY DEF Work, Target
<1>2. ASSUME NEW u \in 0..MaxStamp, NEW v \in 0..MaxStamp, NEW x \in 0..MaxStamp
      PROVE  CommitFile(u, v, x) \in 0..MaxStamp
  <2>1. Later(u, x) \in 0..MaxStamp
    BY DEF Later
  <2> QED BY <2>1 DEF CommitFile
<1>3. [f \in Files |-> CommitFile(w[f], base[f], t.files[f])] \in Work
  BY <1>1, <1>2 DEF Work
<1>4. CommitTarget(w, t, base) \in Work
  <2>1. t.files \in Work
    BY DEF Target
  <2> QED BY <1>3, <2>1 DEF CommitTarget
<1> QED BY <1>4, FailedTarget DEF CommitStatus

\* The staging directories are committed.
LEMMA CommitIInv ==
  ASSUME IInv, NEW d \in Devices, Commit(d)
  PROVE  IInv'
<1> USE DEF IInv
<1> DEFINE j == job[d]
           first == CommitTarget(local[d], j.own, j.base)
           second == CommitTarget(first, j.queued, Nothing)
           own == CommitStatus(local[d], j.own)
           k == [j EXCEPT !.own = own]
<1>1. /\ j \in Job /\ j.own \in Target /\ j.queued \in Target
      /\ j.base \in Work /\ local[d] \in Work /\ Nothing \in Work
  BY NoJobType DEF TypeOK, Job
<1>2. first \in Work /\ own \in Target
  BY <1>1, CommitWork
<1>3. second \in Work
  <2> HIDE DEF first
  <2> QED BY <1>1, <1>2, CommitWork
<1>4. /\ local' = [local EXCEPT ![d] = second]
      /\ job' = [job EXCEPT ![d].own = CommitStatus(local[d], @)]
      /\ pc' = [pc EXCEPT ![d] = "committed"] /\ pc[d] = "published"
  BY DEF Commit
<1>5. job' = [job EXCEPT ![d] = k]
  BY <1>4 DEF TypeOK
<1> HIDE DEF own, second
<1>6. k \in Job /\ k.seen = j.seen /\ k.out = j.out /\ k.queued = j.queued
  BY <1>1, <1>2 DEF Job
<1> HIDE DEF k
<1>7. TypeOK'
  <2>1. job' \in [Devices -> Job]
    BY <1>5, <1>6 DEF TypeOK
  <2>2. pc' \in [Devices -> {"idle", "planned", "transferred", "published",
                             "committed", "recording"}]
    BY <1>4 DEF TypeOK
  <2>3. local' \in [Devices -> Work]
    BY <1>3, <1>4 DEF TypeOK
  <2> QED BY <2>1, <2>2, <2>3 DEF TypeOK, Commit
<1>8. ASSUME NEW e \in Devices
      PROVE  /\ job'[e].seen = job[e].seen /\ job'[e].out = job[e].out
             /\ job'[e].queued = job[e].queued
             /\ \/ pc'[e] = pc[e]
                \/ pc[e] # "idle" /\ pc'[e] = "committed"
  <2>1. CASE e = d
    BY <1>4, <1>5, <1>6, <2>1 DEF TypeOK
  <2>2. CASE e # d
    <3>1. pc'[e] = pc[e]
      <4>1. pc' = [pc EXCEPT ![d] = "committed"]
        BY <1>4
      <4> QED BY <4>1, <2>2 DEF TypeOK
    <3>2. job'[e] = job[e]
      <4>1. job \in [Devices -> Job]
        BY DEF TypeOK
      <4> QED BY <4>1, <1>5, <2>2
    <3> QED BY <3>1, <3>2
  <2> QED BY <2>1, <2>2
<1>9. remote' = remote /\ fresh' = fresh
  BY DEF Commit
<1>10. RoundsAdvance'
  BY <1>8, <1>9 DEF RoundsAdvance, Gone, Advances
<1> QED BY <1>7, <1>10

\* A commit that fails.
LEMMA CommitFailsIInv ==
  ASSUME IInv, NEW d \in Devices, CommitFails(d)
  PROVE  IInv'
<1> USE DEF IInv
<1> DEFINE j == job[d]
           own == Failed(j.own)
           queued == Failed(j.queued)
           k == [j EXCEPT !.own = own, !.queued = queued]
<1>1. j \in Job /\ j.own \in Target /\ j.queued \in Target
  BY DEF TypeOK, Job
<1>2. own \in Target /\ queued \in Target /\ queued.kind = j.queued.kind
  BY <1>1, FailedTarget
<1>3. /\ job' = [job EXCEPT ![d].own = Failed(@), ![d].queued = Failed(@)]
      /\ pc' = [pc EXCEPT ![d] = "committed"] /\ pc[d] = "published"
  BY DEF CommitFails
<1>4. job' = [job EXCEPT ![d] = k]
  BY <1>3 DEF TypeOK
<1> HIDE DEF own, queued
<1>5. k \in Job /\ k.seen = j.seen /\ k.out = j.out /\ k.queued = queued
  BY <1>1, <1>2 DEF Job
<1> HIDE DEF k
<1>6. TypeOK'
  <2>1. job' \in [Devices -> Job]
    BY <1>4, <1>5 DEF TypeOK
  <2>2. pc' \in [Devices -> {"idle", "planned", "transferred", "published",
                             "committed", "recording"}]
    BY <1>3 DEF TypeOK
  <2>3. faults' \in 0..MaxFaults
    BY ConstantsAssumption DEF TypeOK, CommitFails, Fault
  <2> QED BY <2>1, <2>2, <2>3 DEF TypeOK, CommitFails, userVars
<1>7. ASSUME NEW e \in Devices
      PROVE  /\ job'[e].seen = job[e].seen /\ job'[e].out = job[e].out
             /\ job'[e].queued.kind = job[e].queued.kind
             /\ \/ pc'[e] = pc[e]
                \/ pc[e] # "idle" /\ pc'[e] = "committed"
  <2>1. CASE e = d
    BY <1>2, <1>3, <1>4, <1>5, <2>1 DEF TypeOK
  <2>2. CASE e # d
    <3>1. pc'[e] = pc[e]
      <4>1. pc' = [pc EXCEPT ![d] = "committed"]
        BY <1>3
      <4> QED BY <4>1, <2>2 DEF TypeOK
    <3>2. job'[e] = job[e]
      <4>1. job \in [Devices -> Job]
        BY DEF TypeOK
      <4> QED BY <4>1, <1>4, <2>2
    <3> QED BY <3>1, <3>2
  <2> QED BY <2>1, <2>2
<1>8. remote' = remote /\ fresh' = fresh
  BY DEF CommitFails
<1>9. RoundsAdvance'
  BY <1>7, <1>8 DEF RoundsAdvance, Gone, Advances
<1> QED BY <1>6, <1>9

\* The end of a round.
LEMMA FinalizeIInv ==
  ASSUME IInv, NEW d \in Devices, Finalize(d)
  PROVE  IInv'
<1>1. Nothing \in Work /\ 0 \in 0..MaxStamp
  BY NoJobType, ConstantsAssumption
<1>2. TypeOK
  BY DEF IInv
<1>3. local' \in [Devices -> Work]
  BY <1>1, <1>2 DEF TypeOK, Finalize
<1>4. pending' \in [Devices -> 0..MaxStamp]
  BY <1>1, <1>2 DEF TypeOK, Finalize
<1>5. pc[d] = "committed" /\ UNCHANGED <<remote, fresh>>
  BY DEF Finalize
<1>6. CASE Automatic /\ InStep(d)
  <2>1. pc' = [pc EXCEPT ![d] = "recording"] /\ UNCHANGED <<job, checkpoint>>
    BY <1>6 DEF Finalize
  <2>2. pc' \in [Devices -> {"idle", "planned", "transferred", "published",
                             "committed", "recording"}]
    BY <1>2, <2>1 DEF TypeOK
  <2>3. TypeOK'
    BY <1>2, <1>3, <1>4, <2>1, <2>2 DEF TypeOK, Finalize
  <2> QED BY <1>5, <2>1, <2>3, PhaseIInv
<1>7. CASE ~(Automatic /\ InStep(d))
  <2>1. /\ End(d)
        /\ checkpoint' = [checkpoint EXCEPT ![d] = IF Blocked(d) THEN {} ELSE @]
    BY <1>7 DEF Finalize
  <2>2. checkpoint' \in [Devices -> SUBSET Work]
    BY <1>2, <2>1 DEF TypeOK
  <2>3. TypeOK'
    BY <1>2, <1>3, <1>4, <2>1, <2>2, EndType DEF TypeOK, Finalize
  <2> QED BY <1>5, <2>1, <2>3, EndIInv
<1> QED BY <1>6, <1>7

\* The other steps of a round.
LEMMA RoundIInv ==
  ASSUME IInv, NEW d \in Devices, Round(d) \/ BreakOff(d)
  PROVE  IInv' /\ (remote' = remote \/ Advances(remote, remote'))
<1>1. TypeOK
  BY DEF IInv
<1>2. CASE Plan(d)
  BY <1>2, PlanIInv DEF Plan
<1>3. ASSUME NEW current, NEW broken, Transfer(d, current, broken)
      PROVE  IInv' /\ remote' = remote
  BY <1>3, TransferIInv DEF Transfer
<1>4. CASE Discard(d)
  <2>1. pc' \in [Devices -> {"idle", "planned", "transferred", "published",
                             "committed", "recording"}]
    BY <1>1, <1>4 DEF TypeOK, Discard
  <2>2. TypeOK'
    BY <1>1, <1>4, <2>1 DEF TypeOK, Discard, userVars
  <2> QED BY <1>4, <2>2, PhaseIInv DEF Discard
<1>5. CASE Publish(d)
  BY <1>5, PublishIInv
<1>6. CASE Refused(d)
  <2>1. End(d) /\ UNCHANGED <<remote, fresh>>
        /\ checkpoint' = [checkpoint EXCEPT ![d] = {}]
    BY <1>6 DEF Refused
  <2>2. TypeOK'
    BY <1>1, <1>6, <2>1, EndType DEF TypeOK, Refused, userVars
  <2> QED BY <2>1, <2>2, EndIInv
<1>7. CASE Commit(d)
  BY <1>7, CommitIInv DEF Commit
<1>8. CASE CommitFails(d)
  BY <1>8, CommitFailsIInv DEF CommitFails
<1>9. CASE Finalize(d)
  BY <1>9, FinalizeIInv DEF Finalize
<1>10. CASE RecordCheckpoint(d)
  <2>1. End(d) /\ UNCHANGED <<remote, fresh>>
    BY <1>10 DEF RecordCheckpoint
  <2>2. checkpoint' \in [Devices -> SUBSET Work]
    BY <1>1, <1>10 DEF TypeOK, RecordCheckpoint
  <2>3. TypeOK'
    BY <1>1, <1>10, <2>1, <2>2, EndType DEF TypeOK, RecordCheckpoint, userVars
  <2> QED BY <2>1, <2>3, EndIInv
<1>11. CASE BreakOff(d)
  <2>1. End(d) /\ UNCHANGED <<remote, fresh>>
        /\ checkpoint' = [checkpoint EXCEPT ![d] = {}]
    BY <1>11 DEF BreakOff
  <2>2. faults' \in 0..MaxFaults
    BY <1>1, <1>11, ConstantsAssumption DEF TypeOK, BreakOff, Fault
  <2>3. TypeOK'
    BY <1>1, <1>11, <2>1, <2>2, EndType DEF TypeOK, BreakOff, userVars
  <2> QED BY <2>1, <2>3, EndIInv
<1> QED
  BY <1>2, <1>3, <1>4, <1>5, <1>6, <1>7, <1>8, <1>9, <1>10, <1>11 DEF Round

\* Every step keeps the invariant, and none takes the remote back.
LEMMA StepIInv ==
  ASSUME IInv, [Next]_vars
  PROVE  IInv' /\ (remote' = remote \/ Advances(remote, remote'))
<1>1. CASE UNCHANGED vars
  <2>1. UNCHANGED <<remote, local, journal, pending, edits, deletions,
                    checkpoint, pc, job, fresh, faults>>
    BY <1>1 DEF vars, userVars, roundVars
  <2> QED BY <2>1 DEF IInv, TypeOK, RoundsAdvance, Gone, Advances
<1>2. ASSUME NEW d \in Devices,
             User(d) \/ QueueDeletion(d) \/ Round(d) \/ BreakOff(d)
      PROVE  IInv' /\ (remote' = remote \/ Advances(remote, remote'))
  <2>1. CASE User(d) \/ QueueDeletion(d)
    BY <2>1, UserIInv DEF User, Edit, Delete, QueueDeletion
  <2>2. CASE Round(d) \/ BreakOff(d)
    BY <2>2, RoundIInv
  <2> QED BY <1>2, <2>1, <2>2
<1> QED BY <1>1, <1>2 DEF Next

\* What is stored and buffered has its type in every reachable state.
THEOREM TypeCorrect == Spec => []TypeOK
<1>1. IInv => TypeOK
  BY DEF IInv
<1>2. IInv /\ [Next]_vars => IInv'
  BY StepIInv
<1> QED BY <1>1, <1>2, InitIInv, PTL DEF Spec

\* Whatever rounds of other devices come between the steps of a round, none
\* publishes an older record, or an older file of a work that is there.
THEOREM OnlyAdvances == Spec => RemoteOnlyAdvances
<1>1. IInv /\ [Next]_vars => IInv'
  BY StepIInv
<1>2. IInv /\ [Next]_vars =>
        [/\ remote'.cat.at >= remote.cat.at
         /\ remote.cat.op # "none" => remote'.cat.op # "none"
         /\ remote'.cat.op = "upsert" =>
              \A f \in Files : remote'.tree[f] >= remote.tree[f]]_vars
  <2> SUFFICES ASSUME IInv, [Next]_vars
               PROVE  Advances(remote, remote')
    BY DEF Advances
  <2>1. Advances(remote, remote)
    BY RemoteFields DEF IInv, TypeOK
  <2> QED BY <2>1, StepIInv
<1> QED BY <1>1, <1>2, InitIInv, PTL DEF Spec, RemoteOnlyAdvances

-----------------------------------------------------------------------------
(* What the writes E and the deletions D of the users explain.             *)

\* No stamp is both a write and a deletion.
Stamped(E, D) == E \subseteq Stamps /\ D \subseteq Stamps /\ E \intersect D = {}

\* The content of a work was written by users, as far as it is there.
Written(w, E) == \A f \in Files : w[f] \in E \union {0}

\* Some user deleted the work after stamp n.
DeletedAfter(n, D) == \E s \in D : s > n

\* A work is there as a whole or not at all.
Whole(w) == w = Nothing \/ w[Main] # 0

\* A remote whose record tells of its tree, or of a deletion.
Told(r, E, D) ==
  /\ Written(r.tree, E)
  /\ r.cat.op = "upsert" =>
       /\ Whole(r.tree)
       /\ \/ r.tree # Nothing /\ Newest(r.tree) = r.cat.at
          \/ Newest(r.tree) < r.cat.at /\ DeletedAfter(r.cat.at, D)
  /\ r.cat.op = "delete" => r.cat.at \in D
  /\ r.cat.op # "upsert" => r.tree = Nothing

\* A target deletes a copy only for a later deletion.
TargetTold(t, E, D) ==
  /\ Written(t.files, E)
  /\ t.act = "delete" => DeletedAfter(t.expect, D)

\* What a round holds was written, and what it is to delete was deleted.
JobTold(j, E, D) ==
  /\ Told(j.seen, E, D) /\ Told(j.out, E, D)
  /\ Written(j.base, E) /\ TargetTold(j.own, E, D) /\ TargetTold(j.queued, E, D)
  /\ j.lww \in E \union {0} /\ j.deleted \in D \union {0}
  /\ j.own.kind # "deleteRemote"
  /\ j.queued.kind = "deleteRemote" => j.deleted # 0
  /\ j.own.kind = "deleteLocal" => DeletedAfter(j.lww, D)

\* A copy w of a work planned at stamp n is what it was, or edited or deleted
\* since.
StillThere(w, n, D) ==
  /\ n > 0
  /\ \/ w = Nothing /\ DeletedAfter(n, D)
     \/ w[Main] # 0 /\ n <= Newest(w)

HInv ==
  /\ Stamped(edits, deletions)
  /\ Told(remote, edits, deletions)
  /\ \A d \in Devices :
       /\ Written(local[d], edits)
       /\ journal[d] \in deletions \union {0} /\ pending[d] \in deletions \union {0}
       /\ JobTold(job[d], edits, deletions)
       /\ pc[d] = "planned" /\ job[d].own.kind = "live" =>
            StillThere(local[d], job[d].lww, deletions)

\* The last write to a work is one of its files', and no work has none.
LEMMA NewestIs ==
  ASSUME NEW w \in Work
  PROVE  /\ \E f \in Files : Newest(w) = w[f]
         /\ Newest(w) = 0 <=> w = Nothing
         /\ \A E : Written(w, E) => Newest(w) \in E \union {0}
<1> DEFINE S == {w[f] : f \in Files}
<1>1. S \subseteq 0..MaxStamp /\ S # {}
  BY ConstantsAssumption DEF Work
<1>2. \E s \in S : \A t \in S : t <= s
  BY <1>1, Greatest
<1>3. \E s \in S : \A f \in Files : w[f] <= s
  BY <1>2
<1>4. Newest(w) \in S
  BY <1>3 DEF Newest
<1>5. \A f \in Files : w[f] \in 0..MaxStamp /\ w[f] <= Newest(w)
  BY NewestBounds DEF Work
<1>6. Newest(w) = 0 => w = Nothing
  <2> HAVE Newest(w) = 0
  <2>1. \A f \in Files : w[f] = 0
    BY <1>5, ConstantsAssumption
  <2> QED BY <2>1 DEF Nothing, Work
<1>7. w = Nothing => Newest(w) = 0
  BY <1>4 DEF Nothing
<1> QED BY <1>4, <1>6, <1>7 DEF Written

\* Merging keeps later writes, and what is there.
LEMMA MergeTold ==
  ASSUME NEW E, NEW v \in Work, NEW w \in Work, Written(v, E), Written(w, E)
  PROVE  /\ Written(Merge(v, w), E)
         /\ Whole(v) /\ Whole(w) => Whole(Merge(v, w))
         /\ Merge(v, w) = Nothing => v = Nothing /\ w = Nothing
         /\ Newest(v) <= Newest(Merge(v, w)) /\ Newest(w) <= Newest(Merge(v, w))
<1> DEFINE m == Merge(v, w)
<1>1. m \in Work /\ \A f \in Files : v[f] <= m[f] /\ w[f] <= m[f]
  BY Works
<1>2. \A f \in Files : m[f] = v[f] \/ m[f] = w[f]
  BY DEF Merge, Later
<1>3. \A f \in Files : v[f] \in 0..MaxStamp /\ w[f] \in 0..MaxStamp /\ m[f] \in 0..MaxStamp
  BY <1>1 DEF Work
<1> HIDE DEF m
<1>4. Written(m, E)
  BY <1>2 DEF Written
<1>5. m = Nothing => v = Nothing /\ w = Nothing
  <2> HAVE m = Nothing
  <2>1. \A f \in Files : m[f] = 0
    BY DEF Nothing
  <2>2. \A f \in Files : v[f] = 0 /\ w[f] = 0
    BY <1>1, <1>3, <2>1, ConstantsAssumption
  <2> QED BY <2>2 DEF Nothing, Work
<1>6. Newest(v) <= Newest(m) /\ Newest(w) <= Newest(m)
  <2>1. \A f \in Files : m[f] <= Newest(m)
    BY <1>1, NewestBounds
  <2>2. Newest(m) \in 0..MaxStamp
    BY <1>1, NewestBounds
  <2>3. PICK f \in Files, g \in Files : Newest(v) = v[f] /\ Newest(w) = w[g]
    BY NewestIs
  <2> QED BY <1>1, <1>3, <2>1, <2>2, <2>3, ConstantsAssumption
<1>7. Whole(v) /\ Whole(w) => Whole(m)
  <2>1. CASE v = Nothing /\ w = Nothing
    <3>1. \A f \in Files : v[f] = 0 /\ w[f] = 0
      BY <2>1 DEF Nothing
    <3>2. \A f \in Files : m[f] = 0
      BY <1>2, <3>1
    <3> QED BY <1>1, <3>2 DEF Whole, Nothing, Work
  <2>2. CASE v[Main] # 0 \/ w[Main] # 0
    BY <1>1, <1>3, <2>2, ConstantsAssumption DEF Whole
  <2> QED BY <2>1, <2>2 DEF Whole
<1> QED BY <1>4, <1>5, <1>6, <1>7 DEF m

\* A remote is told of through its fields.
LEMMA ToldFields ==
  ASSUME NEW E, NEW D, NEW c \in Record, NEW w \in Work, Written(w, E),
         c.op = "upsert" =>
           /\ Whole(w)
           /\ \/ w # Nothing /\ Newest(w) = c.at
              \/ Newest(w) < c.at /\ DeletedAfter(c.at, D),
         c.op = "delete" => c.at \in D,
         c.op # "upsert" => w = Nothing
  PROVE  Told([cat |-> c, tree |-> w], E, D)
BY DEF Told

\* Nothing is left of a tree that is cleared.
LEMMA ClearedTold ==
  ASSUME NEW E, NEW D, NEW r \in Remote, Told(r, E, D), r.cat.op # "upsert"
  PROVE  Told(Cleared(r), E, D)
<1>1. Cleared(r) = [cat |-> r.cat, tree |-> Nothing]
  <2>1. r = [cat |-> r.cat, tree |-> r.tree]
    BY RemoteFields
  <2> QED BY <2>1 DEF Cleared
<1>2. Nothing \in Work /\ Written(Nothing, E) /\ r.cat \in Record
  BY NoJobType, RemoteFields DEF Written, Nothing
<1> QED BY <1>1, <1>2, ToldFields DEF Told

\* The target of the work.
LEMMA LiveTold ==
  ASSUME NEW E, NEW D, Stamped(E, D), NEW r \in Remote, Told(r, E, D),
         NEW t \in Target, TargetTold(t, E, D),
         NEW base \in Work, Written(base, E),
         NEW lww \in 0..MaxStamp, lww \in E \union {0}, StillThere(base, lww, D)
  PROVE  LET o == Live(r, t, base, lww)
         IN  Told(o.out, E, D) /\ TargetTold(o.to, E, D)
<1> DEFINE merged == IF r.cat.op = "upsert" THEN Merge(base, r.tree) ELSE base
           last == IF merged = Nothing THEN lww ELSE Newest(merged)
           done == [t EXCEPT !.files = merged, !.status = "success"]
<1>0. /\ r.cat.at \in Int /\ r.cat.op \in {"none", "upsert", "delete"}
      /\ r.cat = [op |-> r.cat.op, at |-> r.cat.at]
      /\ r.cat.op = "none" => r.cat.at = 0
      /\ r.cat \in Record /\ r.tree \in Work /\ Written(r.tree, E)
  BY RemoteFields, ConstantsAssumption DEF Told
<1>b. Whole(base) /\ lww \in Int /\ lww > 0
  BY ConstantsAssumption DEF StillThere, Whole
<1>1. /\ merged \in Work /\ Written(merged, E) /\ Whole(merged)
      /\ merged = Nothing => base = Nothing
      /\ Newest(base) <= Newest(merged)
      /\ r.cat.op = "upsert" => /\ Newest(r.tree) <= Newest(merged)
                                /\ merged = Nothing => r.tree = Nothing
  <2>1. CASE r.cat.op = "upsert"
    <3>1. Whole(r.tree)
      BY <2>1 DEF Told
    <3> QED BY <1>0, <1>b, <2>1, <3>1, Works, MergeTold
  <2>2. CASE r.cat.op # "upsert"
    <3>1. Newest(base) \in 0..MaxStamp
      BY NewestBounds
    <3> QED BY <1>b, <2>2, <3>1, ConstantsAssumption
  <2> QED BY <2>1, <2>2
<1>2. /\ last \in Int /\ last \in 0..MaxStamp
      /\ Newest(merged) \in Int /\ Newest(merged) >= 0 /\ Newest(r.tree) \in Int
      /\ Newest(base) \in Int
  BY <1>0, <1>1, NewestBounds, ConstantsAssumption
<1>3. /\ TargetTold(done, E, D)
      /\ [done EXCEPT !.act = "delete", !.expect = lww].files = merged
      /\ [done EXCEPT !.act = "delete", !.expect = lww].expect = lww
  <2> HIDE DEF merged
  <2>1. /\ done.files = merged /\ done.act = t.act /\ done.expect = t.expect
        /\ [done EXCEPT !.act = "delete", !.expect = lww].files = merged
        /\ [done EXCEPT !.act = "delete", !.expect = lww].expect = lww
    BY DEF Target
  <2> QED BY <1>1, <2>1 DEF TargetTold
<1>4. /\ merged = Nothing => last = lww /\ Newest(merged) = 0 /\ base = Nothing
      /\ merged # Nothing => last = Newest(merged)
  BY <1>1, NewestIs
<1>5. merged = Nothing => DeletedAfter(lww, D)
  <2> HAVE merged = Nothing
  <2>1. base[Main] = 0
    BY <1>4, ConstantsAssumption DEF Nothing
  <2> QED BY <2>1 DEF StillThere
<1> HIDE DEF merged, last, done
<1>6. CASE r.cat.op = "none" \/ last > r.cat.at
  <2> DEFINE q == [cat |-> Upsert(last), tree |-> merged]
  <2>1. Live(r, t, base, lww) = Outcome(q, done)
    BY <1>0, <1>2, <1>6, ConstantsAssumption, SMTT(30)
    DEF Live, merged, last, done, Upsert
  <2>2. Upsert(last) \in Record /\ Upsert(last).op = "upsert" /\ Upsert(last).at = last
    BY <1>2 DEF Upsert, Record
  <2>3. \/ merged # Nothing /\ Newest(merged) = last
        \/ Newest(merged) < last /\ DeletedAfter(last, D)
    BY <1>b, <1>4, <1>5
  <2>4. Told(q, E, D)
    BY <1>1, <2>2, <2>3, ToldFields
  <2> HIDE DEF q
  <2> QED BY <1>3, <2>1, <2>4 DEF Outcome
<1>7. CASE ~(r.cat.op = "none" \/ last > r.cat.at) /\ r.cat = Upsert(last)
  <2>1. Live(r, t, base, lww) = Outcome(r, done)
    BY <1>0, <1>2, <1>7, ConstantsAssumption, SMTT(30)
    DEF Live, merged, last, done, Upsert
  <2> QED BY <1>3, <2>1 DEF Outcome
<1>8. CASE r.cat.op = "upsert" /\ last < r.cat.at
  <2> DEFINE q == [cat |-> r.cat, tree |-> merged]
  <2>0. r = [cat |-> r.cat, tree |-> r.tree]
    BY RemoteFields
  <2>1. Live(r, t, base, lww) = Outcome([r EXCEPT !.tree = merged], done)
    BY <1>0, <1>2, <1>8, ConstantsAssumption, SMTT(30)
    DEF Live, merged, last, done, Upsert
  <2>2. [r EXCEPT !.tree = merged] = q
    BY <2>0
  <2>3. Newest(merged) < r.cat.at
    BY <1>0, <1>b, <1>2, <1>4, <1>8
  <2>4. DeletedAfter(r.cat.at, D)
    <3>1. Newest(r.tree) < r.cat.at
      BY <1>0, <1>1, <1>2, <1>8, <2>3
    <3> QED BY <1>0, <1>2, <1>8, <3>1 DEF Told
  <2>5. Told(q, E, D)
    BY <1>0, <1>1, <1>8, <2>3, <2>4, ToldFields
  <2> HIDE DEF q
  <2> QED BY <1>3, <2>1, <2>2, <2>5 DEF Outcome
<1>9. CASE /\ ~(r.cat.op = "none" \/ last > r.cat.at) /\ r.cat # Upsert(last)
           /\ ~(r.cat.op = "upsert" /\ last < r.cat.at)
  <2>1. r.cat.op = "delete"
    BY <1>0, <1>2, <1>9, ConstantsAssumption DEF Upsert
  <2>2. Live(r, t, base, lww) =
          Outcome(Cleared(r), [done EXCEPT !.act = "delete", !.expect = lww])
    BY <1>0, <1>2, <1>9, <2>1, ConstantsAssumption, SMTT(30)
    DEF Live, merged, last, done, Upsert
  <2>3. Told(Cleared(r), E, D)
    BY <2>1, ClearedTold
  <2>4. lww <= last
    <3>1. CASE merged = Nothing
      BY <1>b, <1>4, <3>1
    <3>2. CASE merged # Nothing
      <4>1. merged = base
        BY <2>1 DEF merged
      <4> QED BY <1>b, <1>2, <1>4, <3>2, <4>1 DEF StillThere
    <3> QED BY <3>1, <3>2
  <2>5. r.cat.at \in D /\ last <= r.cat.at
    BY <1>0, <1>2, <1>9, <2>1 DEF Told
  <2>6. lww # r.cat.at
    BY <1>b, <2>5 DEF Stamped
  <2>7. DeletedAfter(lww, D)
    <3>1. r.cat.at > lww
      BY <1>0, <1>b, <1>2, <2>4, <2>5, <2>6
    <3> QED BY <2>5, <3>1 DEF DeletedAfter
  <2> DEFINE u == [done EXCEPT !.act = "delete", !.expect = lww]
  <2>8. TargetTold(u, E, D)
    <3>1. u.files = merged /\ u.expect = lww
      BY <1>3
    <3> HIDE DEF u
    <3> QED BY <1>1, <2>7, <3>1 DEF TargetTold
  <2> HIDE DEF u
  <2> QED BY <2>2, <2>3, <2>8 DEF Outcome, u
<1> QED BY <1>6, <1>7, <1>8, <1>9

\* The target of a work the record says is deleted.
LEMMA DeleteLocalTold ==
  ASSUME NEW E, NEW D, NEW r \in Remote, Told(r, E, D),
         NEW t \in Target, TargetTold(t, E, D),
         NEW base \in Work, Written(base, E), NEW lww, DeletedAfter(lww, D)
  PROVE  LET o == DeleteLocal(r, t, base, lww)
         IN  Told(o.out, E, D) /\ TargetTold(o.to, E, D)
<1>0. /\ r.cat.op \in {"none", "upsert", "delete"} /\ r.tree \in Work
      /\ Written(r.tree, E)
  BY RemoteFields DEF Told
<1>1. Written(Download(r, base), E)
  BY <1>0 DEF Written, Download
<1>2. CASE r.cat.op = "none"
  BY <1>2 DEF DeleteLocal, Outcome, TargetTold, Target
<1>3. CASE r.cat.op = "upsert"
  BY <1>1, <1>3 DEF DeleteLocal, Outcome, TargetTold, Target
<1>4. CASE r.cat.op = "delete"
  <2>1. Told(Cleared(r), E, D)
    BY <1>4, ClearedTold
  <2> QED BY <1>4, <2>1 DEF DeleteLocal, Outcome, TargetTold, Target
<1> QED BY <1>0, <1>2, <1>3, <1>4

\* The target of a work to restore: a copy that came back since is deleted
\* only if its last write is before the tombstone.
LEMMA RestoreTold ==
  ASSUME NEW E, NEW D, Stamped(E, D), NEW r \in Remote, Told(r, E, D),
         NEW t \in Target, TargetTold(t, E, D),
         NEW here \in Work, Written(here, E)
  PROVE  LET o == Restore(r, t, here)
         IN  Told(o.out, E, D) /\ TargetTold(o.to, E, D)
<1>0. /\ r.cat.op \in {"none", "upsert", "delete"} /\ r.tree \in Work
      /\ Written(r.tree, E) /\ r.cat.at \in 0..MaxStamp
  BY RemoteFields DEF Told
<1>a. Newest(here) \in Int /\ r.cat.at \in Int /\ 0 \notin D
  <2>1. Newest(here) \in 0..MaxStamp
    BY NewestBounds
  <2>2. D \subseteq 1..MaxStamp
    BY DEF Stamped, Stamps
  <2> QED BY <1>0, <2>1, <2>2, ConstantsAssumption
<1>1. CASE r.cat.op = "none"
  BY <1>1 DEF Restore, Outcome, TargetTold, Target
<1>2. CASE r.cat.op = "upsert"
  BY <1>0, <1>2 DEF Restore, Outcome, TargetTold, Target
<1>3. CASE r.cat.op = "delete" /\ here = Nothing
  <2>1. Told(Cleared(r), E, D)
    BY <1>3, ClearedTold
  <2> QED BY <1>3, <2>1 DEF Restore, Outcome, TargetTold, Target
<1>4. CASE r.cat.op = "delete" /\ here # Nothing
  <2> DEFINE u == [t EXCEPT
                   !.act = IF Newest(here) > r.cat.at THEN "none" ELSE "delete",
                   !.expect = Newest(here)]
  <2>1. Restore(r, t, here) = Outcome(r, u)
    BY <1>4 DEF Restore
  <2>2. /\ u.files = t.files /\ u.expect = Newest(here)
        /\ u.act = "delete" => Newest(here) <= r.cat.at
    BY <1>a DEF Target
  <2>3. Newest(here) # r.cat.at
    <3>1. r.cat.at \in D /\ Newest(here) \in E \union {0}
      BY <1>4, NewestIs DEF Told
    <3> QED BY <1>a, <3>1 DEF Stamped
  <2>4. Newest(here) <= r.cat.at => DeletedAfter(Newest(here), D)
    <3>1. Newest(here) <= r.cat.at => r.cat.at > Newest(here)
      BY <1>a, <2>3
    <3> QED BY <1>4, <3>1 DEF DeletedAfter, Told
  <2> HIDE DEF u
  <2> QED BY <2>1, <2>2, <2>4 DEF Outcome, TargetTold
<1> QED BY <1>0, <1>1, <1>2, <1>3, <1>4

\* The target of a work that is neither here nor queued.
LEMMA CleanupTold ==
  ASSUME NEW E, NEW D, NEW r \in Remote, Told(r, E, D),
         NEW t \in Target, TargetTold(t, E, D), NEW seen
  PROVE  LET o == Cleanup(r, t, seen)
         IN  Told(o.out, E, D) /\ TargetTold(o.to, E, D)
<1>1. r.cat.op = "delete" => Told(Cleared(r), E, D)
  BY ClearedTold
<1> QED BY <1>1 DEF Cleanup, Outcome, TargetTold, Target

\* The target of a queued deletion: its tombstone is a user's.
LEMMA DeleteRemoteTold ==
  ASSUME NEW E, NEW D, Stamped(E, D), NEW r \in Remote, Told(r, E, D),
         NEW t \in Target, TargetTold(t, E, D), NEW s \in D, s \in 0..MaxStamp
  PROVE  LET o == DeleteRemote(r, t, s)
         IN  Told(o.out, E, D) /\ TargetTold(o.to, E, D)
<1> DEFINE wins == r.cat.op = "none" \/ s > r.cat.at
           done == [t EXCEPT !.status = "success", !.answers = TRUE]
           c == IF wins THEN Tombstone(s) ELSE r.cat
<1>0. /\ r.cat \in Record /\ r.tree \in Work /\ Written(r.tree, E)
      /\ Nothing \in Work /\ Written(Nothing, E)
  BY RemoteFields, NoJobType DEF Told, Written, Nothing
<1>1. TargetTold(done, E, D) /\ TargetTold([done EXCEPT !.files = r.tree], E, D)
  BY <1>0 DEF TargetTold, Target
<1> HIDE DEF done
<1>2. CASE r.cat.op = "upsert" /\ ~wins
  BY <1>1, <1>2 DEF DeleteRemote, Outcome, done
<1>3. CASE ~(r.cat.op = "upsert" /\ ~wins)
  <2>1. DeleteRemote(r, t, s) = Outcome([cat |-> c, tree |-> Nothing], done)
    BY <1>3 DEF DeleteRemote, done
  <2>2. c \in Record /\ c.op # "upsert" /\ (c.op = "delete" => c.at \in D)
    BY <1>0, <1>3 DEF Tombstone, Record, Told
  <2> HIDE DEF c
  <2>3. Told([cat |-> c, tree |-> Nothing], E, D)
    BY <1>0, <2>2, ToldFields
  <2> QED BY <1>1, <2>1, <2>3 DEF Outcome
<1> QED BY <1>2, <1>3

\* The transfer of any target.
LEMMA TransferTold ==
  ASSUME TypeOK, HInv, NEW d \in Devices, NEW t \in Target, NEW r \in Remote,
         Told(r, edits, deletions), TargetTold(t, edits, deletions),
         t.kind = "live" => StillThere(local[d], job[d].lww, deletions),
         t.kind = "deleteLocal" => DeletedAfter(job[d].lww, deletions),
         t.kind = "deleteRemote" => job[d].deleted # 0
  PROVE  /\ Told(TransferOf(d, t, r).out, edits, deletions)
         /\ TargetTold(TransferOf(d, t, r).to, edits, deletions)
<1>1. /\ local[d] \in Work /\ job[d].lww \in 0..MaxStamp
      /\ job[d].deleted \in 0..MaxStamp /\ job[d].seen \in Remote
      /\ Stamped(edits, deletions) /\ Written(local[d], edits)
      /\ job[d].lww \in edits \union {0} /\ job[d].deleted \in deletions \union {0}
  BY DEF TypeOK, Job, HInv, JobTold
<1>4. CASE t.kind = "live"
  <2>1. Seed(d, t) = local[d]
    BY <1>4 DEF Seed
  <2> QED BY <1>1, <1>4, <2>1, LiveTold DEF TransferOf
<1>5. CASE t.kind = "deleteLocal"
  <2>1. Seed(d, t) = local[d]
    BY <1>5 DEF Seed
  <2> QED BY <1>1, <1>5, <2>1, DeleteLocalTold DEF TransferOf
<1>6. CASE t.kind = "restore"
  BY <1>1, <1>6, RestoreTold DEF TransferOf
<1>7. CASE t.kind = "cleanup"
  BY <1>7, CleanupTold DEF TransferOf
<1>8. CASE t.kind = "deleteRemote"
  BY <1>1, <1>8, DeleteRemoteTold DEF TransferOf
<1>9. CASE t.kind = "none"
  BY <1>9 DEF TransferOf, Outcome
<1> QED BY <1>4, <1>5, <1>6, <1>7, <1>8, <1>9 DEF Target, Kinds

\* A failed target deletes nothing; a planned one has nothing to delete yet.
LEMMA IdleTargets ==
  ASSUME NEW E, NEW D
  PROVE  /\ \A t \in Target : TargetTold(t, E, D) => TargetTold(Failed(t), E, D)
         /\ \A k : TargetTold(Planned(k), E, D)
         /\ Written(Nothing, E)
BY DEF TargetTold, Failed, Planned, Target, Written, Nothing

\* What writes and deletions explain, more of them explain.
LEMMA ToldGrows ==
  ASSUME NEW E, NEW D, NEW F, NEW G, E \subseteq F, D \subseteq G
  PROVE  /\ \A w : Written(w, E) => Written(w, F)
         /\ \A n : DeletedAfter(n, D) => DeletedAfter(n, G)
         /\ \A r : Told(r, E, D) => Told(r, F, G)
         /\ \A j : JobTold(j, E, D) => JobTold(j, F, G)
         /\ \A w, n : StillThere(w, n, D) => StillThere(w, n, G)
<1>1. \A w : Written(w, E) => Written(w, F)
  BY DEF Written
<1>2. \A n : DeletedAfter(n, D) => DeletedAfter(n, G)
  BY DEF DeletedAfter
<1>3. \A r : Told(r, E, D) => Told(r, F, G)
  BY <1>1, <1>2 DEF Told
<1>4. \A t : TargetTold(t, E, D) => TargetTold(t, F, G)
  BY <1>1, <1>2 DEF TargetTold
<1>5. \A j : JobTold(j, E, D) => JobTold(j, F, G)
  BY <1>1, <1>2, <1>3, <1>4 DEF JobTold
<1>6. \A w, n : StillThere(w, n, D) => StillThere(w, n, G)
  BY <1>2 DEF StillThere
<1> QED BY <1>1, <1>2, <1>3, <1>5, <1>6

\* An idle round has nothing to explain.
LEMMA NoJobTold ==
  ASSUME NEW E, NEW D
  PROVE  JobTold(NoJob, E, D) /\ NoJob.own.kind = "none"
<1>1. /\ NoJob.own = Planned("none") /\ NoJob.queued = Planned("none")
      /\ NoJob.seen = [cat |-> NoRecord, tree |-> Nothing]
      /\ NoJob.out = [cat |-> NoRecord, tree |-> Nothing]
      /\ NoJob.base = Nothing /\ NoJob.lww = 0 /\ NoJob.deleted = 0
  BY DEF NoJob
<1>2. Planned("none").kind = "none"
  BY DEF Planned
<1>3. Told([cat |-> NoRecord, tree |-> Nothing], E, D)
  BY IdleTargets DEF Told, NoRecord
<1> HIDE DEF NoJob
<1> QED BY <1>1, <1>2, <1>3, IdleTargets DEF JobTold

\* The first copies, and the remote that has them or nothing.
LEMMA HistoryInit == Init => HInv
<1> SUFFICES ASSUME Init PROVE HInv
  OBVIOUS
<1>1. Stamped(edits, deletions) /\ edits = {1} /\ deletions = {}
  BY ConstantsAssumption DEF Init, Stamped, Stamps
<1>2. FirstCopy \in Work /\ FirstCopy[Main] = 1 /\ Written(FirstCopy, edits)
      /\ Written(Nothing, edits) /\ Nothing \in Work
  BY <1>1, ConstantsAssumption DEF FirstCopy, Nothing, Work, Written
<1>3. Newest(FirstCopy) = 1 /\ FirstCopy # Nothing
  <2>1. PICK f \in Files : Newest(FirstCopy) = FirstCopy[f]
    BY <1>2, NewestIs
  <2>2. FirstCopy[f] \in {0, 1} /\ FirstCopy[Main] <= Newest(FirstCopy)
    BY <1>2, NewestBounds, ConstantsAssumption DEF FirstCopy
  <2>3. Newest(FirstCopy) = 1
    BY <1>2, <2>1, <2>2
  <2>4. Nothing[Main] = 0
    BY ConstantsAssumption DEF Nothing
  <2> QED BY <1>2, <2>3, <2>4
<1> HIDE DEF FirstCopy, Nothing
<1>4. Told(remote, edits, deletions)
  <2>1. CASE remote = [cat |-> Upsert(1), tree |-> FirstCopy]
    <3>1. Upsert(1).op = "upsert" /\ Upsert(1).at = 1
      BY DEF Upsert
    <3>2. remote.cat = Upsert(1) /\ remote.tree = FirstCopy
      BY <2>1
    <3> QED BY <1>2, <1>3, <3>1, <3>2 DEF Told, Whole
  <2>2. CASE remote = [cat |-> NoRecord, tree |-> Nothing]
    BY <1>2, <2>2 DEF Told, NoRecord
  <2> QED BY <2>1, <2>2 DEF Init
<1>5. ASSUME NEW d \in Devices
      PROVE  /\ Written(local[d], edits) /\ journal[d] = 0 /\ pending[d] = 0
             /\ JobTold(job[d], edits, deletions) /\ pc[d] = "idle"
  <2>1. local[d] \in {FirstCopy, Nothing}
    BY <1>5 DEF Init
  <2>2. job[d] = NoJob /\ pc[d] = "idle" /\ journal[d] = 0 /\ pending[d] = 0
    BY <1>5 DEF Init
  <2> HIDE DEF NoJob
  <2> QED BY <1>2, <2>1, <2>2, NoJobTold
<1> QED BY <1>1, <1>4, <1>5 DEF HInv

\* A device's part of the invariant, of its values.
DeviceTold(w, a, b, j, p, E, D) ==
  /\ Written(w, E) /\ a \in D \union {0} /\ b \in D \union {0}
  /\ JobTold(j, E, D)
  /\ p = "planned" /\ j.own.kind = "live" => StillThere(w, j.lww, D)

\* Devices keep their part when others write or delete.
LEMMA DevicesTold ==
  /\ HInv <=>
       /\ Stamped(edits, deletions) /\ Told(remote, edits, deletions)
       /\ \A e \in Devices : DeviceTold(local[e], journal[e], pending[e], job[e],
                                        pc[e], edits, deletions)
  /\ \A E, D, F, G : E \subseteq F /\ D \subseteq G =>
       \A w, a, b, j, p : DeviceTold(w, a, b, j, p, E, D) =>
                          DeviceTold(w, a, b, j, p, F, G)
<1>1. HInv <=>
       /\ Stamped(edits, deletions) /\ Told(remote, edits, deletions)
       /\ \A e \in Devices : DeviceTold(local[e], journal[e], pending[e], job[e],
                                        pc[e], edits, deletions)
  BY DEF HInv, DeviceTold
<1>2. ASSUME NEW E, NEW D, NEW F, NEW G, E \subseteq F, D \subseteq G,
             NEW w, NEW a, NEW b, NEW j, NEW p, DeviceTold(w, a, b, j, p, E, D)
      PROVE  DeviceTold(w, a, b, j, p, F, G)
  BY <1>2, ToldGrows DEF DeviceTold
<1> QED BY <1>1, <1>2

\* A step of one device that writes nothing: what the others have is as it was.
LEMMA OneDevice ==
  ASSUME HInv, NEW d \in Devices, UNCHANGED <<edits, deletions>>,
         Told(remote', edits, deletions),
         \A e \in Devices : e # d =>
           /\ local'[e] = local[e] /\ journal'[e] = journal[e]
           /\ pending'[e] = pending[e] /\ job'[e] = job[e] /\ pc'[e] = pc[e],
         DeviceTold(local'[d], journal'[d], pending'[d], job'[d], pc'[d],
                    edits, deletions)
  PROVE  HInv'
<1>1. /\ Stamped(edits', deletions') /\ Told(remote', edits', deletions')
      /\ \A e \in Devices : DeviceTold(local'[e], journal'[e], pending'[e], job'[e],
                                       pc'[e], edits', deletions')
  BY DevicesTold
<1> QED BY <1>1 DEF HInv, DeviceTold

\* A write or a deletion of a user: the round that has planned the work knows.
LEMMA UserTold ==
  ASSUME TypeOK, HInv, NEW d \in Devices, User(d)
  PROVE  HInv'
<1>1. /\ UNCHANGED <<remote, pending, job, pc>>
      /\ \A e \in Devices : e # d => local'[e] = local[e] /\ journal'[e] = journal[e]
      /\ local[d] \in Work /\ local[d][Main] # 0
      /\ Written(local[d], edits) /\ Stamped(edits, deletions)
  BY DEF User, Edit, Delete, Exists, roundVars, TypeOK, HInv
<1>2. Newest(local[d]) \in 0..MaxStamp /\ Newest(local[d]) # 0
  <2>1. local[d] # Nothing
    BY <1>1, ConstantsAssumption DEF Nothing
  <2> QED BY <1>1, <2>1, NewestBounds, NewestIs
<1>3. /\ DeviceTold(local[d], journal[d], pending[d], job[d], pc[d], edits, deletions)
      /\ pc[d] = "planned" /\ job[d].own.kind = "live" =>
           job[d].lww > 0 /\ job[d].lww <= Newest(local[d])
  <2>1. local[d] # Nothing
    BY <1>1, ConstantsAssumption DEF Nothing
  <2> QED BY <2>1, DevicesTold DEF DeviceTold, StillThere
<1>4. job[d].lww \in 0..MaxStamp
  BY DEF TypeOK, Job
<1>5. ASSUME NEW s \in Stamps, Stamped(edits', deletions'),
             edits \subseteq edits', deletions \subseteq deletions',
             DeviceTold(local'[d], journal'[d], pending[d], job[d], pc[d],
                        edits', deletions')
      PROVE  HInv'
  <2>1. Told(remote', edits', deletions')
    BY <1>1, <1>5, ToldGrows DEF HInv
  <2>2. \A e \in Devices : e # d =>
          DeviceTold(local'[e], journal'[e], pending'[e], job'[e], pc'[e],
                     edits', deletions')
    BY <1>1, <1>5, DevicesTold
  <2>3. \A e \in Devices :
          DeviceTold(local'[e], journal'[e], pending'[e], job'[e], pc'[e],
                     edits', deletions')
    BY <1>1, <1>5, <2>2
  <2> QED BY <1>5, <2>1, <2>3 DEF HInv, DeviceTold
<1>6. ASSUME NEW f \in Files, NEW s \in Stamps, Edit(d, f, s)
      PROVE  HInv'
  <2>1. /\ local'[d] = [local[d] EXCEPT ![f] = s] /\ journal' = journal
        /\ edits' = edits \union {s} /\ deletions' = deletions
        /\ s \notin edits \union deletions /\ s > Newest(local[d])
    BY <1>6 DEF Edit, Unused, TypeOK
  <2>2. Stamped(edits', deletions') /\ s \in 1..MaxStamp
    BY <1>1, <2>1 DEF Stamped, Stamps
  <2>3. /\ local'[d] \in Work /\ Written(local'[d], edits') /\ local'[d][f] = s
        /\ local'[d][Main] # 0
    BY <1>1, <2>1, <2>2, ConstantsAssumption DEF Work, Written
  <2>4. Newest(local'[d]) >= s /\ Newest(local'[d]) \in 0..MaxStamp
    BY <2>3, NewestBounds
  <2>5. pc[d] = "planned" /\ job[d].own.kind = "live" =>
          StillThere(local'[d], job[d].lww, deletions')
    <3> HAVE pc[d] = "planned" /\ job[d].own.kind = "live"
    <3>1. job[d].lww <= Newest(local'[d])
      BY <1>2, <1>3, <1>4, <2>1, <2>2, <2>4, ConstantsAssumption
    <3> QED BY <1>3, <2>3, <3>1 DEF StillThere
  <2>6. DeviceTold(local[d], journal[d], pending[d], job[d], pc[d], edits', deletions')
    BY <1>3, <2>1, DevicesTold
  <2>7. DeviceTold(local'[d], journal'[d], pending[d], job[d], pc[d], edits', deletions')
    BY <2>1, <2>3, <2>5, <2>6 DEF DeviceTold
  <2> QED BY <1>5, <2>1, <2>2, <2>7
<1>7. ASSUME NEW s \in Stamps, Delete(d, s)
      PROVE  HInv'
  <2>1. /\ local'[d] = Nothing /\ journal'[d] = s
        /\ edits' = edits /\ deletions' = deletions \union {s}
        /\ s \notin edits \union deletions /\ s > Newest(local[d])
    BY <1>7 DEF Delete, Unused, TypeOK
  <2>2. Stamped(edits', deletions') /\ s \in 1..MaxStamp
    BY <1>1, <2>1 DEF Stamped, Stamps
  <2>3. pc[d] = "planned" /\ job[d].own.kind = "live" =>
          StillThere(local'[d], job[d].lww, deletions')
    <3> HAVE pc[d] = "planned" /\ job[d].own.kind = "live"
    <3>1. s > job[d].lww
      BY <1>2, <1>3, <1>4, <2>1, <2>2, ConstantsAssumption
    <3> QED BY <1>3, <2>1, <3>1 DEF StillThere, DeletedAfter
  <2>4. DeviceTold(local[d], journal[d], pending[d], job[d], pc[d], edits', deletions')
    BY <1>3, <2>1, DevicesTold
  <2>5. DeviceTold(local'[d], journal'[d], pending[d], job[d], pc[d], edits', deletions')
    BY <2>1, <2>3, <2>4, IdleTargets DEF DeviceTold
  <2> QED BY <1>5, <2>1, <2>2, <2>5
<1> QED BY <1>6, <1>7 DEF User

\* Planning notes what is there, and deletes only what was deleted since.
LEMMA PlanTold ==
  ASSUME TypeOK, HInv, NEW d \in Devices, Plan(d)
  PROVE  HInv'
<1> DEFINE j == [NoJob EXCEPT !.seen = remote, !.out = remote,
                   !.lww = Newest(local[d]), !.deleted = pending[d],
                   !.own = Planned(OwnKind(d)),
                   !.queued = Planned(QueuedKind(d))]
<1>1. /\ local[d] \in Work /\ Written(local[d], edits)
      /\ Newest(local[d]) \in 0..MaxStamp /\ Newest(local[d]) \in edits \union {0}
      /\ pending[d] \in deletions \union {0} /\ remote \in Remote
      /\ Told(remote, edits, deletions) /\ Stamped(edits, deletions)
  BY NewestBounds, NewestIs DEF TypeOK, HInv
<1>2. /\ j.seen = remote /\ j.out = remote /\ j.lww = Newest(local[d])
      /\ j.deleted = pending[d] /\ j.own = Planned(OwnKind(d))
      /\ j.queued = Planned(QueuedKind(d)) /\ j.base = Nothing
  BY DEF NoJob
<1>3. j.own.kind = OwnKind(d) /\ j.queued.kind = QueuedKind(d)
  BY <1>2 DEF Planned
<1>4. OwnKind(d) # "deleteRemote"
  BY DEF OwnKind
<1>5. QueuedKind(d) = "deleteRemote" => pending[d] # 0
  BY DEF QueuedKind
<1>6. OwnKind(d) \in {"live", "deleteLocal"} => Exists(d)
  BY DEF OwnKind
<1>7. OwnKind(d) = "deleteLocal" => DeletedAfter(Newest(local[d]), deletions)
  <2> HAVE OwnKind(d) = "deleteLocal"
  <2>1. remote.cat.op = "delete" /\ Newest(local[d]) <= remote.cat.at
    BY DEF OwnKind
  <2>2. remote.cat.at \in deletions
    BY <1>1, <2>1 DEF Told
  <2>3. Newest(local[d]) # remote.cat.at /\ remote.cat.at \in 1..MaxStamp
    <3>1. deletions \subseteq 1..MaxStamp /\ edits \intersect deletions = {}
      BY <1>1 DEF Stamped, Stamps
    <3>2. remote.cat.at \in 1..MaxStamp /\ remote.cat.at # 0
      <4>1. remote.cat.at \in 1..MaxStamp
        BY ONLY <2>2, <3>1
      <4>2. 0 \notin 1..MaxStamp
        BY ConstantsAssumption
      <4> QED BY <4>1, <4>2
    <3>3. Newest(local[d]) \in edits \/ Newest(local[d]) = 0
      BY <1>1
    <3> QED BY <2>2, <3>1, <3>2, <3>3
  <2>4. remote.cat.at > Newest(local[d])
    BY <1>1, <2>1, <2>3, ConstantsAssumption
  <2> QED BY <2>2, <2>4 DEF DeletedAfter
<1>8. OwnKind(d) = "live" => StillThere(local[d], Newest(local[d]), deletions)
  <2> HAVE OwnKind(d) = "live"
  <2>1. local[d][Main] # 0 /\ local[d] # Nothing
    BY <1>6, ConstantsAssumption DEF Exists, Nothing
  <2>2. Newest(local[d]) # 0
    BY <1>1, <2>1, NewestIs
  <2> QED BY <1>1, <2>1, <2>2, ConstantsAssumption DEF StillThere
<1>9. /\ job' = [job EXCEPT ![d] = j] /\ pc' = [pc EXCEPT ![d] = "planned"]
      /\ UNCHANGED <<remote, local, journal, pending, edits, deletions>>
  BY DEF Plan, userVars
<1> HIDE DEF j
<1>10. JobTold(j, edits, deletions)
  BY <1>1, <1>2, <1>3, <1>4, <1>5, <1>7, IdleTargets DEF JobTold
<1>11. DeviceTold(local[d], journal[d], pending[d], j, "planned", edits, deletions)
  BY <1>1, <1>2, <1>3, <1>8, <1>10 DEF DeviceTold, HInv
<1> QED BY <1>1, <1>9, <1>11, OneDevice DEF TypeOK

\* The transfer of both targets.
LEMMA TransferStepTold ==
  ASSUME IInv, HInv, NEW d \in Devices, NEW current, NEW broken,
         Transfer(d, current, broken)
  PROVE  HInv'
<1> USE DEF IInv
<1> DEFINE j == job[d]
           first == Reads(d, j.own, current)
           own == TransferOf(d, j.own, first)
           second == IF own.out # first THEN own.out
                     ELSE Reads(d, j.queued, current)
           queued == TransferOf(d, j.queued, second)
           ownTo == IF broken = "own" THEN Failed(own.to) ELSE own.to
           queuedTo == IF broken = "queued" THEN Failed(queued.to)
                       ELSE queued.to
           base == Seed(d, j.own)
           wrote == own.out # first \/ queued.out # second
           blocked == broken # "no"
           k == [j EXCEPT !.base = base, !.out = queued.out, !.wrote = wrote,
                   !.own = ownTo, !.queued = queuedTo, !.blocked = blocked]
<1>1. /\ j \in Job /\ j.seen \in Remote /\ Gone(j.seen)
      /\ j.own \in Target /\ j.queued \in Target
      /\ j.queued.kind \in {"none", "restore", "deleteRemote"}
  BY DEF TypeOK, Job, RoundsAdvance
<1>2. JobTold(j, edits, deletions) /\ pc[d] = "planned"
  BY DEF HInv, Transfer
<1>3. /\ current \in Remote /\ Gone(current) /\ Told(current, edits, deletions)
  BY <1>1, <1>2 DEF TypeOK, Transfer, RoundsAdvance, HInv, JobTold
<1>4. \A t : /\ Reads(d, t, current) \in Remote /\ Gone(Reads(d, t, current))
             /\ Told(Reads(d, t, current), edits, deletions)
  BY <1>1, <1>2, <1>3 DEF Reads, JobTold
<1>5. /\ Sound(own, first, j.own)
      /\ Told(own.out, edits, deletions) /\ TargetTold(own.to, edits, deletions)
  <2>1. /\ TargetTold(j.own, edits, deletions)
        /\ j.own.kind = "live" => StillThere(local[d], j.lww, deletions)
        /\ j.own.kind = "deleteLocal" => DeletedAfter(j.lww, deletions)
        /\ j.own.kind # "deleteRemote"
    BY <1>2 DEF HInv, JobTold
  <2>2. first \in Remote /\ Gone(first) /\ Told(first, edits, deletions)
    BY <1>4
  <2> HIDE DEF first
  <2> QED BY <1>1, <2>1, <2>2, TransferSound, TransferTold
<1>6. second \in Remote /\ Gone(second) /\ Told(second, edits, deletions)
  <2>1. CASE own.out # first
    BY <1>5, <2>1 DEF Sound
  <2>2. CASE own.out = first
    BY <1>4, <2>2
  <2> QED BY <2>1, <2>2
<1>7. /\ Sound(queued, second, j.queued)
      /\ Told(queued.out, edits, deletions) /\ TargetTold(queued.to, edits, deletions)
  <2>1. /\ TargetTold(j.queued, edits, deletions)
        /\ j.queued.kind = "deleteRemote" => j.deleted # 0
    BY <1>2 DEF JobTold
  <2> HIDE DEF second
  <2> QED BY <1>1, <1>6, <2>1, TransferSound, TransferTold
<1> HIDE DEF first, own, second, queued
<1>8. /\ TargetTold(ownTo, edits, deletions) /\ TargetTold(queuedTo, edits, deletions)
      /\ ownTo.kind = j.own.kind /\ queuedTo.kind = j.queued.kind
  BY <1>5, <1>7, IdleTargets, FailedTarget DEF Sound
<1>9. Written(base, edits)
  BY IdleTargets DEF Seed, HInv
<1>10. /\ job' = [job EXCEPT ![d] = k] /\ pc' = [pc EXCEPT ![d] = "transferred"]
       /\ UNCHANGED <<remote, local, journal, pending, edits, deletions>>
  BY DEF Transfer, first, own, second, queued, userVars
<1> HIDE DEF ownTo, queuedTo, base, wrote, blocked
<1>11. /\ k.seen = j.seen /\ k.out = queued.out /\ k.base = base /\ k.own = ownTo
       /\ k.queued = queuedTo /\ k.lww = j.lww /\ k.deleted = j.deleted
  BY <1>1 DEF Job
<1> HIDE DEF k
<1>12. JobTold(k, edits, deletions)
  BY <1>2, <1>7, <1>8, <1>9, <1>11 DEF JobTold
<1>13. DeviceTold(local[d], journal[d], pending[d], k, "transferred", edits, deletions)
  BY <1>12 DEF DeviceTold, HInv
<1>14. Told(remote, edits, deletions)
  BY DEF HInv
<1> QED BY <1>10, <1>13, <1>14, OneDevice DEF TypeOK

\* A commit writes what was written, and deletes no more than was planned.
LEMMA CommitTold ==
  ASSUME NEW E, NEW D, NEW w \in Work, NEW t \in Target, NEW base \in Work,
         Written(w, E), Written(base, E), TargetTold(t, E, D)
  PROVE  /\ Written(CommitTarget(w, t, base), E)
         /\ TargetTold(CommitStatus(w, t), E, D)
<1>1. Written(t.files, E)
  BY DEF TargetTold
<1>2. ASSUME NEW u \in E \union {0}, NEW v \in E \union {0}, NEW x \in E \union {0}
      PROVE  CommitFile(u, v, x) \in E \union {0}
  BY DEF CommitFile, Later
<1>3. Written([f \in Files |-> CommitFile(w[f], base[f], t.files[f])], E)
  BY <1>1, <1>2 DEF Written
<1> QED BY <1>1, <1>3, IdleTargets DEF CommitTarget, CommitStatus

\* The staging directories are committed, or fail to be.
LEMMA CommitStepTold ==
  ASSUME TypeOK, HInv, NEW d \in Devices, Commit(d) \/ CommitFails(d)
  PROVE  HInv'
<1> DEFINE j == job[d]
           first == CommitTarget(local[d], j.own, j.base)
           second == CommitTarget(first, j.queued, Nothing)
<1>1. /\ j \in Job /\ j.own \in Target /\ j.queued \in Target
      /\ j.base \in Work /\ local[d] \in Work /\ Nothing \in Work
      /\ Written(local[d], edits) /\ JobTold(j, edits, deletions)
      /\ journal[d] \in deletions \union {0} /\ pending[d] \in deletions \union {0}
      /\ Told(remote, edits, deletions)
  BY NoJobType DEF TypeOK, Job, HInv
<1>2. /\ UNCHANGED <<remote, journal, pending, edits, deletions>>
      /\ pc' = [pc EXCEPT ![d] = "committed"]
  BY DEF Commit, CommitFails, userVars
<1>3. ASSUME NEW w, NEW own, NEW queued, Written(w, edits),
             TargetTold(own, edits, deletions), TargetTold(queued, edits, deletions),
             own.kind = j.own.kind, queued.kind = j.queued.kind,
             local' = [local EXCEPT ![d] = w],
             job' = [job EXCEPT ![d] = [j EXCEPT !.own = own, !.queued = queued]]
      PROVE  HInv'
  <2> DEFINE k == [j EXCEPT !.own = own, !.queued = queued]
  <2>1. /\ k.seen = j.seen /\ k.out = j.out /\ k.base = j.base /\ k.own = own
        /\ k.queued = queued /\ k.lww = j.lww /\ k.deleted = j.deleted
    BY <1>1 DEF Job
  <2>2. job' = [job EXCEPT ![d] = k]
    BY <1>3
  <2> HIDE DEF k
  <2>3. JobTold(k, edits, deletions)
    BY <1>1, <1>3, <2>1 DEF JobTold
  <2>4. DeviceTold(w, journal[d], pending[d], k, "committed", edits, deletions)
    BY <1>1, <1>3, <2>3 DEF DeviceTold
  <2> QED BY <1>1, <1>2, <1>3, <2>2, <2>4, OneDevice DEF TypeOK
<1>4. CASE Commit(d)
  <2> DEFINE own == CommitStatus(local[d], j.own)
  <2>1. Written(j.base, edits) /\ TargetTold(j.own, edits, deletions)
        /\ TargetTold(j.queued, edits, deletions) /\ Written(Nothing, edits)
    BY <1>1, IdleTargets DEF JobTold
  <2>2. /\ first \in Work /\ Written(first, edits)
        /\ TargetTold(own, edits, deletions) /\ own.kind = j.own.kind
    BY <1>1, <2>1, CommitWork, CommitTold
  <2>3. Written(second, edits)
    <3> HIDE DEF first
    <3> QED BY <1>1, <2>1, <2>2, CommitTold
  <2>4. /\ local' = [local EXCEPT ![d] = second]
        /\ job' = [job EXCEPT ![d].own = own]
    BY <1>4 DEF Commit, TypeOK
  <2> HIDE DEF own, second
  <2>5. job' = [job EXCEPT ![d] = [j EXCEPT !.own = own, !.queued = j.queued]]
    <3>1. [j EXCEPT !.own = own] = [j EXCEPT !.own = own, !.queued = j.queued]
      BY <1>1 DEF Job
    <3>2. job' = [job EXCEPT ![d] = [j EXCEPT !.own = own]]
      BY <2>4
    <3> QED BY <3>1, <3>2
  <2> QED BY <1>3, <2>1, <2>2, <2>3, <2>4, <2>5
<1>5. CASE CommitFails(d)
  <2> DEFINE own == Failed(j.own)
             queued == Failed(j.queued)
  <2>1. /\ TargetTold(own, edits, deletions) /\ TargetTold(queued, edits, deletions)
        /\ own.kind = j.own.kind /\ queued.kind = j.queued.kind
    BY <1>1, IdleTargets, FailedTarget DEF JobTold
  <2>2. /\ local' = local
        /\ job' = [job EXCEPT ![d] = [j EXCEPT !.own = own, !.queued = queued]]
    BY <1>5 DEF CommitFails, userVars, TypeOK
  <2>3. local' = [local EXCEPT ![d] = local[d]]
    BY <2>2 DEF TypeOK
  <2> HIDE DEF own, queued
  <2> QED BY <1>1, <1>3, <2>1, <2>2, <2>3
<1> QED BY <1>4, <1>5

\* Steps that stage nothing and publish what was buffered.
LEMMA PhaseTold ==
  ASSUME TypeOK, HInv, NEW d \in Devices, UNCHANGED <<edits, deletions>>,
         Told(remote', edits, deletions),
         \A e \in Devices : e # d =>
           /\ local'[e] = local[e] /\ journal'[e] = journal[e]
           /\ pending'[e] = pending[e] /\ job'[e] = job[e] /\ pc'[e] = pc[e],
         local'[d] \in {local[d], Nothing},
         journal'[d] \in {journal[d], 0}, pending'[d] \in {pending[d], journal[d], 0},
         job'[d] \in {job[d], NoJob},
         pc'[d] = "planned" => pc[d] = "planned" /\ local'[d] = local[d]
  PROVE  HInv'
<1>1. DeviceTold(local[d], journal[d], pending[d], job[d], pc[d], edits, deletions)
  BY DevicesTold
<1>2. Written(Nothing, edits) /\ JobTold(NoJob, edits, deletions)
      /\ NoJob.own.kind = "none"
  BY IdleTargets, NoJobTold
<1>3. DeviceTold(local'[d], journal'[d], pending'[d], job'[d], pc'[d], edits, deletions)
  <2> HIDE DEF NoJob, Nothing
  <2> QED BY <1>1, <1>2 DEF DeviceTold
<1> QED BY <1>3, OneDevice

\* Every step keeps what writes and deletions explain.
LEMMA HistoryStep ==
  ASSUME IInv, HInv, [Next]_vars
  PROVE  HInv'
<1>0. TypeOK /\ Told(remote, edits, deletions)
  BY DEF IInv, HInv
<1>1. CASE UNCHANGED vars
  <2>1. UNCHANGED <<remote, local, journal, pending, edits, deletions, pc, job>>
    BY <1>1 DEF vars, userVars, roundVars
  <2> QED BY <2>1 DEF HInv
<1>2. ASSUME NEW d \in Devices, User(d) PROVE HInv'
  BY <1>0, <1>2, UserTold
<1>3. ASSUME NEW d \in Devices, Plan(d) PROVE HInv'
  BY <1>0, <1>3, PlanTold
<1>4. ASSUME NEW d \in Devices, NEW current, NEW broken, Transfer(d, current, broken)
      PROVE  HInv'
  BY <1>4, TransferStepTold
<1>5. ASSUME NEW d \in Devices, Commit(d) \/ CommitFails(d) PROVE HInv'
  BY <1>0, <1>5, CommitStepTold
<1>6. ASSUME NEW d \in Devices, Publish(d) PROVE HInv'
  <2>1. Told(remote', edits, deletions)
    <3>1. Told(job[d].out, edits, deletions)
      BY DEF HInv, JobTold
    <3> QED BY <1>0, <1>6, <3>1 DEF Publish
  <2> QED BY <1>0, <1>6, <2>1, PhaseTold DEF Publish, userVars, TypeOK
<1>7. ASSUME NEW d \in Devices, Discard(d) \/ QueueDeletion(d) PROVE HInv'
  BY <1>0, <1>7, PhaseTold DEF Discard, QueueDeletion, userVars, roundVars, TypeOK
<1>8. ASSUME NEW d \in Devices, Refused(d) \/ RecordCheckpoint(d) \/ BreakOff(d)
      PROVE  HInv'
  <2> HIDE DEF NoJob
  <2> QED
    BY <1>0, <1>8, PhaseTold
    DEF Refused, RecordCheckpoint, BreakOff, End, userVars, TypeOK
<1>9. ASSUME NEW d \in Devices, Finalize(d) PROVE HInv'
  <2>1. /\ UNCHANGED <<remote, journal, edits, deletions>>
        /\ \A e \in Devices : e # d => local'[e] = local[e] /\ pending'[e] = pending[e]
        /\ local'[d] \in {local[d], Nothing} /\ pending'[d] \in {pending[d], 0}
    BY <1>0, <1>9 DEF Finalize, TypeOK
  <2>2. /\ \A e \in Devices : e # d => job'[e] = job[e] /\ pc'[e] = pc[e]
        /\ job'[d] \in {job[d], NoJob} /\ pc'[d] # "planned"
    <3> HIDE DEF NoJob
    <3> QED BY <1>0, <1>9 DEF Finalize, End, TypeOK
  <2> HIDE DEF NoJob, Nothing
  <2> QED BY <1>0, <2>1, <2>2, PhaseTold
<1> QED
  BY <1>1, <1>2, <1>3, <1>4, <1>5, <1>6, <1>7, <1>8, <1>9 DEF Next, Round

\* An upsert in the catalog announces a whole tree whose last write is the
\* record's, or less only after a deletion that came while it was copied,
\* whatever rounds of how many devices came between.
THEOREM TreeMatchesRecordHolds == Spec => []TreeMatchesRecord
<1>1. HInv => TreeMatchesRecord
  BY DEF HInv, Told, Whole, DeletedAfter, TreeMatchesRecord
<1>2. Init => IInv /\ HInv
  BY InitIInv, HistoryInit
<1>3. IInv /\ HInv /\ [Next]_vars => (IInv /\ HInv)'
  BY StepIInv, HistoryStep
<1> QED BY <1>1, <1>2, <1>3, PTL DEF Spec

\* A round deletes a work on a device only if some user deleted it after the
\* last write of the copy it deletes.
THEOREM RemovedByNewerDeletionHolds == Spec => RemovedByNewerDeletion
<1>1. IInv /\ HInv /\ [Next]_vars =>
        [\A d \in Devices :
           (pc[d] = "committed" /\ local'[d] = Nothing /\ local[d] # Nothing) =>
             \E s \in deletions' : s > Newest(local[d])]_vars
  <2> SUFFICES ASSUME IInv, HInv, Next, NEW d \in Devices,
                      pc[d] = "committed", local'[d] = Nothing, local[d] # Nothing
               PROVE  \E s \in deletions' : s > Newest(local[d])
    OBVIOUS
  <2>1. TypeOK /\ JobTold(job[d], edits, deletions)
    BY DEF IInv, HInv
  <2>2. PICK e \in Devices : User(e) \/ QueueDeletion(e) \/ Round(e) \/ BreakOff(e)
    BY DEF Next
  <2>3. local' # local
    OBVIOUS
  <2>4. ASSUME NEW s \in Stamps, Delete(e, s) PROVE s \in deletions' /\ s > Newest(local[d])
    <3>1. e = d
      BY <2>1, <2>4 DEF Delete, TypeOK
    <3> QED BY <2>4, <3>1 DEF Delete, Unused
  <2>5. ASSUME NEW f \in Files, NEW s \in Stamps, Edit(e, f, s)
        PROVE  \E n \in deletions' : n > Newest(local[d])
    <3>1. e = d
      BY <2>1, <2>5 DEF Edit, TypeOK
    <3>2. local'[d][f] = s
      BY <2>1, <2>5, <3>1 DEF Edit, TypeOK, Work
    <3>3. s # 0
      BY ConstantsAssumption DEF Stamps
    <3> QED BY <3>2, <3>3 DEF Nothing
  <2>6. ASSUME Finalize(e) PROVE \E n \in deletions' : n > Newest(local[d])
    <3>1. e = d /\ deletions' = deletions
      BY <2>1, <2>6 DEF Finalize, TypeOK
    <3>2. \E t \in {job[d].own, job[d].queued} : MayDelete(d, t)
      BY <2>1, <2>6, <3>1 DEF Finalize, TypeOK
    <3> QED BY <2>1, <3>1, <3>2 DEF MayDelete, JobTold, TargetTold, DeletedAfter
  <2>7. CASE Commit(e)
    BY <2>1, <2>7 DEF Commit, TypeOK
  <2> QED
    BY <2>2, <2>3, <2>4, <2>5, <2>6, <2>7
    DEF User, QueueDeletion, Round, Plan, Transfer, Discard, Publish, Refused,
        CommitFails, RecordCheckpoint, BreakOff, userVars
<1>2. Init => IInv /\ HInv
  BY InitIInv, HistoryInit
<1>3. IInv /\ HInv /\ [Next]_vars => (IInv /\ HInv)'
  BY StepIInv, HistoryStep
<1> QED BY <1>1, <1>2, <1>3, PTL DEF Spec, RemovedByNewerDeletion

=============================================================================
