------------------------- MODULE DocumentSyncProofs -------------------------
(***************************************************************************)
(* TLAPS proofs about one file on several devices.                         *)
(*                                                                         *)
(* DocumentSync, a text document, for any number of devices, versions      *)
(* and faults: type correctness; that the base of a three-way comparison   *)
(* is always content the remote has held; that a conflict the user closed  *)
(* stays closed; and, for rounds that do not break off between the commit  *)
(* and the recording of its conflicts, that no edit is lost and that a     *)
(* deletion is published only of what a user gave up.                      *)
(*                                                                         *)
(* MetadataSync, a file under last-writer-wins, for any number of devices, *)
(* any clock and any number of changes: type correctness; that the remote  *)
(* never goes back to an older version; and that no round replaces what    *)
(* the user last did by an older version.                                  *)
(***************************************************************************)
EXTENDS DocumentSync, MetadataSync, FiniteSetTheorems, TLAPS

(***************************************************************************)
(* DocumentSync.                                                           *)
(***************************************************************************)
-----------------------------------------------------------------------------
(* Type correctness.                                                       *)

\* The merge of a round leaves a job of the right type, the given one.
LEMMA StageJob ==
  ASSUME TypeOK, NEW d \in Devices, NEW text \in Hash, NEW conf \in Maybe,
         NEW push \in Maybe, Stage(d, text, conf, push)
  PROVE  /\ job' \in [Devices -> Job]
         /\ \A e \in Devices : e # d => job'[e] = job[e]
         /\ job'[d].base = live[d] /\ job'[d].file = text
         /\ job'[d].conf = conf /\ job'[d].push = push
         /\ job'[d].known = IF conf = None THEN text ELSE known[d]
<1> DEFINE man1 == OpOf(IF push = None THEN remote ELSE push)
           known1 == IF conf = None THEN text ELSE known[d]
<1>1. man1 \in RecordOp
  BY DEF OpOf, RecordOp
<1>2. known1 \in Hash /\ live[d] \in Hash /\ conflict[d] \in Maybe
  BY DEF TypeOK
<1>3. job' = [job EXCEPT ![d] =
         [base |-> live[d], bconf |-> conflict[d], file |-> text,
          conf |-> conf, known |-> known1, man |-> man1, push |-> push]]
  BY DEF Stage
<1> HIDE DEF man1, known1
<1>4. job \in [Devices -> Job]
  BY DEF TypeOK
<1>5. [base |-> live[d], bconf |-> conflict[d], file |-> text,
       conf |-> conf, known |-> known1, man |-> man1, push |-> push] \in Job
  BY <1>1, <1>2 DEF Job
<1> QED
  BY <1>3, <1>4, <1>5 DEF known1

\* The four outcomes of a merge: nothing to push, or the device's own file.
LEMMA MergeJob ==
  ASSUME TypeOK, NEW d \in Devices, StartSync(d)
  PROVE  \E text \in Hash, conf, push \in Maybe :
           /\ Stage(d, text, conf, push)
           /\ text \in {live[d], remote, Empty}
           /\ conf \in {None, conflict[d], remote}
           /\ conf = None => text \in {remote, Empty} \/ push = text
<1>1. live[d] \in Hash /\ remote \in Maybe /\ conflict[d] \in Maybe
      /\ None \in Maybe /\ Hash \subseteq Maybe /\ Empty \in Hash
      /\ Versions \subseteq Hash
  BY DEF TypeOK, Maybe, Hash
<1>2. CASE SkipConflict(d)
  BY <1>1, <1>2 DEF SkipConflict, Recovered
<1>3. CASE FollowRemote(d)
  BY <1>1, <1>3 DEF FollowRemote, Maybe
<1>4. CASE UploadNew(d)
  BY <1>1, <1>4 DEF UploadNew
<1>5. CASE MergeBoth(d)
  <2>1. MergeWay(d) = "NoConflict" => live[d] = remote
    BY DEF MergeWay, ThreeWay
  <2>2. remote \in Hash
    BY <1>1, <1>5 DEF MergeBoth, Maybe
  <2> QED
    BY <1>1, <1>5, <2>1, <2>2 DEF MergeBoth
<1> QED
  BY <1>2, <1>3, <1>4, <1>5 DEF StartSync

\* The initial states have their types.
LEMMA TypeInit == Init => TypeOK
<1> SUFFICES ASSUME Init PROVE TypeOK
  OBVIOUS
<1>1. NoJob \in Job
  BY ConstantsAssumption DEF NoJob, Job, Hash, Maybe, RecordOp
<1>2. PICK v \in Versions :
        /\ written = {v}
        /\ live \in [Devices -> {v, Empty}]
        /\ \/ /\ remote = v /\ shared = {v}
              /\ known = live
              /\ man = [d \in Devices |->
                          IF live[d] = v THEN "upsert" ELSE "none"]
           \/ /\ remote = None /\ shared = {}
              /\ known = [d \in Devices |-> Empty]
              /\ man = [d \in Devices |-> "none"]
  BY DEF Init
<1>3. live \in [Devices -> Hash] /\ known \in [Devices -> Hash]
      /\ man \in [Devices -> RecordOp] /\ remote \in Maybe
  BY <1>2 DEF Hash, Maybe, RecordOp
<1>4. written \subseteq Versions /\ gone \subseteq Versions
      /\ shared \subseteq Versions
  BY <1>2 DEF Init
<1>5. faults \in 0 .. MaxFaults /\ deletes \in 0 .. MaxDeletes
      /\ vanishes \in 0 .. MaxVanish
  BY ConstantsAssumption DEF Init
<1> QED
  BY <1>1, <1>3, <1>4, <1>5 DEF Init, TypeOK, Maybe

\* A round that ends leaves no job behind.
LEMMA EndType ==
  ASSUME TypeOK, NEW d \in Devices, End(d)
  PROVE  /\ job' \in [Devices -> Job]
         /\ pc' \in [Devices -> {"idle", "merged", "published", "recording"}]
         /\ pc'[d] = "idle" /\ job'[d] = NoJob
         /\ \A e \in Devices : e # d => pc'[e] = pc[e] /\ job'[e] = job[e]
         /\ \A e \in Devices : pc'[e] = "idle" => job'[e] = NoJob
<1>1. NoJob \in Job
  BY ConstantsAssumption DEF NoJob, Job, Hash, Maybe, RecordOp
<1> QED
  BY <1>1 DEF TypeOK, End

\* Every step of every device keeps the types.
LEMMA TypeStep == TypeOK /\ [Next]_vars => TypeOK'
<1> SUFFICES ASSUME TypeOK, [Next]_vars PROVE TypeOK'
  OBVIOUS
<1> USE DEF countVars, pastVars, deviceVars
<1>a. Hash \subseteq Maybe /\ Empty \in Hash /\ None \in Maybe
      /\ Versions \subseteq Hash
  BY DEF Hash, Maybe
<1>1. ASSUME NEW d \in Devices, NEW v \in Versions, Edit(d, v) PROVE TypeOK'
  <2>1. live[d] \in Versions
    BY <1>1 DEF TypeOK, Edit, Hash
  <2> QED
    BY <1>1, <1>a, <2>1 DEF Edit, TypeOK
<1>2. ASSUME NEW d \in Devices, Delete(d) PROVE TypeOK'
  <2>1. live[d] \in Versions
    BY <1>2 DEF TypeOK, Delete, Hash
  <2> QED
    BY <1>2, <1>a, <2>1, ConstantsAssumption DEF Delete, TypeOK
<1>3. ASSUME NEW d \in Devices, Vanish(d) PROVE TypeOK'
  BY <1>3, <1>a, ConstantsAssumption DEF Vanish, TypeOK
<1>4. ASSUME NEW d \in Devices, KeepLocal(d) \/ TakeRemote(d) PROVE TypeOK'
  <2>1. conflict[d] \in Hash /\ live[d] \in Hash
    BY <1>4 DEF TypeOK, KeepLocal, TakeRemote, Maybe
  <2>2. ASSUME NEW c \in Hash, NEW x \in Hash, Decide(d, c, x)
        PROVE  /\ conflict' \in [Devices -> Maybe]
               /\ gone' \subseteq Versions
               /\ decided' \in [Devices -> SUBSET Hash]
               /\ UNCHANGED <<written, shared>>
    BY <2>1, <2>2, <1>a DEF TypeOK, Decide, Hash
  <2>3. /\ conflict' \in [Devices -> Maybe]
        /\ gone' \subseteq Versions
        /\ decided' \in [Devices -> SUBSET Hash]
        /\ UNCHANGED <<written, shared>>
    BY <1>4, <2>1, <2>2 DEF KeepLocal, TakeRemote
  <2> HIDE DEF Decide
  <2> QED
    BY <1>4, <2>1, <2>3 DEF KeepLocal, TakeRemote, TypeOK
<1>5. ASSUME NEW d \in Devices, TakeRemoteCut(d) PROVE TypeOK'
  <2>1. conflict[d] \in Hash /\ live[d] \in Hash
    BY <1>5 DEF TypeOK, TakeRemoteCut, Maybe
  <2>2. gone' \subseteq Versions
    BY <1>5, <2>1 DEF TakeRemoteCut, TypeOK, Hash
  <2> QED
    BY <1>5, <2>1, <2>2, ConstantsAssumption DEF TakeRemoteCut, Fault, TypeOK
<1>6. ASSUME NEW d \in Devices, StartSync(d) PROVE TypeOK'
  <2>1. PICK text \in Hash, conf \in Maybe, push \in Maybe :
          Stage(d, text, conf, push)
    BY <1>6, MergeJob
  <2>2. job' \in [Devices -> Job] /\ \A e \in Devices : e # d => job'[e] = job[e]
    BY <2>1, StageJob
  <2>3. pc' = [pc EXCEPT ![d] = "merged"] /\ fresh' = fresh \union {d}
        /\ UNCHANGED <<remote, live, known, man, tomb, conflict, faults,
                       deletes, vanishes, written, gone, shared, decided>>
    BY <1>6 DEF StartSync
  <2> QED
    BY <2>2, <2>3 DEF TypeOK
<1>7. ASSUME NEW d \in Devices, Publish(d) PROVE TypeOK'
  <2>1. job[d].push \in Maybe
    BY DEF TypeOK, Job
  <2>2. remote' \in Maybe /\ shared' \subseteq Versions
        /\ decided' \in [Devices -> SUBSET Hash]
    BY <1>7, <2>1 DEF Publish, TypeOK, Maybe, Hash
  <2>3. fresh' \subseteq {e \in Devices : pc'[e] = "merged"}
    BY <1>7 DEF Publish, TypeOK
  <2> QED
    BY <1>7, <2>2, <2>3 DEF Publish, TypeOK
<1>8. ASSUME NEW d \in Devices, PublishRejected(d) PROVE TypeOK'
  <2>1. End(d)
    BY <1>8 DEF PublishRejected
  <2> QED
    BY <1>8, <2>1, EndType DEF PublishRejected, TypeOK
<1>9. ASSUME NEW d \in Devices, BreakOff(d) PROVE TypeOK'
  <2>1. End(d)
    BY <1>9 DEF BreakOff
  <2> QED
    BY <1>9, <2>1, EndType, ConstantsAssumption DEF BreakOff, Fault, TypeOK
<1>10. ASSUME NEW d \in Devices, Commit(d) PROVE TypeOK'
  <2>1. job[d] \in Job /\ pc[d] = "published"
    BY <1>10 DEF TypeOK, Commit
  <2>2. /\ job[d].known \in Hash /\ job[d].conf \in Maybe
        /\ job[d].man \in RecordOp /\ job[d].file \in Hash
    BY <2>1 DEF Job
  <2>3. /\ known' \in [Devices -> Hash] /\ conflict' \in [Devices -> Maybe]
        /\ man' \in [Devices -> RecordOp]
    BY <1>10, <2>2, <1>a DEF Commit, CommitState, TypeOK
  <2>4. live' \in [Devices -> Hash]
    BY <1>10, <2>2 DEF Commit, TypeOK
  <2>5. \/ End(d)
        \/ pc' = [pc EXCEPT ![d] = "recording"] /\ UNCHANGED job
    BY <1>10 DEF Commit
  <2>6. /\ job' \in [Devices -> Job]
        /\ pc' \in [Devices -> {"idle", "merged", "published", "recording"}]
        /\ \A e \in Devices : pc'[e] = "idle" => job'[e] = NoJob
        /\ \A e \in Devices : e # d => pc'[e] = pc[e]
    BY <2>5, EndType DEF TypeOK
  <2> QED
    BY <1>10, <2>1, <2>3, <2>4, <2>6 DEF Commit, TypeOK
<1>11. ASSUME NEW d \in Devices, Record(d) PROVE TypeOK'
  <2>1. job[d].file \in Hash /\ pc[d] = "recording"
    BY <1>11 DEF TypeOK, Job, Record
  <2>2. End(d)
    BY <1>11 DEF Record
  <2> QED
    BY <1>11, <1>a, <2>1, <2>2, EndType DEF Record, TypeOK
<1>12. CASE UNCHANGED vars
  BY <1>12 DEF vars, TypeOK
<1> QED
  BY <1>1, <1>2, <1>3, <1>4, <1>5, <1>6, <1>7, <1>8, <1>9, <1>10, <1>11, <1>12
     DEF Next, Round, User

\* Every variable keeps its type; a device without a round has no job, and
\* only a device whose round is merged holds a fetched head.
THEOREM TypeCorrect == Spec => []TypeOK
<1> QED
  BY TypeInit, TypeStep, PTL DEF Spec

-----------------------------------------------------------------------------
(* The base of a three-way comparison.                                     *)

\* Content the remote has held, or none.
Held == shared \union {Empty}

\* A round brings home what the remote held at the fetch, or what it pushes;
\* a merged file is the copied one or a held one.
RoundInv(d) ==
  /\ pc[d] # "idle" =>
       /\ job[d].conf \in Held \union {None}
       /\ \/ job[d].known \in Held
          \/ pc[d] = "merged" /\ job[d].known = job[d].push
       /\ job[d].file = job[d].base \/ job[d].file \in Held
  /\ pc[d] = "recording" => job[d].file \in Held

DeviceInv(d) ==
  known[d] \in Held /\ conflict[d] \in Held \union {None} /\ RoundInv(d)

IInv == /\ TypeOK
        /\ remote \in Held \union {None}
        /\ \A d \in Devices : DeviceInv(d)

\* Initially every base is content the remote holds, or none.
LEMMA IInvInit == Init => IInv
<1> SUFFICES ASSUME Init PROVE IInv
  OBVIOUS
<1>1. TypeOK
  BY TypeInit
<1>2. remote \in Held \union {None}
  BY DEF Init, Held
<1>3. ASSUME NEW d \in Devices PROVE DeviceInv(d)
  BY DEF Init, DeviceInv, RoundInv, Held
<1> QED
  BY <1>1, <1>2, <1>3 DEF IInv

\* What a device knows is untouched by the steps of another, and shared only
\* grows.
LEMMA OtherDevice ==
  ASSUME NEW d \in Devices, DeviceInv(d), shared \subseteq shared',
         known'[d] = known[d], conflict'[d] = conflict[d],
         pc'[d] = pc[d], job'[d] = job[d]
  PROVE  DeviceInv(d)'
BY DEF DeviceInv, RoundInv, Held

\* The user touches neither the round nor the remote, and the base he leaves
\* is one the remote held.
LEMMA UserStep ==
  ASSUME IInv, TypeOK', NEW d \in Devices, User(d)
  PROVE  IInv'
<1>1. UNCHANGED <<remote, shared, pc, job>>
  BY DEF User, Edit, Delete, Vanish, KeepLocal, TakeRemote, TakeRemoteCut,
         Decide, pastVars, countVars
<1>2. \A e \in Devices :
        /\ known'[e] \in {known[e], conflict[e]}
        /\ conflict[e] = None => known'[e] = known[e]
        /\ conflict'[e] \in {conflict[e], None}
  BY DEF User, Edit, Delete, Vanish, KeepLocal, TakeRemote, TakeRemoteCut,
         Decide, IInv, TypeOK
<1>3. ASSUME NEW e \in Devices PROVE DeviceInv(e)'
  BY <1>1, <1>2, <1>3 DEF IInv, DeviceInv, RoundInv, Held
<1> QED
  BY <1>1, <1>3 DEF IInv, Held

\* A merge keeps the base, takes the fetched content for it, or takes the
\* content it is about to push.
LEMMA StartStep ==
  ASSUME IInv, TypeOK', NEW d \in Devices, StartSync(d)
  PROVE  IInv'
<1>0. TypeOK
  BY DEF IInv
<1>1. PICK text \in Hash, conf \in Maybe, push \in Maybe :
        /\ Stage(d, text, conf, push)
        /\ text \in {live[d], remote, Empty}
        /\ conf \in {None, conflict[d], remote}
        /\ conf = None => text \in {remote, Empty} \/ push = text
  BY <1>0, MergeJob
<1>2. /\ \A e \in Devices : e # d => job'[e] = job[e]
      /\ job'[d].base = live[d] /\ job'[d].file = text
      /\ job'[d].conf = conf /\ job'[d].push = push
      /\ job'[d].known = IF conf = None THEN text ELSE known[d]
  BY <1>0, <1>1, StageJob
<1>3. /\ pc'[d] = "merged" /\ \A e \in Devices : e # d => pc'[e] = pc[e]
      /\ UNCHANGED <<remote, known, conflict, shared>>
  BY DEF StartSync, deviceVars, pastVars, IInv, TypeOK
<1>4. text \in Held \/ text = live[d]
  BY <1>1, ConstantsAssumption DEF IInv, Held, Hash
<1>5. conf = None => text \in Held \/ push = text
  BY <1>1, ConstantsAssumption DEF IInv, Held, Hash
<1>6. conf \in Held \union {None} /\ known[d] \in Held
  BY <1>1 DEF IInv, DeviceInv
<1>7. DeviceInv(d)'
  BY <1>2, <1>3, <1>4, <1>5, <1>6 DEF IInv, DeviceInv, RoundInv, Held
<1>8. ASSUME NEW e \in Devices, e # d PROVE DeviceInv(e)'
  BY <1>2, <1>3, <1>8, OtherDevice DEF IInv
<1> QED
  BY <1>3, <1>7, <1>8 DEF IInv, Held

\* A push makes the merged base content the remote holds; only then does the
\* commit bring it home.
LEMMA RoundStepKept ==
  ASSUME IInv, TypeOK', NEW d \in Devices, Round(d)
  PROVE  IInv'
<1>0. TypeOK
  BY DEF IInv
<1>a. job[d] \in Job
  BY <1>0 DEF TypeOK
<1>1. CASE StartSync(d)
  BY <1>1, StartStep
<1>2. CASE Publish(d)
  <2>1. /\ pc[d] = "merged" /\ pc'[d] = "published"
        /\ \A e \in Devices : e # d => pc'[e] = pc[e]
        /\ UNCHANGED <<known, conflict, job>>
    BY <1>0, <1>2 DEF Publish, deviceVars, TypeOK
  <2>2. \/ job[d].push = None /\ UNCHANGED <<remote, shared>>
        \/ /\ job[d].push # None /\ remote' = job[d].push
           /\ shared' = shared \union ({job[d].push} \ {Empty})
    BY <1>2 DEF Publish
  <2>3. shared \subseteq shared' /\ remote' \in Held' \union {None}
    BY <2>2 DEF IInv, Held
  <2>4. job[d].known \in Held'
    BY <1>a, <2>1, <2>2, ConstantsAssumption
       DEF IInv, DeviceInv, RoundInv, Held, Job, Hash
  <2>5. DeviceInv(d)'
    BY <2>1, <2>3, <2>4 DEF IInv, DeviceInv, RoundInv, Held
  <2>6. ASSUME NEW e \in Devices, e # d PROVE DeviceInv(e)'
    BY <2>1, <2>3, <2>6, OtherDevice DEF IInv
  <2> QED
    BY <2>3, <2>5, <2>6 DEF IInv
<1>3. CASE PublishRejected(d) \/ BreakOff(d)
  <2>1. End(d) /\ UNCHANGED <<remote, known, conflict, shared>>
    BY <1>3 DEF PublishRejected, BreakOff, deviceVars, pastVars
  <2>2. pc'[d] = "idle"
        /\ \A e \in Devices : e # d => pc'[e] = pc[e] /\ job'[e] = job[e]
    BY <1>0, <2>1, EndType
  <2>3. DeviceInv(d)'
    BY <2>1, <2>2 DEF IInv, DeviceInv, RoundInv, Held
  <2>4. ASSUME NEW e \in Devices, e # d PROVE DeviceInv(e)'
    BY <2>1, <2>2, <2>4, OtherDevice DEF IInv
  <2> QED
    BY <2>1, <2>3, <2>4 DEF IInv, Held
<1>4. CASE Commit(d)
  <2>1. /\ pc[d] = "published" /\ UNCHANGED <<remote, shared>>
        /\ known'[d] \in {known[d], job[d].known}
        /\ conflict'[d] \in {None, job[d].conf}
        /\ \A e \in Devices :
             e # d => known'[e] = known[e] /\ conflict'[e] = conflict[e]
    BY <1>0, <1>4 DEF Commit, CommitState, pastVars, TypeOK
  <2>2. \/ End(d)
        \/ /\ pc' = [pc EXCEPT ![d] = "recording"] /\ UNCHANGED job
           /\ CommitWay(d) = "BothChanged"
    BY <1>4 DEF Commit
  <2>3. \/ pc'[d] = "idle"
        \/ /\ pc'[d] = "recording" /\ job'[d] = job[d]
           /\ job[d].file # job[d].base
    BY <1>0, <2>2, EndType DEF TypeOK, CommitWay, ThreeWay
  <2>4. \A e \in Devices : e # d => pc'[e] = pc[e] /\ job'[e] = job[e]
    BY <1>0, <2>2, EndType DEF TypeOK
  <2>5. DeviceInv(d)'
    BY <2>1, <2>3 DEF IInv, DeviceInv, RoundInv, Held
  <2>6. ASSUME NEW e \in Devices, e # d PROVE DeviceInv(e)'
    BY <2>1, <2>4, <2>6, OtherDevice DEF IInv
  <2> QED
    BY <2>1, <2>5, <2>6 DEF IInv, Held
<1>5. CASE Record(d)
  <2>1. /\ pc[d] = "recording" /\ End(d)
        /\ UNCHANGED <<remote, known, shared>>
        /\ conflict'[d] = job[d].file
        /\ \A e \in Devices : e # d => conflict'[e] = conflict[e]
    BY <1>0, <1>5 DEF Record, pastVars, TypeOK
  <2>2. pc'[d] = "idle"
        /\ \A e \in Devices : e # d => pc'[e] = pc[e] /\ job'[e] = job[e]
    BY <1>0, <2>1, EndType
  <2>3. DeviceInv(d)'
    BY <2>1, <2>2 DEF IInv, DeviceInv, RoundInv, Held
  <2>4. ASSUME NEW e \in Devices, e # d PROVE DeviceInv(e)'
    BY <2>1, <2>2, <2>4, OtherDevice DEF IInv
  <2> QED
    BY <2>1, <2>3, <2>4 DEF IInv, Held
<1> QED
  BY <1>1, <1>2, <1>3, <1>4, <1>5 DEF Round

\* Every step keeps the inductive invariant.
LEMMA IInvStep == IInv /\ [Next]_vars => IInv'
<1> SUFFICES ASSUME IInv, [Next]_vars PROVE IInv'
  OBVIOUS
<1>1. TypeOK'
  BY TypeStep DEF IInv
<1>2. CASE \E d \in Devices : Round(d) \/ User(d)
  BY <1>1, <1>2, RoundStepKept, UserStep
<1>3. CASE UNCHANGED vars
  BY <1>1, <1>3
     DEF vars, deviceVars, pastVars, IInv, DeviceInv, RoundInv, Held
<1> QED
  BY <1>2, <1>3 DEF Next

\* known_files only ever holds content the remote has held: no failed push,
\* lost answer or resolution makes a base of content nobody else could have.
THEOREM BaseSharedHolds == Spec => []BaseShared
<1>1. IInv => BaseShared
  BY DEF IInv, DeviceInv, BaseShared, Held
<1> QED
  BY <1>1, IInvInit, IInvStep, PTL DEF Spec
-----------------------------------------------------------------------------
(* A conflict the user closed stays closed.                                *)

\* A conflict that is open, or that a round brings home, is none its user has
\* decided, and while one is open the remote holds no content he decided.
NotDecided(h, d) == h \notin decided[d] /\ remote \notin decided[d]

\* A file that is not there has a tombstone, or neither base nor conflict, or
\* the user took a remote deletion and his choice was not written.
GoneInv(d) ==
  live[d] = Empty /\ ~tomb[d] =>
    conflict[d] = Empty \/ (conflict[d] = None /\ known[d] = Empty)

\* A round that was started with a conflict open leaves it alone, and changes
\* the file only where the user's choice was not written.
OpenInv(d) ==
  pc[d] # "idle" /\ job[d].bconf # None =>
    /\ pc[d] # "recording"
    /\ job[d].conf = job[d].bconf /\ job[d].push = None
    /\ conflict[d] = job[d].bconf => job[d].known = known[d]
    /\ job[d].file # job[d].base =>
         /\ job[d].base = Empty /\ job[d].file # Empty
         /\ live[d] = Empty /\ job[d].bconf = Empty

\* A round that was started with none: the user has nothing to decide while
\* it is out, so what it brings home was not decided when it was fetched.
PlainInv(d) ==
  pc[d] # "idle" /\ job[d].bconf = None =>
    /\ job[d].conf # None =>
         /\ NotDecided(job[d].conf, d)
         /\ job[d].file = job[d].base /\ job[d].push = None
    /\ job[d].conf = None => job[d].known = job[d].file
    /\ job[d].file # job[d].base =>
         \/ NotDecided(job[d].file, d)
         \/ (job[d].base = Empty /\ live[d] = Empty)
    /\ live[d] = Empty /\ ~tomb[d] => job[d].base = Empty /\ job[d].conf = None
    /\ job[d].push = None \/ pc[d] # "merged" =>
         (remote \in decided[d] => job[d].known = remote)
    /\ pc[d] = "recording" =>
         NotDecided(job[d].file, d) /\ (live[d] # Empty \/ tomb[d])

ChoiceInv(d) ==
  /\ conflict[d] # None => NotDecided(conflict[d], d)
  /\ remote \in decided[d] => known[d] = remote
  /\ pc[d] # "idle" => conflict[d] \in {job[d].bconf, None}
  /\ GoneInv(d) /\ OpenInv(d) /\ PlainInv(d)

SticksInv == vanishes = 0 => \A d \in Devices : ChoiceInv(d)

\* Nothing is decided initially.
LEMMA SticksInit == Init => SticksInv
<1> SUFFICES ASSUME Init, NEW d \in Devices PROVE ChoiceInv(d)
  BY DEF SticksInv
<1>1. /\ conflict[d] = None /\ decided[d] = {} /\ pc[d] = "idle"
  BY DEF Init
<1>2. live[d] = Empty => known[d] = Empty
  BY DEF Init
<1> QED
  BY <1>1, <1>2 DEF ChoiceInv, GoneInv, OpenInv, PlainInv, NotDecided

\* A device keeps what it has while others act: a push takes what it pushes
\* out of what every user has decided.
LEMMA OthersChoice ==
  ASSUME NEW d \in Devices, ChoiceInv(d),
         live'[d] = live[d], known'[d] = known[d], tomb'[d] = tomb[d],
         conflict'[d] = conflict[d], pc'[d] = pc[d], job'[d] = job[d],
         \/ remote' = remote /\ decided'[d] = decided[d]
         \/ remote' \notin decided'[d] /\ decided'[d] \subseteq decided[d]
  PROVE  ChoiceInv(d)'
<1>1. ASSUME NEW h, NotDecided(h, d) PROVE NotDecided(h, d)'
  BY <1>1 DEF NotDecided
<1>2. GoneInv(d)' /\ OpenInv(d)'
  BY DEF ChoiceInv, GoneInv, OpenInv
<1>3. PlainInv(d)'
  BY <1>1 DEF ChoiceInv, PlainInv
<1> QED
  BY <1>1, <1>2, <1>3 DEF ChoiceInv

\* The user decides only what is open, and the base follows his decision.
LEMMA UserChoice ==
  ASSUME TypeOK, TypeOK', NEW d \in Devices, User(d), vanishes' = 0,
         \A e \in Devices : ChoiceInv(e)
  PROVE  \A e \in Devices : ChoiceInv(e)'
<1> USE DEF countVars, pastVars
<1>0. /\ live[d] \in Hash /\ conflict[d] \in Maybe /\ known[d] \in Hash
      /\ live'[d] \in Hash
      /\ pc[d] # "idle" => job[d].bconf \in Maybe
  BY DEF TypeOK, Job
<1>1. UNCHANGED <<remote, pc, job>>
  BY DEF User, Edit, Delete, Vanish, KeepLocal, TakeRemote, TakeRemoteCut
<1>2. ASSUME NEW e \in Devices, e # d PROVE ChoiceInv(e)'
  <2>1. /\ live'[e] = live[e] /\ known'[e] = known[e] /\ tomb'[e] = tomb[e]
        /\ conflict'[e] = conflict[e] /\ decided'[e] = decided[e]
    BY <1>2 DEF User, Edit, Delete, Vanish, KeepLocal, TakeRemote,
         TakeRemoteCut, Decide, TypeOK
  <2> QED
    BY <1>1, <2>1, OthersChoice
<1>3. ChoiceInv(d)
  OBVIOUS
<1>4. CASE \E v \in Versions : Edit(d, v)
  <2>1. /\ live[d] # Empty /\ live'[d] # Empty /\ pc[d] # "recording"
        /\ known'[d] = known[d] /\ tomb'[d] = tomb[d]
        /\ conflict'[d] = conflict[d] /\ decided'[d] = decided[d]
    BY <1>4, ConstantsAssumption DEF Edit, Free, TypeOK
  <2> QED
    BY <1>1, <1>2, <1>3, <2>1
       DEF ChoiceInv, GoneInv, OpenInv, PlainInv, NotDecided
<1>5. CASE Delete(d)
  <2>1. /\ live[d] # Empty /\ pc[d] # "recording"
        /\ known'[d] = known[d] /\ tomb'[d] = TRUE
        /\ conflict'[d] = conflict[d] /\ decided'[d] = decided[d]
    BY <1>5 DEF Delete, Free, TypeOK
  <2> QED
    BY <1>1, <1>2, <1>3, <2>1
       DEF ChoiceInv, GoneInv, OpenInv, PlainInv, NotDecided
<1>6. CASE Vanish(d)
  BY <1>6, ConstantsAssumption DEF Vanish, TypeOK
<1>7. CASE KeepLocal(d) \/ TakeRemote(d)
  <2>1. /\ conflict[d] # None /\ conflict'[d] = None
        /\ known'[d] = conflict[d] /\ live'[d] \in {live[d], conflict[d]}
        /\ live'[d] = live[d] => tomb'[d] = tomb[d] \/ live[d] # Empty
        /\ decided'[d] = decided[d] \union {conflict[d]}
    BY <1>7 DEF KeepLocal, TakeRemote, Decide, TypeOK
  <2>2. (live'[d] = live[d] /\ tomb'[d] = tomb[d]) \/ live'[d] = conflict[d]
    BY <1>7 DEF KeepLocal, TakeRemote, TypeOK
  <2>3. GoneInv(d)'
    BY <1>3, <2>1, <2>2 DEF ChoiceInv, GoneInv
  <2>4. OpenInv(d)' /\ PlainInv(d)'
    BY <1>1, <1>3, <2>1 DEF ChoiceInv, OpenInv, PlainInv
  <2>5. ChoiceInv(d)'
    BY <1>1, <1>3, <2>1, <2>3, <2>4 DEF ChoiceInv, NotDecided
  <2> QED
    BY <1>2, <2>5
<1>8. CASE TakeRemoteCut(d)
  <2>1. /\ conflict[d] # None /\ live'[d] = conflict[d]
        /\ known'[d] = known[d] /\ tomb'[d] = tomb[d]
        /\ conflict'[d] = conflict[d] /\ decided'[d] = decided[d]
    BY <1>8 DEF TakeRemoteCut, TypeOK
  <2>2. GoneInv(d)'
    BY <2>1 DEF GoneInv
  <2>3. OpenInv(d)' /\ PlainInv(d)'
    BY <1>1, <1>3, <2>1 DEF ChoiceInv, OpenInv, PlainInv
  <2>4. ChoiceInv(d)'
    BY <1>1, <1>3, <2>1, <2>2, <2>3 DEF ChoiceInv, NotDecided
  <2> QED
    BY <1>2, <2>4
<1> QED
  BY <1>4, <1>5, <1>6, <1>7, <1>8 DEF User

\* A merge opens a conflict, or brings a file home, only where the base is not
\* the remote's content, which is then none the user has decided.
LEMMA StartChoice ==
  ASSUME TypeOK, NEW d \in Devices, StartSync(d), ChoiceInv(d)
  PROVE  ChoiceInv(d)'
<1>1. /\ live[d] \in Hash /\ remote \in Maybe /\ conflict[d] \in Maybe
      /\ known[d] \in Hash /\ decided[d] \subseteq Hash /\ tomb[d] \in BOOLEAN
  BY DEF TypeOK
<1>2. None \in Maybe /\ Hash \subseteq Maybe /\ Empty \in Hash
      /\ Versions \subseteq Hash /\ None \notin Hash /\ Empty \notin Versions
  BY ConstantsAssumption DEF Maybe, Hash
<1>3. /\ pc'[d] = "merged" /\ pc[d] = "idle"
      /\ UNCHANGED <<remote, live, known, tomb, conflict, decided>>
  BY DEF StartSync, deviceVars, pastVars, TypeOK
<1>a. GoneInv(d)'
  BY <1>3 DEF ChoiceInv, GoneInv
<1>b. ASSUME NEW text \in Hash, NEW conf \in Maybe, NEW push \in Maybe,
             Stage(d, text, conf, push)
      PROVE  /\ job'[d].base = live[d] /\ job'[d].bconf = conflict[d]
             /\ job'[d].file = text /\ job'[d].conf = conf
             /\ job'[d].push = push
             /\ job'[d].known = IF conf = None THEN text ELSE known[d]
  BY <1>b, StageJob DEF Stage, TypeOK
<1>c. ASSUME OpenInv(d)', PlainInv(d)', job'[d].bconf = conflict[d]
      PROVE  ChoiceInv(d)'
  BY <1>3, <1>a, <1>c DEF ChoiceInv, NotDecided
<1>4. CASE SkipConflict(d)
  <2> DEFINE text == IF Recovered(d) THEN remote ELSE live[d]
  <2>1. text \in Hash
    BY <1>1, <1>2 DEF Recovered
  <2>2. Stage(d, text, conflict[d], None) /\ conflict[d] # None
    BY <1>4 DEF SkipConflict
  <2>3. text # live[d] => live[d] = Empty /\ ~tomb[d] /\ text \in Versions
    BY DEF Recovered, Missing
  <2> HIDE DEF text
  <2>4. text # live[d] => conflict[d] = Empty
    BY <2>2, <2>3 DEF ChoiceInv, GoneInv
  <2>5. OpenInv(d)' /\ PlainInv(d)' /\ job'[d].bconf = conflict[d]
    BY <1>1, <1>2, <1>3, <1>b, <2>1, <2>2, <2>3, <2>4 DEF OpenInv, PlainInv
  <2> QED
    BY <1>c, <2>5
<1>5. ASSUME NEW text \in Hash, NEW conf \in Maybe, NEW push \in Maybe,
             Stage(d, text, conf, push), conflict[d] = None,
             conf # None => conf = remote /\ remote \notin decided[d]
                            /\ text = live[d] /\ push = None
                            /\ live[d] # known[d],
             text # live[d] =>
               (text = remote /\ remote \notin decided[d]) \/ live[d] = Empty,
             conf = None /\ push = None /\ remote # None => text = remote
      PROVE  ChoiceInv(d)'
  <2>1. live[d] = Empty /\ ~tomb[d] => known[d] = Empty
    BY <1>5, <1>2 DEF ChoiceInv, GoneInv
  <2>2. /\ job'[d].base = live[d] /\ job'[d].bconf = None
        /\ job'[d].file = text /\ job'[d].conf = conf
        /\ job'[d].push = push
        /\ conf = None => job'[d].known = text
    BY <1>5, <1>b
  <2>3. PlainInv(d)'
    BY <1>1, <1>2, <1>3, <1>5, <2>1, <2>2 DEF PlainInv, NotDecided
  <2> QED
    BY <1>5, <1>c, <2>2, <2>3 DEF OpenInv
<1>6. CASE FollowRemote(d)
  <2> DEFINE text == IF remote = None THEN Empty ELSE remote
  <2>1. live[d] = Empty /\ conflict[d] = None /\ Stage(d, text, None, None)
    BY <1>6 DEF FollowRemote, HasRecord
  <2>2. text \in Hash /\ (remote # None => text = remote)
    BY <1>1, <1>2 DEF Maybe
  <2> HIDE DEF text
  <2> QED
    BY <1>2, <1>5, <2>1, <2>2
<1>7. CASE UploadNew(d)
  BY <1>1, <1>2, <1>5, <1>7 DEF UploadNew
<1>8. CASE MergeBoth(d)
  <2>1. remote \in Hash /\ conflict[d] = None
    BY <1>1, <1>8 DEF MergeBoth, Maybe
  <2>2. MergeWay(d) = "NoConflict" => live[d] = remote
    BY DEF MergeWay, ThreeWay
  <2>3. MergeWay(d) \in {"RemoteChanged", "BothChanged"} =>
          remote # known[d] /\ remote \notin decided[d]
    BY DEF MergeWay, ThreeWay, ChoiceInv
  <2>4. MergeWay(d) = "BothChanged" => live[d] # known[d]
    BY DEF MergeWay, ThreeWay
  <2> QED
    BY <1>1, <1>2, <1>5, <1>8, <2>1, <2>2, <2>3, <2>4 DEF MergeBoth
<1> QED
  BY <1>4, <1>6, <1>7, <1>8 DEF StartSync

\* The commit brings home what the round was started for: nothing if the user
\* had a conflict open, else the remote's content or a conflict with it.
LEMMA CommitChoice ==
  ASSUME TypeOK, NEW d \in Devices, Commit(d), ChoiceInv(d)
  PROVE  ChoiceInv(d)'
<1>1. /\ pc[d] = "published" /\ CommitState(d)
      /\ UNCHANGED <<remote, tomb, decided>>
      /\ known'[d] = IF Resolved(d) THEN known[d] ELSE job[d].known
      /\ conflict'[d] = IF Resolved(d) THEN None ELSE job[d].conf
      /\ live'[d] = IF CommitWay(d) = "RemoteChanged" THEN job[d].file
                    ELSE live[d]
  BY DEF Commit, CommitState, pastVars, TypeOK
<1>2. \/ pc'[d] = "idle" /\ CommitWay(d) # "BothChanged"
      \/ /\ pc'[d] = "recording" /\ job' = job
         /\ CommitWay(d) = "BothChanged"
  BY EndType DEF Commit, TypeOK
<1>3. /\ CommitWay(d) = "RemoteChanged" =>
           live[d] = job[d].base /\ job[d].file # job[d].base
      /\ CommitWay(d) = "BothChanged" =>
           /\ live[d] # job[d].base /\ job[d].file # job[d].base
           /\ live[d] # job[d].file
      /\ CommitWay(d) \notin {"RemoteChanged", "BothChanged"} =>
           live[d] = job[d].file \/ job[d].file = job[d].base
  BY DEF CommitWay, ThreeWay
<1>4. Empty # None /\ decided[d] \subseteq Hash /\ None \notin Hash
      /\ job[d].file \in Hash
  BY ConstantsAssumption DEF TypeOK, Hash, Job
<1>5. CASE job[d].bconf # None
  <2>1. OpenInv(d) /\ conflict[d] \in {job[d].bconf, None}
    BY <1>1, <1>5 DEF ChoiceInv
  <2>2. CommitWay(d) # "BothChanged"
    BY <1>1, <1>3, <1>5, <2>1 DEF OpenInv
  <2>3. known'[d] = known[d] /\ conflict'[d] = conflict[d]
    BY <1>1, <1>5, <2>1 DEF OpenInv, Resolved
  <2>4. live'[d] = live[d] \/ live'[d] # Empty
    BY <1>1, <1>3, <1>5, <2>1 DEF OpenInv
  <2>5. GoneInv(d)'
    BY <1>1, <2>3, <2>4 DEF ChoiceInv, GoneInv
  <2> QED
    BY <1>1, <1>2, <2>2, <2>3, <2>5
       DEF ChoiceInv, OpenInv, PlainInv, NotDecided
<1>6. CASE job[d].bconf = None
  <2>1. PlainInv(d) /\ conflict[d] = None /\ ~Resolved(d)
    BY <1>1, <1>6 DEF ChoiceInv, Resolved
  <2>2. known'[d] = job[d].known /\ conflict'[d] = job[d].conf
    BY <1>1, <2>1
  <2>3. conflict'[d] # None => NotDecided(conflict'[d], d)
    BY <1>1, <1>6, <2>1, <2>2 DEF PlainInv
  <2>4. remote \in decided[d] => known'[d] = remote
    BY <1>1, <1>6, <2>1, <2>2 DEF PlainInv
  <2>5. GoneInv(d)'
    BY <1>1, <1>3, <1>4, <1>6, <2>1, <2>2 DEF PlainInv, GoneInv
  <2>6. CommitWay(d) = "BothChanged" =>
          /\ job[d].conf = None /\ NotDecided(job[d].file, d)
          /\ (live[d] # Empty \/ tomb[d]) /\ live'[d] = live[d]
    BY <1>1, <1>3, <1>6, <2>1 DEF PlainInv
  <2>7. OpenInv(d)' /\ (pc'[d] # "idle" => conflict'[d] \in {job'[d].bconf, None})
    BY <1>2, <1>6, <2>2, <2>6 DEF OpenInv
  <2>8. PlainInv(d)'
    <3>1. CASE pc'[d] = "idle"
      BY <3>1 DEF PlainInv
    <3>2. CASE pc'[d] # "idle"
      <4>1. /\ job' = job /\ CommitWay(d) = "BothChanged" /\ live'[d] = live[d]
            /\ pc'[d] = "recording"
        BY <1>1, <1>2, <3>2
      <4>2. live[d] # Empty \/ tomb[d]
        BY <2>6, <4>1
      <4>3. NotDecided(job[d].file, d) /\ job[d].conf = None
        BY <2>6, <4>1
      <4> QED
        BY <1>1, <1>6, <2>1, <4>1, <4>2, <4>3 DEF PlainInv, NotDecided
    <3> QED
      BY <3>1, <3>2
  <2> QED
    BY <1>1, <2>3, <2>4, <2>5, <2>7, <2>8 DEF ChoiceInv, NotDecided
<1> QED
  BY <1>5, <1>6

\* A round's own steps keep the device's invariant.
LEMMA RoundChoice ==
  ASSUME TypeOK, TypeOK', NEW d \in Devices, Round(d), vanishes' = vanishes,
         \A e \in Devices : ChoiceInv(e)
  PROVE  \A e \in Devices : ChoiceInv(e)'
<1>1. ASSUME UNCHANGED <<remote, decided, tomb>>,
             \A e \in Devices : e # d =>
               /\ live'[e] = live[e] /\ known'[e] = known[e]
               /\ conflict'[e] = conflict[e]
               /\ pc'[e] = pc[e] /\ job'[e] = job[e],
             ChoiceInv(d)'
      PROVE  \A e \in Devices : ChoiceInv(e)'
  <2>1. ASSUME NEW e \in Devices, e # d PROVE ChoiceInv(e)'
    BY <1>1, <2>1, OthersChoice
  <2> QED
    BY <1>1, <2>1
<1>2. CASE StartSync(d)
  <2>1. /\ UNCHANGED <<remote, decided, tomb, live, known, conflict>>
        /\ \A e \in Devices : e # d => pc'[e] = pc[e]
    BY <1>2 DEF StartSync, deviceVars, pastVars, TypeOK
  <2>2. \A e \in Devices : e # d => job'[e] = job[e]
    BY <1>2, MergeJob, StageJob
  <2> QED
    BY <1>1, <1>2, <2>1, <2>2, StartChoice
<1>3. CASE Publish(d)
  <2>1. /\ pc[d] = "merged" /\ pc'[d] = "published"
        /\ \A e \in Devices : e # d => pc'[e] = pc[e]
        /\ UNCHANGED <<live, known, tomb, conflict, job>>
    BY <1>3 DEF Publish, deviceVars, TypeOK
  <2>2. \/ job[d].push = None /\ UNCHANGED <<remote, decided>>
        \/ \A e \in Devices : /\ remote' \notin decided'[e]
                              /\ decided'[e] \subseteq decided[e]
    BY <1>3 DEF Publish
  <2>3. ASSUME NEW e \in Devices, e # d PROVE ChoiceInv(e)'
    BY <2>1, <2>2, <2>3, OthersChoice
  <2>4. ASSUME NEW h, NotDecided(h, d) PROVE NotDecided(h, d)'
    BY <2>2, <2>4 DEF NotDecided
  <2>5. GoneInv(d)' /\ OpenInv(d)'
    BY <2>1 DEF ChoiceInv, GoneInv, OpenInv
  <2>6. PlainInv(d)'
    BY <2>1, <2>2, <2>4 DEF ChoiceInv, PlainInv
  <2>7. ChoiceInv(d)'
    BY <2>1, <2>2, <2>4, <2>5, <2>6 DEF ChoiceInv
  <2> QED
    BY <2>3, <2>7
<1>4. CASE PublishRejected(d) \/ BreakOff(d)
  <2>1. /\ End(d)
        /\ UNCHANGED <<remote, decided, tomb, live, known, conflict>>
    BY <1>4 DEF PublishRejected, BreakOff, deviceVars, pastVars
  <2>2. pc'[d] = "idle"
        /\ \A e \in Devices : e # d => pc'[e] = pc[e] /\ job'[e] = job[e]
    BY <2>1, EndType
  <2>3. ChoiceInv(d)'
    BY <2>1, <2>2 DEF ChoiceInv, GoneInv, OpenInv, PlainInv, NotDecided
  <2> QED
    BY <1>1, <2>1, <2>2, <2>3
<1>5. CASE Commit(d)
  <2>1. /\ UNCHANGED <<remote, decided, tomb>>
        /\ \A e \in Devices : e # d =>
             /\ live'[e] = live[e] /\ known'[e] = known[e]
             /\ conflict'[e] = conflict[e]
    BY <1>5 DEF Commit, CommitState, pastVars, TypeOK
  <2>2. \A e \in Devices : e # d => pc'[e] = pc[e] /\ job'[e] = job[e]
    BY <1>5, EndType DEF Commit, TypeOK
  <2> QED
    BY <1>1, <1>5, <2>1, <2>2, CommitChoice
<1>6. CASE Record(d)
  <2>1. /\ End(d) /\ pc[d] = "recording"
        /\ UNCHANGED <<remote, decided, tomb, live, known>>
        /\ conflict'[d] = job[d].file
        /\ \A e \in Devices : e # d => conflict'[e] = conflict[e]
    BY <1>6 DEF Record, pastVars, TypeOK
  <2>2. pc'[d] = "idle"
        /\ \A e \in Devices : e # d => pc'[e] = pc[e] /\ job'[e] = job[e]
    BY <2>1, EndType
  <2>3. NotDecided(job[d].file, d) /\ (live[d] # Empty \/ tomb[d])
    BY <2>1 DEF ChoiceInv, OpenInv, PlainInv
  <2>4. ChoiceInv(d)'
    BY <2>1, <2>2, <2>3 DEF ChoiceInv, GoneInv, OpenInv, PlainInv, NotDecided
  <2> QED
    BY <1>1, <2>1, <2>2, <2>4
<1> QED
  BY <1>2, <1>3, <1>4, <1>5, <1>6 DEF Round

\* Every step keeps what makes decisions stick; lost files stay lost.
LEMMA SticksStep == TypeOK /\ SticksInv /\ [Next]_vars => SticksInv'
<1> SUFFICES ASSUME TypeOK, SticksInv, [Next]_vars, vanishes' = 0
             PROVE  \A e \in Devices : ChoiceInv(e)'
  BY DEF SticksInv
<1>0. TypeOK'
  BY TypeStep
<1>1. CASE UNCHANGED vars
  <2>1. vanishes = 0
    BY <1>1 DEF vars, countVars
  <2>2. ASSUME NEW e \in Devices PROVE ChoiceInv(e)'
    BY <1>1, <2>1, OthersChoice DEF vars, deviceVars, pastVars, SticksInv
  <2> QED
    BY <2>2
<1>2. ASSUME NEW d \in Devices, Round(d) PROVE \A e \in Devices : ChoiceInv(e)'
  <2>1. vanishes' = vanishes
    BY <1>2 DEF Round, StartSync, Publish, PublishRejected, BreakOff, Commit,
         Record, countVars
  <2> QED
    BY <1>0, <1>2, <2>1, RoundChoice DEF SticksInv
<1>3. ASSUME NEW d \in Devices, User(d) PROVE \A e \in Devices : ChoiceInv(e)'
  <2>1. vanishes = 0
    <3>1. vanishes \in Nat /\ MaxVanish \in Nat
      BY ConstantsAssumption DEF TypeOK
    <3>2. vanishes' = vanishes \/ vanishes' = vanishes + 1
      BY <1>3 DEF User, Edit, Delete, Vanish, KeepLocal, TakeRemote,
           TakeRemoteCut, countVars
    <3> QED
      BY <3>1, <3>2
  <2> QED
    BY <1>0, <1>3, <2>1, UserChoice DEF SticksInv
<1> QED
  BY <1>1, <1>2, <1>3 DEF Next

\* The merge of the sync state never reopens a conflict its user has closed,
\* whatever round was out when he did and whatever broke off.
THEOREM ResolutionSticksHolds == Spec => []ResolutionSticks
<1>1. TypeOK /\ SticksInv => ResolutionSticks
  <2> SUFFICES ASSUME TypeOK, SticksInv, vanishes = 0, NEW d \in Devices
               PROVE  conflict[d] \notin decided[d]
    BY DEF ResolutionSticks
  <2>1. None \notin decided[d]
    BY ConstantsAssumption DEF TypeOK, Hash
  <2> QED
    BY <2>1 DEF SticksInv, ChoiceInv, NotDecided
<1> QED
  BY <1>1, TypeInit, TypeStep, SticksInit, SticksStep, PTL DEF Spec

-----------------------------------------------------------------------------
(* No edit is lost.                                                        *)

\* A base the file has left was given up by a user, or is about to be an open
\* conflict; so was the copied file of a round that brings another one home,
\* and the remote's content a push is about to replace.
KeptInv(d) ==
  /\ known[d] \in Versions =>
       \/ live[d] = known[d] \/ known[d] \in gone \/ conflict[d] # None
       \/ (pc[d] = "recording" /\ job[d].file = known[d])
  /\ pc[d] # "idle" /\ job[d].bconf = None /\ job[d].base \in Versions =>
       /\ live[d] = job[d].base \/ job[d].base \in gone
       /\ job[d].file # job[d].base => job[d].base \in gone
  /\ pc[d] = "merged" /\ d \in fresh /\ job[d].push # None
       /\ remote \in Versions /\ remote # job[d].push => remote \in gone

LossInv == vanishes = 0 =>
  /\ \A d \in Devices : KeptInv(d)
  /\ shared \ {remote} \subseteq gone
  /\ NoEditLost

\* The first version is on the remote or on a device.
LEMMA LossInit == Init => LossInv
<1> SUFFICES ASSUME Init PROVE LossInv
  OBVIOUS
<1>1. PICK v \in Versions :
        /\ written = {v}
        /\ live \in [Devices -> {v, Empty}]
        /\ \/ remote = v /\ shared = {v} /\ known = live
           \/ /\ remote = None /\ shared = {}
              /\ Cardinality({d \in Devices : live[d] = v}) = 1
              /\ known = [d \in Devices |-> Empty]
  BY DEF Init
<1>2. ASSUME NEW d \in Devices PROVE KeptInv(d)
  BY <1>1, ConstantsAssumption DEF Init, KeptInv
<1>3. shared \ {remote} \subseteq gone
  BY <1>1
<1>4. remote = v \/ \E d \in Devices : live[d] = v
  <2>1. Cardinality({}) = 0
    BY FS_EmptySet
  <2>2. {d \in Devices : live[d] = v} = {} \/ \E d \in Devices : live[d] = v
    OBVIOUS
  <2> QED
    BY <1>1, <2>1, <2>2
<1>5. NoEditLost
  BY <1>1, <1>4 DEF NoEditLost
<1> QED
  BY <1>2, <1>3, <1>5 DEF LossInv

\* What is kept of a device stays so while others act: what users gave up
\* only grows, and a push leaves no other device with the remote's head.
LEMMA OthersKept ==
  ASSUME NEW d \in Devices, KeptInv(d), gone \subseteq gone',
         live'[d] = live[d], known'[d] = known[d], conflict'[d] = conflict[d],
         pc'[d] = pc[d], job'[d] = job[d],
         d \in fresh' => d \in fresh /\ remote' = remote
  PROVE  KeptInv(d)'
BY DEF KeptInv

\* The user's steps: what leaves a file or a conflict is given up or is the
\* content chosen.
LEMMA UserKept ==
  ASSUME TypeOK, TypeOK', NEW d \in Devices, User(d), vanishes' = 0,
         \A e \in Devices : ChoiceInv(e), LossInv, vanishes = 0
  PROVE  LossInv'
<1> USE DEF countVars, pastVars
<1>0. /\ live[d] \in Hash /\ conflict[d] \in Maybe /\ known[d] \in Hash
      /\ None \notin Hash /\ Empty \notin Versions /\ None \notin Versions
      /\ Empty # None /\ Hash = Versions \union {Empty}
      /\ Maybe = Hash \union {None}
  BY ConstantsAssumption DEF TypeOK, Hash, Maybe
<1>1. UNCHANGED <<remote, pc, job, fresh, shared>>
  BY DEF User, Edit, Delete, Vanish, KeepLocal, TakeRemote, TakeRemoteCut,
       Decide
<1>2. \A e \in Devices : e # d =>
        /\ live'[e] = live[e] /\ known'[e] = known[e]
        /\ conflict'[e] = conflict[e]
  BY DEF User, Edit, Delete, Vanish, KeepLocal, TakeRemote, TakeRemoteCut,
       Decide, TypeOK
<1>3. KeptInv(d) /\ ChoiceInv(d)
  BY DEF LossInv
<1>4. CASE \E v \in Versions : Edit(d, v)
  <2>1. PICK v \in Versions : Edit(d, v)
    BY <1>4
  <2>2. /\ live[d] # Empty /\ live'[d] = v /\ pc[d] # "recording"
        /\ known'[d] = known[d] /\ conflict'[d] = conflict[d]
        /\ gone' = gone \union {live[d]} /\ written' = written \union {v}
    BY <2>1 DEF Edit, Free, TypeOK
  <2>3. KeptInv(d)'
    BY <1>1, <1>3, <2>2 DEF KeptInv
  <2>4. NoEditLost'
    BY <1>1, <1>2, <2>2 DEF NoEditLost, LossInv
  <2> QED
    BY <1>1, <1>2, <2>2, <2>3, <2>4, OthersKept DEF LossInv
<1>5. CASE Delete(d)
  <2>2. /\ live[d] # Empty /\ pc[d] # "recording"
        /\ known'[d] = known[d] /\ conflict'[d] = conflict[d]
        /\ gone' = gone \union {live[d]} /\ written' = written
        /\ live'[d] = Empty
    BY <1>5 DEF Delete, Free, TypeOK
  <2>3. KeptInv(d)'
    BY <1>1, <1>3, <2>2 DEF KeptInv
  <2>4. NoEditLost'
    BY <1>1, <1>2, <2>2 DEF NoEditLost, LossInv
  <2> QED
    BY <1>1, <1>2, <2>2, <2>3, <2>4, OthersKept DEF LossInv
<1>6. CASE Vanish(d)
  BY <1>6, ConstantsAssumption DEF Vanish, TypeOK
<1>7. CASE KeepLocal(d) \/ TakeRemote(d) \/ TakeRemoteCut(d)
  <2>1. \E dropped \in {live[d], conflict[d]} :
          /\ conflict[d] # None
          /\ conflict'[d] \in {conflict[d], None}
          /\ known'[d] \in {known[d], conflict[d]}
          /\ conflict'[d] = None => known'[d] = conflict[d]
          /\ live'[d] \in {live[d], conflict[d]}
          /\ gone' = gone \union ({dropped} \ {live'[d], Empty})
          /\ dropped = live'[d] => live[d] = conflict[d]
          /\ written' = written
    BY <1>7 DEF KeepLocal, TakeRemote, TakeRemoteCut, Decide, TypeOK
  <2>2. PICK dropped \in {live[d], conflict[d]} :
          /\ conflict[d] # None
          /\ conflict'[d] \in {conflict[d], None}
          /\ known'[d] \in {known[d], conflict[d]}
          /\ conflict'[d] = None => known'[d] = conflict[d]
          /\ live'[d] \in {live[d], conflict[d]}
          /\ gone' = gone \union ({dropped} \ {live'[d], Empty})
          /\ dropped = live'[d] => live[d] = conflict[d]
          /\ written' = written
    BY <2>1
  <2>3. pc[d] # "idle" => job[d].bconf # None
    BY <1>3, <2>2 DEF ChoiceInv
  <2>4. pc[d] = "merged" => job[d].push = None
    BY <1>3, <2>3 DEF ChoiceInv, OpenInv
  <2>5. KeptInv(d)'
    BY <1>0, <1>1, <1>3, <2>2, <2>3, <2>4 DEF KeptInv
  <2>6. NoEditLost'
    BY <1>0, <1>1, <1>2, <2>2 DEF NoEditLost, LossInv, TypeOK
  <2> QED
    BY <1>1, <1>2, <2>2, <2>5, <2>6, OthersKept DEF LossInv
<1> QED
  BY <1>4, <1>5, <1>6, <1>7 DEF User

\* What a merge replaces is the base, superseded and so given up by a user;
\* what a push is to replace is a base the file has left.
LEMMA StartKept ==
  ASSUME TypeOK, IInv, NEW d \in Devices, StartSync(d), ChoiceInv(d),
         KeptInv(d), shared \ {remote} \subseteq gone
  PROVE  KeptInv(d)'
<1>1. /\ live[d] \in Hash /\ remote \in Maybe /\ conflict[d] \in Maybe
      /\ known[d] \in Hash /\ known[d] \in shared \union {Empty}
  BY DEF TypeOK, IInv, DeviceInv, Held
<1>2. None \in Maybe /\ Hash \subseteq Maybe /\ Empty \in Hash
      /\ Versions \subseteq Hash /\ None \notin Hash /\ Empty \notin Versions
      /\ None \notin Versions
  BY ConstantsAssumption DEF Maybe, Hash
<1>3. /\ pc'[d] = "merged" /\ pc[d] = "idle"
      /\ UNCHANGED <<remote, live, known, conflict, gone>>
  BY DEF StartSync, deviceVars, pastVars, TypeOK
<1>4. ASSUME NEW text \in Hash, NEW conf \in Maybe, NEW push \in Maybe,
             Stage(d, text, conf, push),
             conflict[d] = None /\ text # live[d] =>
               live[d] = Empty \/ (live[d] = known[d] /\ remote # known[d]),
             push # None /\ remote # None =>
               conflict[d] = None /\ remote = known[d] /\ live[d] # known[d]
      PROVE  KeptInv(d)'
  <2>1. /\ job'[d].base = live[d] /\ job'[d].bconf = conflict[d]
        /\ job'[d].file = text /\ job'[d].push = push
    BY <1>4, StageJob DEF Stage, TypeOK
  <2>2. conflict[d] = None /\ text # live[d] /\ live[d] \in Versions =>
          live[d] \in gone
    BY <1>1, <1>2, <1>4
  <2>3. push # None /\ remote \in Versions => remote \in gone
    BY <1>2, <1>3, <1>4 DEF KeptInv
  <2> QED
    BY <1>3, <2>1, <2>2, <2>3 DEF KeptInv
<1>5. CASE SkipConflict(d)
  BY <1>1, <1>2, <1>4, <1>5 DEF SkipConflict, Recovered
<1>6. CASE FollowRemote(d)
  <2> DEFINE text == IF remote = None THEN Empty ELSE remote
  <2>1. live[d] = Empty /\ Stage(d, text, None, None)
    BY <1>6 DEF FollowRemote, HasRecord
  <2>2. text \in Hash
    BY <1>1, <1>2 DEF Maybe
  <2> HIDE DEF text
  <2> QED
    BY <1>2, <1>4, <2>1, <2>2
<1>7. CASE UploadNew(d)
  BY <1>1, <1>2, <1>4, <1>7 DEF UploadNew
<1>8. CASE MergeBoth(d)
  <2>1. remote \in Hash /\ conflict[d] = None
    BY <1>1, <1>8 DEF MergeBoth, Maybe
  <2>2. MergeWay(d) = "RemoteChanged" =>
          live[d] = known[d] /\ remote # known[d]
    BY DEF MergeWay, ThreeWay
  <2>3. MergeWay(d) = "LocalChanged" =>
          remote = known[d] /\ live[d] # known[d]
    BY DEF MergeWay, ThreeWay
  <2> QED
    BY <1>1, <1>2, <1>4, <1>8, <2>1, <2>2, <2>3 DEF MergeBoth
<1> QED
  BY <1>5, <1>6, <1>7, <1>8 DEF StartSync

\* The commit replaces a file only by one that supersedes it, and leaves a
\* conflict open or about to be recorded where it moves the base alone.
LEMMA CommitKept ==
  ASSUME TypeOK, NEW d \in Devices, Commit(d), ChoiceInv(d), KeptInv(d)
  PROVE  /\ KeptInv(d)'
         /\ conflict[d] # None => conflict'[d] = conflict[d]
         /\ live[d] \in Versions => live'[d] = live[d] \/ live[d] \in gone
<1>1. /\ pc[d] = "published" /\ UNCHANGED <<remote, gone>>
      /\ known'[d] = IF Resolved(d) THEN known[d] ELSE job[d].known
      /\ conflict'[d] = IF Resolved(d) THEN None ELSE job[d].conf
      /\ live'[d] = IF CommitWay(d) = "RemoteChanged" THEN job[d].file
                    ELSE live[d]
  BY DEF Commit, CommitState, pastVars, TypeOK
<1>2. \/ pc'[d] = "idle" /\ CommitWay(d) # "BothChanged"
      \/ /\ pc'[d] = "recording" /\ job' = job
         /\ CommitWay(d) = "BothChanged"
  BY EndType DEF Commit, TypeOK
<1>3. /\ CommitWay(d) = "RemoteChanged" =>
           live[d] = job[d].base /\ job[d].file # job[d].base
      /\ CommitWay(d) \notin {"RemoteChanged", "BothChanged"} =>
           live[d] = job[d].file \/ job[d].file = job[d].base
  BY DEF CommitWay, ThreeWay
<1>4. Empty \notin Versions
  BY ConstantsAssumption
<1>5. CASE job[d].bconf # None
  <2>1. OpenInv(d) /\ conflict[d] \in {job[d].bconf, None}
    BY <1>1, <1>5 DEF ChoiceInv
  <2>2. known'[d] = known[d] /\ conflict'[d] = conflict[d]
    BY <1>1, <1>5, <2>1 DEF OpenInv, Resolved
  <2>3. live'[d] = live[d] \/ live[d] = Empty
    BY <1>1, <1>3, <1>5, <2>1 DEF OpenInv
  <2>4. KeptInv(d)'
    BY <1>1, <1>2, <1>4, <1>5, <2>2, <2>3 DEF KeptInv
  <2> QED
    BY <1>4, <2>2, <2>3, <2>4
<1>6. CASE job[d].bconf = None
  <2>1. PlainInv(d) /\ conflict[d] = None /\ ~Resolved(d)
    BY <1>1, <1>6 DEF ChoiceInv, Resolved
  <2>2. known'[d] = job[d].known /\ conflict'[d] = job[d].conf
    BY <1>1, <2>1
  <2>3. job[d].conf = None => job[d].known = job[d].file
    BY <1>1, <1>6, <2>1 DEF PlainInv
  <2>4. live[d] \in Versions => live'[d] = live[d] \/ live[d] \in gone
    BY <1>1, <1>3, <1>6 DEF KeptInv
  <2>5. job[d].conf = None /\ known'[d] \in Versions =>
          \/ live'[d] = known'[d] \/ known'[d] \in gone
          \/ CommitWay(d) = "BothChanged"
    BY <1>1, <1>3, <1>6, <2>2, <2>3 DEF KeptInv
  <2>6. CommitWay(d) = "BothChanged" => live'[d] = live[d]
    BY <1>1
  <2>7. KeptInv(d)'
    BY <1>1, <1>2, <1>6, <2>2, <2>3, <2>5, <2>6 DEF KeptInv
  <2> QED
    BY <2>1, <2>4, <2>7
<1> QED
  BY <1>5, <1>6

\* A round's steps lose nothing, if none breaks off between the commit and the
\* recording of the conflicts.
LEMMA RoundKept ==
  ASSUME "recording" \notin Breaks,
         IInv, TypeOK', NEW d \in Devices, Round(d),
         \A e \in Devices : ChoiceInv(e), LossInv, vanishes = 0
  PROVE  LossInv'
<1>0. TypeOK
  BY DEF IInv
<1>a. KeptInv(d) /\ ChoiceInv(d) /\ shared \ {remote} \subseteq gone
      /\ NoEditLost
  BY DEF LossInv
<1>b. written \subseteq Versions
  BY <1>0 DEF TypeOK
<1>1. ASSUME UNCHANGED <<remote, written, gone, shared>>, fresh' \subseteq fresh \union {d},
             \A e \in Devices : e # d =>
               /\ live'[e] = live[e] /\ known'[e] = known[e]
               /\ conflict'[e] = conflict[e]
               /\ pc'[e] = pc[e] /\ job'[e] = job[e],
             live[d] \in Versions => live'[d] = live[d] \/ live[d] \in gone,
             conflict[d] # None => conflict'[d] = conflict[d],
             KeptInv(d)'
      PROVE  LossInv'
  <2>1. ASSUME NEW e \in Devices PROVE KeptInv(e)'
    BY <1>1, <2>1, OthersKept DEF LossInv
  <2>2. NoEditLost'
    BY <1>1, <1>a, <1>b, ConstantsAssumption DEF NoEditLost
  <2> QED
    BY <1>1, <1>a, <2>1, <2>2 DEF LossInv
<1>2. CASE StartSync(d)
  <2>1. /\ UNCHANGED <<remote, written, gone, shared, live, known, conflict>>
        /\ fresh' = fresh \union {d}
        /\ \A e \in Devices : e # d => pc'[e] = pc[e]
    BY <1>0, <1>2 DEF StartSync, deviceVars, pastVars, TypeOK
  <2>2. \A e \in Devices : e # d => job'[e] = job[e]
    BY <1>0, <1>2, MergeJob, StageJob
  <2>3. KeptInv(d)'
    BY <1>0, <1>2, <1>a, StartKept
  <2> QED
    BY <1>1, <2>1, <2>2, <2>3
<1>3. CASE Publish(d)
  <2>1. /\ pc[d] = "merged" /\ pc'[d] = "published"
        /\ \A e \in Devices : e # d => pc'[e] = pc[e]
        /\ UNCHANGED <<live, known, conflict, job, written, gone>>
    BY <1>0, <1>3 DEF Publish, deviceVars, TypeOK
  <2>2. KeptInv(d)'
    BY <1>a, <2>1 DEF KeptInv
  <2>3. CASE job[d].push = None
    <3>1. UNCHANGED <<remote, shared>> /\ fresh' \subseteq fresh
      BY <1>3, <2>3 DEF Publish
    <3> QED
      BY <1>1, <2>1, <2>2, <3>1
  <2>4. CASE job[d].push # None
    <3>1. /\ d \in fresh /\ fresh' = {} /\ remote' = job[d].push
          /\ shared' = shared \union ({job[d].push} \ {Empty})
      BY <1>3, <2>4 DEF Publish
    <3>2. remote \in Versions => remote = remote' \/ remote \in gone
      BY <1>a, <2>1, <2>4, <3>1 DEF KeptInv
    <3>3. shared \subseteq Versions
      BY <1>0 DEF TypeOK
    <3>4. shared' \ {remote'} \subseteq gone'
      BY <1>a, <2>1, <3>1, <3>2, <3>3
    <3>5. NoEditLost'
      BY <1>a, <1>b, <2>1, <3>2 DEF NoEditLost
    <3>6. ASSUME NEW e \in Devices PROVE KeptInv(e)'
      BY <2>1, <2>2, <3>1, <3>6, OthersKept DEF LossInv
    <3> QED
      BY <3>4, <3>5, <3>6 DEF LossInv
  <2> QED
    BY <2>3, <2>4
<1>4. CASE PublishRejected(d) \/ BreakOff(d)
  <2>1. /\ End(d) /\ fresh' \subseteq fresh /\ pc[d] # "recording"
        /\ UNCHANGED <<remote, written, gone, shared, live, known, conflict>>
    BY <1>4 DEF PublishRejected, BreakOff, deviceVars, pastVars
  <2>2. pc'[d] = "idle"
        /\ \A e \in Devices : e # d => pc'[e] = pc[e] /\ job'[e] = job[e]
    BY <1>0, <2>1, EndType
  <2>3. KeptInv(d)'
    BY <1>a, <2>1, <2>2 DEF KeptInv
  <2> QED
    BY <1>1, <2>1, <2>2, <2>3
<1>5. CASE Commit(d)
  <2>1. /\ UNCHANGED <<remote, written, gone, shared, fresh>>
        /\ \A e \in Devices : e # d =>
             /\ live'[e] = live[e] /\ known'[e] = known[e]
             /\ conflict'[e] = conflict[e]
    BY <1>0, <1>5 DEF Commit, CommitState, pastVars, TypeOK
  <2>2. \A e \in Devices : e # d => pc'[e] = pc[e] /\ job'[e] = job[e]
    BY <1>0, <1>5, EndType DEF Commit, TypeOK
  <2> QED
    BY <1>0, <1>1, <1>5, <1>a, <2>1, <2>2, CommitKept
<1>6. CASE Record(d)
  <2>1. /\ End(d) /\ pc[d] = "recording"
        /\ UNCHANGED <<remote, written, gone, shared, fresh, live, known>>
        /\ conflict'[d] = job[d].file
        /\ \A e \in Devices : e # d => conflict'[e] = conflict[e]
    BY <1>0, <1>6 DEF Record, pastVars, TypeOK
  <2>2. pc'[d] = "idle"
        /\ \A e \in Devices : e # d => pc'[e] = pc[e] /\ job'[e] = job[e]
    BY <1>0, <2>1, EndType
  <2>3. conflict[d] = None
    BY <1>a, <2>1 DEF ChoiceInv, OpenInv
  <2>4. job[d].file # None
    BY <1>0, ConstantsAssumption DEF TypeOK, Job, Hash
  <2>5. KeptInv(d)'
    BY <1>a, <2>1, <2>2, <2>4 DEF KeptInv
  <2> QED
    BY <1>1, <2>1, <2>2, <2>3, <2>5
<1> QED
  BY <1>2, <1>3, <1>4, <1>5, <1>6 DEF Round

\* Every step keeps what no edit is lost by.
LEMMA LossStep ==
  ASSUME "recording" \notin Breaks
  PROVE  IInv /\ SticksInv /\ LossInv /\ [Next]_vars => LossInv'
<1> SUFFICES ASSUME IInv, SticksInv, LossInv, [Next]_vars PROVE LossInv'
  OBVIOUS
<1>0. TypeOK /\ TypeOK'
  BY TypeStep DEF IInv
<1>1. CASE UNCHANGED vars
  <2>1. UNCHANGED <<remote, live, known, conflict, pc, job, fresh, vanishes,
                    written, gone, shared>>
    BY <1>1 DEF vars, deviceVars, pastVars, countVars
  <2> QED
    BY <2>1 DEF LossInv, KeptInv, NoEditLost
<1>2. ASSUME NEW d \in Devices, Round(d) \/ User(d), vanishes' = 0
      PROVE  LossInv'
  <2>1. vanishes = 0
    <3>1. vanishes \in Nat /\ MaxVanish \in Nat
      BY <1>0, ConstantsAssumption DEF TypeOK
    <3>2. vanishes' = vanishes \/ vanishes' = vanishes + 1
      BY <1>2 DEF User, Edit, Delete, Vanish, KeepLocal, TakeRemote,
           TakeRemoteCut, Round, StartSync, Publish, PublishRejected,
           BreakOff, Commit, Record, countVars
    <3> QED
      BY <1>2, <3>1, <3>2
  <2> QED
    BY <1>0, <1>2, <2>1, RoundKept, UserKept DEF SticksInv
<1>3. vanishes' # 0 => LossInv'
  BY DEF LossInv
<1> QED
  BY <1>1, <1>2, <1>3 DEF Next

\* No version is lost that no user replaced, deleted or decided against, if no
\* round breaks off between its commit and the recording of its conflicts.
THEOREM NoEditLostHolds ==
  ASSUME "recording" \notin Breaks
  PROVE  Spec => []NoEditLost
<1>1. LossInv => NoEditLost
  BY DEF LossInv, NoEditLost
<1>2. IInv => TypeOK
  BY DEF IInv
<1> QED
  BY <1>1, <1>2, IInvInit, IInvStep, SticksInit, SticksStep, LossInit, LossStep,
     PTL DEF Spec

\* If no file is lost behind the program's back, and no round breaks off
\* between its commit and the recording of its conflicts, the remote comes to
\* record a deletion only of a version some user gave up.
THEOREM DeletionMeantHolds ==
  ASSUME "recording" \notin Breaks, MaxVanish = 0
  PROVE  Spec => DeletionMeant
<1>1. ASSUME IInv, LossInv, [Next]_vars
      PROVE  [(remote \in Versions /\ remote' = Empty) => remote \in gone]_vars
  <2> SUFFICES ASSUME remote \in Versions, remote' = Empty, Next
               PROVE  remote \in gone
    BY <1>1
  <2>1. vanishes = 0
    BY <1>1 DEF IInv, TypeOK
  <2>2. remote' # remote
    BY ConstantsAssumption
  <2>3. PICK d \in Devices : Publish(d)
    BY <2>2 DEF Next, Round, User, Edit, Delete, Vanish, KeepLocal, TakeRemote,
         TakeRemoteCut, StartSync, PublishRejected, BreakOff, Commit, Record
  <2>4. /\ pc[d] = "merged" /\ d \in fresh /\ job[d].push # None
        /\ remote' = job[d].push
    BY <2>2, <2>3 DEF Publish
  <2> QED
    BY <1>1, <2>1, <2>2, <2>4 DEF LossInv, KeptInv
<1>2. IInv => TypeOK
  BY DEF IInv
<1> QED
  BY <1>1, <1>2, IInvInit, IInvStep, SticksInit, SticksStep, LossInit, LossStep,
     PTL DEF Spec, DeletionMeant

(***************************************************************************)
(* MetadataSync, for users of the repository as the run has them: Allowed  *)
(* is empty.                                                               *)
(***************************************************************************)

Tombstone(d) == [hash |-> Absent, time |-> Head(tombs[d]), dev |-> d]

\* The records there are: in manifests, in rounds, on the remote, of the files
\* as they are and of the deletions that are kept.
Around(r) ==
  \/ r = remoteRec
  \/ \E d \in Ids :
       \/ r = rec[d] \/ r = version[d]
       \/ r = round[d].mine \/ r = round[d].fetched \/ r = round[d].staged
       \/ tombs[d] # <<>> /\ r = Tombstone(d)

\* A device keeps one deletion at a time.
TombsInv ==
  \A d \in Ids : tombs[d] = <<>> \/ (edits > 0 /\ \E t \in Times : tombs[d] = <<t>>)

BoundsInv ==
  /\ 0 < now
  /\ \A d \in Ids : last[d] <= now /\ file[d] <= edits /\ round[d].base <= edits

\* A record is of a change that was made: a device and a time tell what it was,
\* and a content by whom and when.
RecordInv ==
  \A r \in Records : Around(r) =>
    /\ r.time <= last[r.dev] /\ r.hash <= edits
    /\ \A s \in Records : Around(s) =>
         /\ r.dev = s.dev /\ r.time = s.time => r.hash = s.hash
         /\ IsUpsert(r) /\ r.hash = s.hash => r = s

\* The version of a file is the manifest's or the user's own; a file that is gone
\* and still in the manifest has a deletion to tell.
Own(d) == [hash |-> file[d], time |-> mtime[d], dev |-> d]
FileInv(d) ==
  IF file[d] \in Contents
  THEN /\ version[d] # NoRecord /\ version[d].hash = file[d]
       /\ rec[d].hash # file[d] => version[d] = Own(d)
  ELSE /\ version[d] = NoRecord \/ IsDelete(version[d])
       /\ IsUpsert(rec[d]) => tombs[d] # <<>> /\ version[d] \in {NoRecord, Tombstone(d)}

\* A file that is not as in the round's snapshot was changed by the user.
DuringInv(d) ==
  /\ round[d].at = "idle" => round[d] = NoRound
  /\ round[d].at # "idle" /\ file[d] # round[d].base =>
       IF file[d] \in Contents
       THEN version[d] = Own(d) /\ rec[d].hash # file[d]
       ELSE /\ tombs[d] # <<>> /\ round[d].gone = {}
            /\ version[d] \in {NoRecord, Tombstone(d)}
  /\ round[d].at # "idle" /\ round[d].base = Absent /\ IsUpsert(rec[d]) => tombs[d] # <<>>
  /\ round[d].at \in {"seeded", "merged"} =>
       (round[d].base \in Contents <=> IsUpsert(round[d].mine))
  /\ \A t \in round[d].gone : tombs[d] = <<t>>

\* What a round has merged, and what it fetched.
MergeInv(d) ==
  round[d].at = "merged" =>
    LET m == Merged(round[d].mine, round[d].fetched) IN
    /\ \/ round[d].staged = m
       \/ round[d].staged = NoRecord /\ IsDelete(m) /\ Forgotten(m.time)
    /\ ~round[d].stale => round[d].fetched = remoteRec

\* What a round takes covers what the user did before its snapshot.
Stands(r, d) == Covers(r, version[d]) \/ LostDeletion(d)
TakenInv(d) ==
  round[d].at # "idle" /\ file[d] = round[d].base =>
  /\ round[d].at \in {"seeded", "merged"} => Stands(round[d].mine, d)
  /\ round[d].at \in {"merged", "published"} =>
       \/ Stands(round[d].staged, d)
       \/ /\ file[d] \in Contents /\ round[d].staged = NoRecord
          /\ round[d].fetched # NoRecord /\ Stands(round[d].fetched, d)

FilesInv(d) == FileInv(d) /\ DuringInv(d) /\ MergeInv(d) /\ TakenInv(d)

MetadataInv ==
  /\ MetadataTypeOK /\ TombsInv /\ BoundsInv /\ RecordInv
  /\ \A d \in Ids : FilesInv(d)

\* The deletions of a device are none or one, and so is what is left of them.
LEMMA LatestOfNone == LatestFirst({}) = <<>>
<1>1. Cardinality({}) = 0
  BY FS_EmptySet
<1>2. \A f \in [1..0 -> {}] : f = <<>>
  OBVIOUS
<1>3. <<>> \in [1..0 -> {}]
  OBVIOUS
<1> QED BY <1>1, <1>2, <1>3 DEF LatestFirst

LEMMA LatestOfOne == ASSUME NEW t PROVE LatestFirst({t}) = <<t>>
<1>1. Cardinality({t}) = 1
  BY FS_Singleton
<1>2. \A f \in [1..1 -> {t}] : f = <<t>>
  OBVIOUS
<1>3. <<t>> \in [1..1 -> {t}] /\ DOMAIN <<t>> = 1..1
  OBVIOUS
<1> QED BY <1>1, <1>2, <1>3 DEF LatestFirst

\* A sequence of one deletion.
LEMMA OneElement ==
  ASSUME NEW t
  PROVE  Append(<<>>, t) = <<t>> /\ Head(<<t>>) = t /\ <<t>> # <<>>
  OBVIOUS

\* A record is an upsert or a delete, and never both.
LEMMA RecordKinds ==
  /\ \A r \in Records : /\ r # NoRecord /\ r.hash \in Files
                        /\ r.time \in Times /\ r.dev \in Ids
                        /\ IsUpsert(r) \/ IsDelete(r)
  /\ \A r \in Known : r # NoRecord => r \in Records
  /\ \A r : ~(IsUpsert(r) /\ IsDelete(r))
  /\ NoRecord \in Known /\ ~IsUpsert(NoRecord) /\ ~IsDelete(NoRecord)
  /\ Absent \notin Contents /\ \A c \in Files : c = Absent \/ c \in Contents
  BY MetadataAssumption
     DEF Records, Known, NoRecord, IsUpsert, IsDelete, Files, Contents, Absent, Ids, Times

\* The rule has no losers on both sides: a record that is not beaten beats the
\* other, if of one device and time there is one version.
LEMMA WinnerBack ==
  ASSUME NEW l \in Records, NEW r \in Records, Winner(l, r) # "remote",
         l.dev = r.dev /\ l.time = r.time => l.hash = r.hash
  PROVE  Beats(l, r)
  BY MetadataAssumption DEF Beats, Winner, Records, Times, Ids

\* The remote side wins only by being later, or as late and of a greater device.
LEMMA WinnerLater ==
  ASSUME NEW l \in Records, NEW r \in Records, Winner(l, r) = "remote"
  PROVE  Later(r, l)
  BY MetadataAssumption DEF Later, Winner, Records, Times, Ids

\* A record beats itself.
LEMMA BeatsSelf ==
  ASSUME NEW r \in Records
  PROVE  Beats(r, r)
  BY DEF Beats, Winner, Records, Times, Ids

\* Later is transitive; Beats is not, for deletions as late as each other tie.
LEMMA LaterThan ==
  ASSUME NEW x \in Records, NEW y \in Records, NEW z \in Records, Later(x, y),
         Later(y, z)
  PROVE  Later(x, z)
  BY MetadataAssumption DEF Later, Records, Times, Ids

\* What covers what covers a version covers the version.
LEMMA CoversOn ==
  ASSUME NEW x \in Records, NEW y \in Records, NEW v \in Known,
         x = y \/ Later(x, y), Covers(y, v)
  PROVE  Covers(x, v)
<1>1. CASE v = NoRecord
  BY <1>1 DEF Covers
<1>2. CASE v \in Records
  BY <1>2, LaterThan, RecordKinds DEF Covers
<1> QED BY <1>1, <1>2, RecordKinds

\* A merge takes one of the two sides, the later one.
LEMMA MergedOf ==
  ASSUME NEW l \in Known, NEW r \in Known
  PROVE  /\ Merged(l, r) \in {l, r}
         /\ Merged(l, r) = NoRecord => l = NoRecord /\ r = NoRecord
         /\ Merged(l, r) # l => l = NoRecord \/ Later(r, l)
         /\ Merged(l, r) # r => r = NoRecord \/ Winner(l, r) # "remote"
<1>1. CASE l = NoRecord \/ r = NoRecord
  BY <1>1 DEF Merged
<1>2. CASE l \in Records /\ r \in Records
  BY <1>2, WinnerLater, RecordKinds DEF Merged
<1> QED BY <1>1, <1>2, RecordKinds

-----------------------------------------------------------------------------
(* Types.                                                                    *)

\* The fields of a round.
LEMMA RoundFields ==
  ASSUME MetadataTypeOK, NEW d \in Ids
  PROVE  /\ round[d] \in Rounds
         /\ round[d].at \in {"idle", "seeded", "merged", "published"}
         /\ round[d].base \in Files
         /\ round[d].mine \in Known /\ round[d].fetched \in Known
         /\ round[d].staged \in Known
         /\ round[d].gone \in SUBSET Times /\ round[d].stale \in BOOLEAN
<1>1. round[d] \in Rounds
  BY DEF MetadataTypeOK
<1> QED BY <1>1 DEF Rounds

LEMMA NoRoundType == NoRound \in Rounds
  BY RecordKinds DEF NoRound, Rounds, Files

\* What a device has to say of its file is a record or nothing.
LEMMA RecordOfType ==
  ASSUME MetadataTypeOK, TombsInv, NEW d \in Ids
  PROVE  /\ RecordOf(d, file[d]) \in Known /\ Snapshot(d) \in Known
         /\ tombs[d] # <<>> => Tombstone(d) \in Records
         /\ file[d] \in Contents => Own(d) \in Records
<1>1. file[d] \in Files /\ mtime[d] \in Times /\ rec[d] \in Known
  BY DEF MetadataTypeOK
<1>2. ASSUME tombs[d] # <<>>
      PROVE  Tombstone(d) \in Records
  <2>1. PICK t \in Times : tombs[d] = <<t>>
    BY <1>2 DEF TombsInv
  <2> QED BY <2>1 DEF Tombstone, Records, Files
<1>3. file[d] \in Contents => Own(d) \in Records
  BY <1>1 DEF Own, Records
<1>4. RecordOf(d, file[d]) \in Known
  BY <1>1, <1>2, <1>3, RecordKinds DEF RecordOf, Known, Own, Tombstone
<1> QED BY <1>1, <1>2, <1>3, <1>4 DEF Snapshot

\* What a snapshot takes is the version of a file that is there.
LEMMA SnapshotIs ==
  ASSUME MetadataTypeOK, TombsInv, RecordInv, NEW d \in Ids, FileInv(d)
  PROVE  /\ file[d] \in Contents => Snapshot(d) = version[d] /\ IsUpsert(Snapshot(d))
         /\ file[d] \notin Contents => ~IsUpsert(Snapshot(d))
         /\ file[d] \notin Contents /\ IsUpsert(rec[d]) => Snapshot(d) = Tombstone(d)
         /\ file[d] \notin Contents /\ ~IsUpsert(rec[d]) => Snapshot(d) = rec[d]
<1>1. file[d] \in Files /\ rec[d] \in Known /\ version[d] \in Known
  BY DEF MetadataTypeOK
<1>2. CASE file[d] \in Contents /\ rec[d].hash = file[d]
  <2>1. version[d].hash = file[d] /\ IsUpsert(rec[d]) /\ version[d] # NoRecord
    BY <1>2 DEF FileInv, IsUpsert
  <2>2. rec[d] \in Records /\ version[d] \in Records
    BY <1>1, <2>1, RecordKinds
  <2>3. rec[d] = version[d]
    BY <1>2, <2>1, <2>2 DEF RecordInv, Around
  <2> QED BY <1>2, <2>1, <2>3 DEF Snapshot, RecordOf
<1>3. CASE file[d] \in Contents /\ rec[d].hash # file[d]
  BY <1>3 DEF FileInv, Own, Snapshot, RecordOf, IsUpsert
<1>4. CASE file[d] \notin Contents /\ IsUpsert(rec[d])
  BY <1>4, RecordKinds DEF FileInv, Snapshot, RecordOf, Tombstone, IsUpsert
<1>5. CASE file[d] \notin Contents /\ ~IsUpsert(rec[d])
  BY <1>5 DEF Snapshot
<1> QED BY <1>2, <1>3, <1>4, <1>5

\* What a step needs for its types; how a round ends without a commit.
Typed == MetadataTypeOK /\ TombsInv
EndRound(d) == Rejected(d) \/ StopRound(d)

\* A commit keeps the deletion unless the round forgot it.
LEMMA MergedTombsOf ==
  ASSUME Typed, NEW d \in Ids
  PROVE  MergedTombs(d) = IF tombs[d] = <<>> \/ Head(tombs[d]) \in round[d].gone
                          THEN <<>> ELSE tombs[d]
<1>1. CASE tombs[d] = <<>>
  BY <1>1, LatestOfNone DEF MergedTombs, ToSet
<1>2. CASE tombs[d] # <<>>
  <2>1. PICK t \in Times : tombs[d] = <<t>>
    BY <1>2 DEF Typed, TombsInv
  <2>2. ToSet(tombs[d]) = {t} /\ Head(tombs[d]) = t
    BY <2>1 DEF ToSet
  <2> QED BY <1>2, <2>1, <2>2, LatestOfNone, LatestOfOne DEF MergedTombs
<1> QED BY <1>1, <1>2

\* So a deletion is kept once.
LEMMA KeptOnce ==
  ASSUME NEW s, s = <<>> \/ \E t \in Times : s = <<t>>
  PROVE  IsInjective(s)
<1>1. CASE s = <<>>
  BY <1>1 DEF IsInjective
<1>2. ASSUME NEW t \in Times, s = <<t>> PROVE IsInjective(s)
  <2>1. DOMAIN s = {1}
    BY <1>2
  <2> QED BY <2>1 DEF IsInjective
<1> QED BY <1>1, <1>2

\* Types, step by step.
LEMMA TickTyped == ASSUME Typed, Tick PROVE Typed'
  BY MetadataAssumption
     DEF Typed, MetadataTypeOK, TombsInv, Tick, liveVars, Times

\* A round ends without a commit.
LEMMA EndTyped == ASSUME Typed, NEW d \in Ids, EndRound(d) PROVE Typed'
  BY NoRoundType
     DEF Typed, MetadataTypeOK, TombsInv, EndRound, Rejected, StopRound, outside, liveVars

LEMMA SeedTyped == ASSUME Typed, NEW d \in Ids, Seed(d) PROVE Typed'
<1> DEFINE new == [NoRound EXCEPT !.at = "seeded", !.base = file[d],
                                  !.mine = Snapshot(d), !.gone = ToSet(tombs[d])]
<1>1. round' = [round EXCEPT ![d] = new]
  BY DEF Seed
<1>2. ToSet(tombs[d]) \in SUBSET Times
  BY DEF Typed, TombsInv, ToSet
<1>3. file[d] \in Files
  BY DEF Typed, MetadataTypeOK
<1>4. new \in Rounds
  BY <1>2, <1>3, NoRoundType, RecordOfType DEF Typed, Rounds, NoRound
<1> QED BY <1>1, <1>4
           DEF Typed, MetadataTypeOK, TombsInv, Seed, outside, liveVars

LEMMA MergeTyped == ASSUME Typed, NEW d \in Ids, Merge(d) PROVE Typed'
<1> DEFINE new == [round[d] EXCEPT !.at = "merged", !.fetched = remoteRec,
                       !.staged = Purge(Merged(round[d].mine, remoteRec)),
                       !.gone = {t \in round[d].gone : Forgotten(t)}]
<1>1. round' = [round EXCEPT ![d] = new]
  BY DEF Merge
<1>2. remoteRec \in Known /\ round[d] \in Rounds
  BY RoundFields DEF Typed, MetadataTypeOK
<1>3. Purge(Merged(round[d].mine, remoteRec)) \in Known
  BY <1>2, MergedOf, RecordKinds, RoundFields DEF Purge, Typed
<1>4. new \in Rounds
  BY <1>2, <1>3 DEF Rounds
<1> QED BY <1>1, <1>4
           DEF Typed, MetadataTypeOK, TombsInv, Merge, outside, liveVars

LEMMA PublishTyped == ASSUME Typed, NEW d \in Ids, PublishRecord(d) PROVE Typed'
<1>1. \A e \in Ids : /\ Told(e) \in Rounds
                     /\ [round[e] EXCEPT !.stale = (round[e].at = "merged")] \in Rounds
  BY RoundFields, RecordKinds DEF Typed, Told, Rounds
<1>2. round' \in [Ids -> Rounds]
  BY <1>1 DEF PublishRecord, Typed, MetadataTypeOK
<1>3. remoteRec' \in Known
  BY RoundFields DEF PublishRecord, Typed, MetadataTypeOK
<1> QED BY <1>2, <1>3
        DEF Typed, MetadataTypeOK, TombsInv, PublishRecord, outside, liveVars

LEMMA CommitTyped == ASSUME Typed, NEW d \in Ids, CommitFile(d) PROVE Typed'
<1>1. /\ Incoming(d) \in Files /\ round[d].staged \in Known /\ now \in Times
  BY RoundFields, RecordKinds DEF Typed, Incoming, MetadataTypeOK, Files
<1>2. /\ file' \in [Ids -> Files] /\ mtime' \in [Ids -> Times]
      /\ version' \in [Ids -> Known] /\ rec' \in [Ids -> Known]
  BY <1>1 DEF CommitFile, Typed, MetadataTypeOK
<1>3. round' \in [Ids -> Rounds]
  BY NoRoundType DEF CommitFile, Typed, MetadataTypeOK
<1>4. /\ tombs' = [tombs EXCEPT ![d] = MergedTombs(d)]
      /\ MergedTombs(d) = <<>> \/ MergedTombs(d) = tombs[d]
  BY MergedTombsOf DEF CommitFile
<1>5. \A e \in Ids : tombs'[e] = <<>> \/ tombs'[e] = tombs[e]
  BY <1>4 DEF Typed, TombsInv
<1>6. TombsInv'
  BY <1>5 DEF Typed, TombsInv, CommitFile
<1>7. tombs' \in [Ids -> Seq(Times)] /\ \A e \in Ids : IsInjective(tombs'[e])
  <2>1. <<>> \in Seq(Times)
    OBVIOUS
  <2>2. tombs' \in [Ids -> Seq(Times)]
    BY <1>4, <2>1 DEF Typed, MetadataTypeOK
  <2>3. \A e \in Ids : IsInjective(tombs'[e])
    BY <1>6, KeptOnce DEF TombsInv
  <2> QED BY <2>2, <2>3
<1> QED BY <1>2, <1>3, <1>6, <1>7 DEF Typed, MetadataTypeOK, CommitFile

LEMMA EditTyped ==
  ASSUME Typed, NEW d \in Ids, NEW c \in Contents, EditFile(d, c)
  PROVE  Typed'
<1>1. /\ edits' \in 0..MaxEdits /\ edits' > 0 /\ c \in Files /\ now \in Times
  BY MetadataAssumption DEF Typed, MetadataTypeOK, EditFile, Changes, Files
<1>2. [hash |-> c, time |-> now, dev |-> d] \in Known
  BY <1>1 DEF Known, Records
<1> QED BY <1>1, <1>2 DEF Typed, MetadataTypeOK, TombsInv, EditFile, Changes

\* The second of a deletion is not in the future.
LEMMA SecondType ==
  ASSUME Typed
  PROVE  ThisSecond \in Times /\ ThisSecond <= now
<1>1. now \in Nat /\ now <= MaxTime /\ Second \in Nat /\ Second > 0 /\ MaxTime \in Nat
  BY MetadataAssumption DEF Typed, MetadataTypeOK, Times
<1>2. (now \div Second) \in Nat /\ (now \div Second) * Second <= now
  BY <1>1
<1> QED BY <1>1, <1>2 DEF ThisSecond, Times

LEMMA DeleteTyped ==
  ASSUME Typed, NEW d \in Ids, DeleteFile(d), "again" \notin Allowed
  PROVE  Typed'
<1>0. Changes(d)
  BY DEF DeleteFile
<1>1. edits' \in 0..MaxEdits /\ edits' > 0
  BY <1>0, MetadataAssumption DEF Typed, MetadataTypeOK, Changes
<1>2. ThisSecond \in Times /\ [hash |-> Absent, time |-> ThisSecond, dev |-> d] \in Known
  BY SecondType DEF Known, Records, Files
<1>3. tombs' = [tombs EXCEPT ![d] = <<ThisSecond>>]
  <2>1. tombs[d] = <<>> /\ tombs' = [tombs EXCEPT ![d] = Append(tombs[d], ThisSecond)]
    BY DEF DeleteFile
  <2> QED BY <2>1, OneElement
<1>4. TombsInv'
  BY <1>1, <1>2, <1>3 DEF Typed, TombsInv
<1>5. tombs' \in [Ids -> Seq(Times)] /\ \A e \in Ids : IsInjective(tombs'[e])
  <2>1. <<ThisSecond>> \in Seq(Times)
    BY <1>2
  <2>2. tombs' \in [Ids -> Seq(Times)]
    BY <1>3, <2>1 DEF Typed, MetadataTypeOK
  <2>3. \A e \in Ids : IsInjective(tombs'[e])
    BY <1>4, KeptOnce DEF TombsInv
  <2> QED BY <2>2, <2>3
<1>6. Absent \in Files
  BY DEF Files
<1>7. /\ file' = [file EXCEPT ![d] = Absent]
      /\ version' = [version EXCEPT ![d] =
           IF IsUpsert(rec[d]) THEN [hash |-> Absent, time |-> ThisSecond, dev |-> d]
                               ELSE NoRecord]
      /\ UNCHANGED mtime
  BY DEF DeleteFile
<1>8. file' \in [Ids -> Files] /\ version' \in [Ids -> Known] /\ mtime' \in [Ids -> Times]
  BY <1>2, <1>6, <1>7, RecordKinds DEF Typed, MetadataTypeOK
<1> QED BY <1>0, <1>1, <1>4, <1>5, <1>8 DEF Typed, MetadataTypeOK, Changes

-----------------------------------------------------------------------------
(* The records there are.                                                    *)

\* Steps that make no record keep what is said of records.
LEMMA RecordsKept ==
  ASSUME RecordInv, UNCHANGED <<last, edits>>,
         \A r \in Records : Around(r)' => Around(r)
  PROVE  RecordInv'
<1> SUFFICES ASSUME NEW r \in Records, Around(r)'
             PROVE  /\ r.time <= last[r.dev] /\ r.hash <= edits
                    /\ \A s \in Records : Around(s)' =>
                         /\ r.dev = s.dev /\ r.time = s.time => r.hash = s.hash
                         /\ IsUpsert(r) /\ r.hash = s.hash => r = s
  BY DEF RecordInv, IsUpsert
<1> QED BY DEF RecordInv

\* A change of the user makes one, of a time that has none of his yet.
LEMMA RecordsNew ==
  ASSUME Typed, RecordInv, NEW d \in Ids, NEW n \in Records, Changes(d),
         n.dev = d, last[d] < n.time, n.time <= now, n.hash \in {Absent, edits + 1},
         \A r \in Records : Around(r)' => Around(r) \/ r = n
  PROVE  RecordInv'
<1>1. /\ last \in [Ids -> Nat] /\ edits \in Nat /\ now \in Nat /\ last[d] < now
      /\ edits' = edits + 1 /\ last' = [last EXCEPT ![d] = now]
  BY MetadataAssumption DEF Typed, MetadataTypeOK, Changes, Times
<1>2. \A r \in Records : /\ r.dev \in Ids /\ r.time \in Nat /\ r.hash \in Nat
                         /\ r.hash # edits + 1 \/ ~Around(r)
                         /\ Around(r) => r.time <= last[r.dev] /\ r.hash <= edits
  BY <1>1, MetadataAssumption
     DEF RecordInv, Records, Files, Contents, Absent, Times
<1>3. \A r \in Records : Around(r) => r.time <= last'[r.dev] /\ r.hash <= edits'
  BY <1>1, <1>2
<1>4. \A r \in Records : Around(r) /\ r.dev = d => r.time # n.time
  BY <1>1, <1>2
<1>5. \A r \in Records : Around(r) /\ IsUpsert(n) => r.hash # n.hash
  BY <1>2, RecordKinds DEF IsUpsert
<1>6. n.time <= last'[n.dev] /\ n.hash <= edits'
  BY <1>1 DEF Absent
<1> SUFFICES ASSUME NEW r \in Records, Around(r)'
             PROVE  /\ r.time <= last'[r.dev] /\ r.hash <= edits'
                    /\ \A s \in Records : Around(s)' =>
                         /\ r.dev = s.dev /\ r.time = s.time => r.hash = s.hash
                         /\ IsUpsert(r) /\ r.hash = s.hash => r = s
  BY DEF RecordInv, IsUpsert
<1>7. r.time <= last'[r.dev] /\ r.hash <= edits'
  BY <1>3, <1>6
<1>8. ASSUME NEW s \in Records, Around(s)'
      PROVE  /\ r.dev = s.dev /\ r.time = s.time => r.hash = s.hash
             /\ IsUpsert(r) /\ r.hash = s.hash => r = s
  <2>1. CASE r = n /\ s = n
    BY <2>1
  <2>2. CASE r = n /\ Around(s)
    BY <2>2, <1>4, <1>5
  <2>3. CASE Around(r) /\ s = n
    BY <2>3, <1>4, <1>5 DEF IsUpsert
  <2>4. CASE Around(r) /\ Around(s)
    BY <2>4 DEF RecordInv
  <2> QED BY <1>8, <2>1, <2>2, <2>3, <2>4
<1> QED BY <1>7, <1>8

\* Records, step by step.
LEMMA TickRecords == ASSUME RecordInv, Tick PROVE RecordInv'
<1>1. \A r \in Records : Around(r)' => Around(r)
  BY DEF Around, Tick, liveVars, Tombstone
<1> QED BY <1>1, RecordsKept DEF Tick

LEMMA EndRecords == ASSUME Typed, RecordInv, NEW d \in Ids, EndRound(d) PROVE RecordInv'
<1>1. /\ UNCHANGED <<rec, version, tombs, remoteRec, last, edits>>
      /\ round' = [round EXCEPT ![d] = NoRound]
  BY DEF EndRound, Rejected, StopRound, outside, liveVars
<1>2. \A e \in Ids : round'[e] = round[e] \/ (/\ round'[e].mine = NoRecord
                                              /\ round'[e].fetched = NoRecord
                                              /\ round'[e].staged = NoRecord)
  BY <1>1 DEF Typed, MetadataTypeOK, NoRound
<1>3. \A r \in Records : Around(r)' => Around(r)
  BY <1>1, <1>2, RecordKinds DEF Around, Tombstone
<1> QED BY <1>1, <1>3, RecordsKept

LEMMA SeedRecords ==
  ASSUME Typed, RecordInv, NEW d \in Ids, FileInv(d), Seed(d)
  PROVE  RecordInv'
<1>1. UNCHANGED <<rec, version, tombs, remoteRec, last, edits>>
  BY DEF Seed, outside, liveVars
<1>2. \A e \in Ids :
        round'[e] = round[e] \/ (/\ e = d /\ round'[e].mine = Snapshot(d)
                                 /\ round'[e].fetched = NoRecord
                                 /\ round'[e].staged = NoRecord)
  BY DEF Seed, Typed, MetadataTypeOK, NoRound
<1>3. Snapshot(d) \in Records => Around(Snapshot(d))
  BY SnapshotIs DEF Typed, FileInv, Around
<1>4. \A r \in Records : Around(r)' => Around(r)
  BY <1>1, <1>2, <1>3, RecordKinds DEF Around, Tombstone
<1> QED BY <1>1, <1>4, RecordsKept

LEMMA MergeRecords ==
  ASSUME Typed, RecordInv, NEW d \in Ids, Merge(d)
  PROVE  RecordInv'
<1>1. UNCHANGED <<rec, version, tombs, remoteRec, last, edits>>
  BY DEF Merge, outside, liveVars
<1>2. \A e \in Ids :
        round'[e] = round[e] \/ (/\ e = d /\ round'[e].mine = round[e].mine
                                 /\ round'[e].fetched = remoteRec
                                 /\ round'[e].staged = Purge(Merged(round[d].mine, remoteRec)))
  BY RoundFields DEF Merge, Typed, MetadataTypeOK, Rounds
<1>3. Purge(Merged(round[d].mine, remoteRec)) \in {NoRecord, round[d].mine, remoteRec}
  BY MergedOf, RoundFields DEF Typed, MetadataTypeOK, Purge
<1>4. \A r \in Records : Around(r)' => Around(r)
  BY <1>1, <1>2, <1>3, RecordKinds DEF Around, Tombstone
<1> QED BY <1>1, <1>4, RecordsKept

\* A publication changes of the other rounds only whether they are stale.
LEMMA PublishFields ==
  ASSUME Typed, NEW d \in Ids, PublishRecord(d), NEW e \in Ids
  PROVE  /\ round'[e].base = round[e].base /\ round'[e].gone = round[e].gone
         /\ round'[e].fetched = round[e].fetched /\ round'[e].staged = round[e].staged
         /\ e = d => round'[e].at = "published" /\ round'[e].mine = NoRecord
         /\ e # d => /\ round'[e].at = round[e].at /\ round'[e].mine = round[e].mine
                    /\ \/ round'[e] = round[e] /\ remoteRec' = remoteRec
                       \/ round'[e].stale = (round[e].at = "merged")
<1>1. round \in [Ids -> Rounds] /\ round[e] \in Rounds
  BY RoundFields DEF Typed, MetadataTypeOK
<1>2. CASE e = d
  <2>1. round'[e] = Told(d)
    BY <1>1, <1>2 DEF PublishRecord
  <2>2. /\ Told(d).base = round[d].base /\ Told(d).gone = round[d].gone
        /\ Told(d).fetched = round[d].fetched /\ Told(d).staged = round[d].staged
        /\ Told(d).at = "published" /\ Told(d).mine = NoRecord
    BY <1>1, <1>2 DEF Told, Rounds
  <2> QED BY <1>2, <2>1, <2>2
<1>3. CASE e # d
  <2>1. \/ round'[e] = round[e] /\ remoteRec' = remoteRec
        \/ round'[e] = [round[e] EXCEPT !.stale = (round[e].at = "merged")]
    BY <1>1, <1>3 DEF PublishRecord
  <2>2. CASE round'[e] = round[e] /\ remoteRec' = remoteRec
    BY <1>3, <2>2
  <2>3. CASE round'[e] = [round[e] EXCEPT !.stale = (round[e].at = "merged")]
    BY <1>1, <1>3, <2>3 DEF Rounds
  <2> QED BY <2>1, <2>2, <2>3
<1> QED BY <1>2, <1>3

LEMMA PublishRecords ==
  ASSUME Typed, RecordInv, NEW d \in Ids, PublishRecord(d)
  PROVE  RecordInv'
<1>1. /\ UNCHANGED <<rec, version, tombs, last, edits>>
      /\ remoteRec' \in {remoteRec, round[d].staged}
  BY DEF PublishRecord, outside, liveVars
<1>2. \A e \in Ids : /\ round'[e].mine \in {NoRecord, round[e].mine}
                     /\ round'[e].fetched = round[e].fetched
                     /\ round'[e].staged = round[e].staged
  BY PublishFields
<1>3. \A r \in Records : Around(r)' => Around(r)
  BY <1>1, <1>2, RecordKinds DEF Around, Tombstone
<1> QED BY <1>1, <1>3, RecordsKept

LEMMA CommitRecords ==
  ASSUME Typed, RecordInv, NEW d \in Ids, CommitFile(d)
  PROVE  RecordInv'
<1>1. UNCHANGED <<last, edits, remoteRec>>
  BY DEF CommitFile
<1>2. \A e \in Ids :
        /\ rec'[e] = rec[e] \/ (e = d /\ rec'[e] = round[d].staged)
        /\ version'[e] = version[e] \/ (e = d /\ version'[e] = round[d].staged)
  BY DEF CommitFile, Typed, MetadataTypeOK
<1>3. \A e \in Ids : tombs'[e] = tombs[e] \/ tombs'[e] = <<>>
  BY MergedTombsOf DEF CommitFile, Typed, TombsInv
<1>4. \A e \in Ids : round'[e] = round[e] \/ (/\ round'[e].mine = NoRecord
                                              /\ round'[e].fetched = NoRecord
                                              /\ round'[e].staged = NoRecord)
  BY DEF CommitFile, Typed, MetadataTypeOK, NoRound
<1>5. \A r \in Records : Around(r)' => Around(r)
  BY <1>1, <1>2, <1>3, <1>4, RecordKinds DEF Around, Tombstone
<1> QED BY <1>1, <1>5, RecordsKept

LEMMA EditRecords ==
  ASSUME Typed, RecordInv, NEW d \in Ids, NEW c \in Contents, EditFile(d, c),
         "back" \notin Allowed
  PROVE  RecordInv'
<1> DEFINE n == [hash |-> c, time |-> now, dev |-> d]
<1>1. Changes(d) /\ c = edits + 1
  BY DEF EditFile, Changes
<1>2. n \in Records /\ now \in Nat
  BY MetadataAssumption DEF Records, Files, Typed, MetadataTypeOK, Times
<1>3. UNCHANGED <<rec, tombs, remoteRec, round>>
  BY DEF EditFile, Changes
<1>4. \A e \in Ids : version'[e] = version[e] \/ version'[e] = n
  BY DEF EditFile, Typed, MetadataTypeOK
<1>5. \A r \in Records : Around(r)' => Around(r) \/ r = n
  BY <1>3, <1>4 DEF Around, Tombstone
<1>6. last[d] < n.time /\ n.time <= now /\ n.dev = d /\ n.hash \in {Absent, edits + 1}
  BY <1>1, <1>2 DEF Changes
<1> QED BY ONLY Typed, RecordInv, d \in Ids, <1>1, <1>2, <1>5, <1>6, RecordsNew

LEMMA DeleteRecords ==
  ASSUME Typed, RecordInv, NEW d \in Ids, DeleteFile(d),
         "again" \notin Allowed, "same second" \notin Allowed
  PROVE  RecordInv'
<1> DEFINE n == [hash |-> Absent, time |-> ThisSecond, dev |-> d]
<1>1. Changes(d) /\ last[d] < ThisSecond /\ tombs[d] = <<>>
  BY DEF DeleteFile
<1>2. n \in Records /\ ThisSecond <= now
  BY SecondType DEF Records, Files
<1>3. UNCHANGED <<rec, remoteRec, round>>
  BY <1>1 DEF Changes
<1>4. \A e \in Ids : version'[e] \in {version[e], n, NoRecord}
  BY DEF DeleteFile, Typed, MetadataTypeOK
<1>5. tombs' = [tombs EXCEPT ![d] = <<ThisSecond>>]
  <2>1. tombs' = [tombs EXCEPT ![d] = Append(tombs[d], ThisSecond)]
    BY DEF DeleteFile
  <2> QED BY <1>1, <2>1, OneElement
<1>6. \A e \in Ids : tombs'[e] = tombs[e] \/ (e = d /\ tombs'[e] = <<ThisSecond>>)
  BY <1>5 DEF Typed, MetadataTypeOK
<1>7. \A e \in Ids : tombs'[e] # <<>> => \/ tombs[e] # <<>> /\ Tombstone(e)' = Tombstone(e)
                                         \/ Tombstone(e)' = n
  BY <1>6, OneElement DEF Tombstone
<1>8. \A r \in Records : Around(r)' => Around(r) \/ r = n
  BY <1>3, <1>4, <1>7, RecordKinds DEF Around
<1>9. last[d] < n.time /\ n.time <= now /\ n.dev = d /\ n.hash \in {Absent, edits + 1}
  BY <1>1, <1>2
<1> QED BY ONLY Typed, RecordInv, d \in Ids, <1>1, <1>2, <1>8, <1>9, RecordsNew

-----------------------------------------------------------------------------
(* Bounds.                                                                   *)

\* Bounds, step by step.
LEMMA TickBounds == ASSUME Typed, BoundsInv, Tick PROVE BoundsInv'
  BY MetadataAssumption
     DEF Typed, MetadataTypeOK, BoundsInv, Tick, liveVars, Times

LEMMA EndBounds == ASSUME Typed, BoundsInv, NEW d \in Ids, EndRound(d) PROVE BoundsInv'
<1>1. \A e \in Ids : round'[e].base \in {round[e].base, 0}
  <2>1. round' = [round EXCEPT ![d] = NoRound]
    BY DEF EndRound, Rejected, StopRound
  <2> QED BY <2>1 DEF Typed, MetadataTypeOK, NoRound, Absent
<1>2. edits \in Nat
  BY DEF Typed, MetadataTypeOK
<1> QED BY <1>1, <1>2
           DEF BoundsInv, EndRound, Rejected, StopRound, outside, liveVars

LEMMA SeedBounds == ASSUME Typed, BoundsInv, NEW d \in Ids, Seed(d) PROVE BoundsInv'
<1>1. \A e \in Ids : round'[e].base \in {round[e].base, file[e]}
  BY DEF Typed, MetadataTypeOK, Seed, NoRound
<1> QED BY <1>1 DEF BoundsInv, Seed, outside, liveVars

\* A round keeps its snapshot.
LEMMA SameBases ==
  ASSUME Typed, NEW d \in Ids, Merge(d) \/ PublishRecord(d)
  PROVE  \A e \in Ids : round'[e].base = round[e].base
<1>1. CASE Merge(d)
  BY <1>1, RoundFields DEF Typed, MetadataTypeOK, Merge, Rounds
<1>2. CASE PublishRecord(d)
  BY <1>2, PublishFields
<1> QED BY <1>1, <1>2

LEMMA MergeBounds ==
  ASSUME Typed, BoundsInv, NEW d \in Ids, Merge(d) \/ PublishRecord(d)
  PROVE  BoundsInv'
  BY SameBases DEF BoundsInv, Merge, PublishRecord, outside, liveVars

\* What a commit brings is the file of the record the round took.
LEMMA IncomingIs ==
  ASSUME Typed, RecordInv, NEW d \in Ids
  PROVE  /\ round[d].staged \in Known
         /\ Incoming(d) = round[d].staged.hash /\ Incoming(d) \in Files
         /\ Incoming(d) \in Contents <=> IsUpsert(round[d].staged)
         /\ Incoming(d) \in Contents => round[d].staged \in Records
         /\ round[d].staged \in Records => Incoming(d) <= edits
<1>1. round[d].staged \in Known
  BY RoundFields DEF Typed
<1>2. Incoming(d) = round[d].staged.hash
  BY DEF Incoming, NoRecord
<1>3. round[d].staged \in Records => Incoming(d) <= edits
  BY <1>2 DEF RecordInv, Around
<1> QED BY <1>1, <1>2, <1>3, RecordKinds
           DEF IsUpsert, Known, Records, NoRecord, Files

LEMMA CommitBounds ==
  ASSUME Typed, BoundsInv, RecordInv, NEW d \in Ids, CommitFile(d)
  PROVE  BoundsInv'
<1>1. \A e \in Ids : round'[e].base \in {round[e].base, 0}
  BY DEF Typed, MetadataTypeOK, CommitFile, NoRound, Absent
<1>2. edits \in Nat /\ UNCHANGED <<now, last, edits>>
  BY DEF Typed, MetadataTypeOK, CommitFile
<1>3. Incoming(d) <= edits
  BY <1>2, IncomingIs, RecordKinds DEF NoRecord, Absent
<1>4. \A e \in Ids : file'[e] = file[e] \/ (e = d /\ file'[e] = Incoming(d))
  BY DEF Typed, MetadataTypeOK, CommitFile
<1> QED BY <1>1, <1>2, <1>3, <1>4 DEF BoundsInv

LEMMA UserBounds ==
  ASSUME Typed, BoundsInv, NEW d \in Ids,
         DeleteFile(d) \/ \E c \in Contents : EditFile(d, c)
  PROVE  BoundsInv'
<1>1. /\ now \in Nat /\ edits \in Nat /\ file \in [Ids -> Nat] /\ last \in [Ids -> Nat]
      /\ \A e \in Ids : round[e].base \in Nat
  <2>1. Times \subseteq Nat /\ Files \subseteq Nat /\ 0..MaxEdits \subseteq Nat
    BY MetadataAssumption DEF Times, Files, Contents, Absent
  <2>2. /\ now \in Times /\ edits \in 0..MaxEdits
        /\ file \in [Ids -> Files] /\ last \in [Ids -> Times]
    BY DEF Typed, MetadataTypeOK
  <2>3. \A e \in Ids : round[e].base \in Files
    BY RoundFields DEF Typed
  <2> QED BY <2>1, <2>2, <2>3
<1>2. /\ now' = now /\ edits' = edits + 1 /\ last' = [last EXCEPT ![d] = now]
      /\ round' = round
  BY DEF DeleteFile, EditFile, Changes
<1>3. \A e \in Ids : file'[e] \in Nat /\ (file'[e] = file[e] \/ file'[e] <= edits')
  <2>1. CASE DeleteFile(d)
    <3>1. file' = [file EXCEPT ![d] = Absent]
      BY <2>1 DEF DeleteFile
    <3> QED BY <1>1, <1>2, <3>1 DEF Absent
  <2>2. ASSUME NEW c \in Contents, EditFile(d, c)
        PROVE  \A e \in Ids : file'[e] \in Nat /\ (file'[e] = file[e] \/ file'[e] <= edits')
    <3>1. file' = [file EXCEPT ![d] = c] /\ c <= edits' /\ c \in Nat
      BY <2>2 DEF EditFile, Contents
    <3> QED BY <1>1, <3>1
  <2> QED BY <2>1, <2>2
<1> QED BY <1>1, <1>2, <1>3 DEF BoundsInv

-----------------------------------------------------------------------------
(* Files and rounds.                                                         *)

\* What a step leaves alone of a device.
Spares(e) ==
  /\ UNCHANGED <<now, file[e], mtime[e], rec[e], version[e], tombs[e]>>

\* What is said of a file depends on its device alone.
LEMMA SparedFile ==
  ASSUME NEW e \in Ids, Spares(e)
  PROVE  /\ FileInv(e)' <=> FileInv(e)
         /\ \A r : Stands(r, e)' <=> Stands(r, e)
         /\ LostDeletion(e)' <=> LostDeletion(e)
         /\ Own(e)' = Own(e) /\ Tombstone(e)' = Tombstone(e)
         /\ \A t : Forgotten(t)' <=> Forgotten(t)
  BY DEF Spares, FileInv, Stands, Covers, LostDeletion, Own, Tombstone,
         Forgotten, IsUpsert

\* A step of another device that leaves the remote alone.
LEMMA RestKept ==
  ASSUME NEW e \in Ids, FilesInv(e), Spares(e), round'[e] = round[e],
         remoteRec' = remoteRec
  PROVE  FilesInv(e)'
<1>1. FileInv(e)'
  BY SparedFile DEF FilesInv
<1>2. DuringInv(e)'
  BY SparedFile DEF FilesInv, DuringInv, Spares
<1>3. MergeInv(e)'
  BY SparedFile DEF FilesInv, MergeInv, Spares
<1>4. TakenInv(e)'
  BY SparedFile DEF FilesInv, TakenInv, Spares
<1> QED BY <1>1, <1>2, <1>3, <1>4 DEF FilesInv

\* Time only makes deletions older.
LEMMA TickDevice ==
  ASSUME Typed, Tick, NEW e \in Ids, FilesInv(e)
  PROVE  FilesInv(e)'
<1>1. UNCHANGED <<file, mtime, rec, version, tombs, round, remoteRec>> /\ now' = now + 1
  BY DEF Tick, liveVars
<1>2. now \in Nat /\ PurgeAfter \in Nat
  BY MetadataAssumption DEF Typed, MetadataTypeOK, Times
<1>3. \A t \in Times : Forgotten(t) => Forgotten(t)'
  BY <1>1, <1>2 DEF Forgotten, Times
<1>4. /\ version[e] \in Known /\ round[e].mine \in Known /\ round[e].fetched \in Known
      /\ round[e].staged \in Known
  BY RoundFields DEF Typed, MetadataTypeOK
<1>5. \A v \in Known : v.time \in Times
  BY MetadataAssumption, RecordKinds DEF Known, NoRecord, Times
<1>6. \A r : Stands(r, e) => Stands(r, e)'
  <2> SUFFICES ASSUME NEW r, Stands(r, e), ~Covers(r, version[e])'
               PROVE  LostDeletion(e)'
    BY DEF Stands
  <2>1. ~Covers(r, version[e])
    BY <1>1, <1>3, <1>4, <1>5 DEF Covers
  <2>2. LostDeletion(e) /\ ~Forgotten(version[e].time)'
    BY <1>1, <2>1 DEF Stands, Covers, LostDeletion
  <2> QED BY <1>1, <2>2 DEF LostDeletion, Covers, IsUpsert
<1>7. FileInv(e)' /\ DuringInv(e)'
  BY <1>1 DEF FilesInv, FileInv, DuringInv, Own, Tombstone
<1>8. MergeInv(e)'
  <2>1. Merged(round[e].mine, round[e].fetched) \in Known
    BY <1>4, MergedOf
  <2> QED BY <1>1, <1>3, <1>5, <2>1 DEF FilesInv, MergeInv
<1>9. TakenInv(e)'
  BY <1>1, <1>6 DEF FilesInv, TakenInv
<1> QED BY <1>7, <1>8, <1>9 DEF FilesInv

\* A round ends without a commit.
LEMMA EndDevice ==
  ASSUME Typed, NEW d \in Ids, EndRound(d), NEW e \in Ids, FilesInv(e)
  PROVE  FilesInv(e)'
<1>1. Spares(e) /\ remoteRec' = remoteRec /\ round' = [round EXCEPT ![d] = NoRound]
  BY DEF EndRound, Rejected, StopRound, Spares, outside, liveVars
<1>2. CASE e # d
  BY <1>1, <1>2, RestKept DEF Typed, MetadataTypeOK
<1>3. CASE e = d
  <2>1. round'[e] = NoRound
    BY <1>1, <1>3 DEF Typed, MetadataTypeOK
  <2>2. FileInv(e)'
    BY <1>1, SparedFile DEF FilesInv
  <2> QED BY <2>1, <2>2 DEF FilesInv, DuringInv, MergeInv, TakenInv, NoRound
<1> QED BY <1>2, <1>3

\* A snapshot is the version of the file, or a deletion that is lost already.
LEMMA SeedDevice ==
  ASSUME Typed, RecordInv, NEW d \in Ids, Seed(d), NEW e \in Ids, FilesInv(e)
  PROVE  FilesInv(e)'
<1>1. Spares(e) /\ remoteRec' = remoteRec
  BY DEF Seed, Spares, outside, liveVars
<1>2. CASE e # d
  <2>1. round'[e] = round[e]
    BY <1>2 DEF Seed, Typed, MetadataTypeOK
  <2> QED BY <1>1, <2>1, RestKept
<1>3. CASE e = d
  <2>1. /\ round'[d].at = "seeded" /\ round'[d].base = file[d]
        /\ round'[d].mine = Snapshot(d) /\ round'[d].gone = ToSet(tombs[d])
    BY DEF Seed, Typed, MetadataTypeOK, NoRound
  <2>2. FileInv(d) /\ FileInv(d)'
    BY <1>1, <1>3, SparedFile DEF FilesInv
  <2>3. \A t \in ToSet(tombs[d]) : tombs[d] = <<t>>
    BY DEF Typed, TombsInv, ToSet
  <2>4. DuringInv(d)'
    <3>1. UNCHANGED <<file, tombs, rec>>
      BY DEF Seed, outside, liveVars
    <3>2. file[d] = Absent /\ IsUpsert(rec[d]) => tombs[d] # <<>>
      BY <2>2, RecordKinds DEF FileInv
    <3>3. file[d] \in Contents <=> IsUpsert(Snapshot(d))
      BY <2>2, SnapshotIs DEF Typed
    <3> QED BY <2>1, <2>3, <3>1, <3>2, <3>3 DEF DuringInv, IsUpsert
  <2>5. Stands(Snapshot(d), d)
    <3>1. version[d] \in Known
      BY DEF Typed, MetadataTypeOK
    <3>2. CASE file[d] \in Contents
      BY <2>2, <3>2, SnapshotIs DEF Typed, FileInv, Stands, Covers
    <3>3. CASE file[d] \notin Contents /\ IsUpsert(rec[d])
      <4>1. Snapshot(d) = Tombstone(d) /\ version[d] \in {NoRecord, Tombstone(d)}
        BY <2>2, <3>3, SnapshotIs DEF Typed, FileInv
      <4> QED BY <4>1 DEF Stands, Covers
    <3>4. CASE file[d] \notin Contents /\ ~IsUpsert(rec[d])
      <4>1. Snapshot(d) = rec[d] /\ (version[d] = NoRecord \/ IsDelete(version[d]))
        BY <2>2, <3>4, SnapshotIs DEF Typed, FileInv
      <4> QED BY <3>4, <4>1 DEF Stands, Covers, LostDeletion
    <3> QED BY <3>2, <3>3, <3>4
  <2>6. TakenInv(d)'
    BY <1>1, <1>3, <2>1, <2>5, SparedFile DEF TakenInv
  <2> QED BY <1>3, <2>1, <2>2, <2>4, <2>6 DEF FilesInv, MergeInv
<1> QED BY <1>2, <1>3

\* What the merge takes covers what the snapshot covers, unless it is forgotten.
LEMMA MergedCovers ==
  ASSUME NEW l \in Known, NEW r \in Known, NEW v \in Known, Covers(l, v)
  PROVE  Covers(Merged(l, r), v)
<1>1. Merged(l, r) \in Known
  BY MergedOf
<1>2. CASE Merged(l, r) = l
  BY <1>2
<1>3. CASE l = NoRecord /\ Merged(l, r) # l
  BY <1>3 DEF Covers
<1>4. CASE l # NoRecord /\ Merged(l, r) # l
  <2>1. l \in Records /\ Later(r, l) /\ Merged(l, r) = r /\ r # NoRecord
    BY <1>4, MergedOf, RecordKinds
  <2> QED BY <2>1, CoversOn, RecordKinds
<1> QED BY <1>2, <1>3, <1>4

\* A version covered by a forgotten deletion is forgotten or none.
LEMMA ForgottenCovers ==
  ASSUME NEW m \in Records, NEW v \in Known, Covers(m, v), Forgotten(m.time),
         now \in Nat,
         v = NoRecord \/ IsDelete(v)
  PROVE  \A r : Covers(r, v)
<1>1. CASE v = NoRecord \/ Forgotten(v.time)
  BY <1>1 DEF Covers
<1>2. CASE v \in Records /\ ~Forgotten(v.time)
  <2>1. m = v \/ Later(m, v)
    BY <1>2, RecordKinds DEF Covers
  <2>2. m.time \in Nat /\ v.time \in Nat /\ v.time <= m.time
    BY <1>2, <2>1, MetadataAssumption DEF Later, Records, Times
  <2> QED BY <1>2, <2>2, MetadataAssumption DEF Forgotten
<1> QED BY <1>1, <1>2, RecordKinds

\* A merge goes on with a record that covers the snapshot.
LEMMA MergeDevice ==
  ASSUME Typed, RecordInv, NEW d \in Ids, Merge(d), NEW e \in Ids, FilesInv(e)
  PROVE  FilesInv(e)'
<1>1. Spares(e) /\ remoteRec' = remoteRec
  BY DEF Merge, Spares, outside, liveVars
<1>2. CASE e # d
  <2>1. round'[e] = round[e]
    BY <1>2 DEF Merge, Typed, MetadataTypeOK
  <2> QED BY <1>1, <2>1, RestKept
<1>3. CASE e = d
  <2> DEFINE m == Merged(round[d].mine, remoteRec)
  <2>1. /\ round'[d].at = "merged" /\ round'[d].base = round[d].base
        /\ round'[d].mine = round[d].mine /\ round'[d].fetched = remoteRec
        /\ round'[d].staged = Purge(m)
        /\ round'[d].gone = {t \in round[d].gone : Forgotten(t)}
    <3>1. round'[d] = [round[d] EXCEPT !.at = "merged", !.fetched = remoteRec,
                         !.staged = Purge(m), !.gone = {t \in round[d].gone : Forgotten(t)}]
      BY DEF Merge, Typed, MetadataTypeOK
    <3> QED BY <3>1, RoundFields DEF Typed, Rounds
  <2>2. round[d].at = "seeded" /\ UNCHANGED <<now, file, tombs, rec, version>>
    BY DEF Merge, outside, liveVars
  <2>3. /\ round[d].mine \in Known /\ remoteRec \in Known /\ version[d] \in Known
        /\ m \in Known /\ now \in Nat
    <3>1. round[d].mine \in Known /\ remoteRec \in Known /\ version[d] \in Known
      BY RoundFields DEF Typed, MetadataTypeOK
    <3>2. now \in Nat
      BY MetadataAssumption DEF Typed, MetadataTypeOK, Times
    <3> QED BY <3>1, <3>2, MergedOf
  <2>4. \/ Purge(m) = m
        \/ Purge(m) = NoRecord /\ IsDelete(m) /\ Forgotten(m.time)
    BY DEF Purge
  <2>5. FileInv(d) /\ FileInv(d)' /\ DuringInv(d) /\ TakenInv(d)
    BY <1>1, <1>3, SparedFile DEF FilesInv
  <2>6. DuringInv(d)'
    BY <1>1, <1>3, <2>1, <2>2, <2>5, SparedFile DEF DuringInv
  <2>7. MergeInv(d)'
    BY <1>1, <1>3, <2>1, <2>4, SparedFile DEF MergeInv
  <2>8. ASSUME file[d] = round[d].base
        PROVE  \/ Stands(Purge(m), d)
               \/ /\ file[d] \in Contents /\ Purge(m) = NoRecord
                  /\ remoteRec # NoRecord /\ Stands(remoteRec, d)
    <3>1. CASE LostDeletion(d)
      BY <3>1 DEF Stands
    <3>2. CASE ~LostDeletion(d)
      <4>1. Covers(round[d].mine, version[d])
        BY <2>2, <2>5, <2>8, <3>2 DEF TakenInv, Stands
      <4>2. Covers(m, version[d])
        BY <2>3, <4>1, MergedCovers
      <4>3. CASE Purge(m) = m
        BY <4>2, <4>3 DEF Stands
      <4>4. CASE Purge(m) = NoRecord /\ IsDelete(m) /\ Forgotten(m.time)
        <5>1. m \in Records
          BY <2>3, <4>4, RecordKinds DEF IsDelete
        <5>2. CASE file[d] \in Contents
          <6>1. IsUpsert(round[d].mine)
            BY <2>2, <2>5, <2>8, <5>2 DEF DuringInv
          <6>2. m = remoteRec
            BY <2>3, <4>4, <6>1, MergedOf, RecordKinds
          <6> QED BY <4>2, <4>4, <5>1, <5>2, <6>2, RecordKinds DEF Stands
        <5>3. CASE file[d] \notin Contents
          <6>1. version[d] = NoRecord \/ IsDelete(version[d])
            BY <2>5, <5>3 DEF FileInv
          <6> QED BY <2>3, <4>2, <4>4, <5>1, <6>1, ForgottenCovers DEF Stands
        <5> QED BY <5>2, <5>3
      <4> QED BY <2>4, <4>3, <4>4
    <3> QED BY <3>1, <3>2
  <2>9. TakenInv(d)'
    BY <1>1, <1>3, <2>1, <2>2, <2>5, <2>8, SparedFile DEF TakenInv
  <2> QED BY <1>3, <2>5, <2>6, <2>7, <2>9 DEF FilesInv
<1> QED BY <1>2, <1>3

\* A publication makes the other merges stale.
LEMMA PublishDevice ==
  ASSUME Typed, NEW d \in Ids, PublishRecord(d), NEW e \in Ids, FilesInv(e)
  PROVE  FilesInv(e)'
<1>1. Spares(e)
  BY DEF PublishRecord, Spares, outside, liveVars
<1>2. FileInv(e)'
  BY <1>1, SparedFile DEF FilesInv
<1>3. CASE e # d
  <2>1. /\ round'[e].at = round[e].at /\ round'[e].base = round[e].base
        /\ round'[e].gone = round[e].gone /\ round'[e].mine = round[e].mine
        /\ round'[e].fetched = round[e].fetched /\ round'[e].staged = round[e].staged
        /\ \/ round'[e] = round[e] /\ remoteRec' = remoteRec
           \/ round'[e].stale = (round[e].at = "merged")
    BY <1>3, PublishFields
  <2>2. round'[e].at = "idle" => round'[e] = NoRound
    <3>1. round' \in [Ids -> Rounds]
      BY PublishTyped DEF Typed, MetadataTypeOK
    <3>2. round[e].at = "idle" => round[e] = NoRound
      BY DEF FilesInv, DuringInv
    <3> QED BY <2>1, <3>1, <3>2 DEF NoRound, Rounds
  <2>3. DuringInv(e)'
    BY <1>1, <2>1, <2>2, SparedFile DEF FilesInv, DuringInv, Spares
  <2>4. MergeInv(e)'
    BY <1>1, <2>1, SparedFile DEF FilesInv, MergeInv, Spares
  <2>5. TakenInv(e)'
    BY <1>1, <2>1, SparedFile DEF FilesInv, TakenInv, Spares
  <2> QED BY <1>2, <2>3, <2>4, <2>5 DEF FilesInv
<1>4. CASE e = d
  <2>1. /\ round'[e].at = "published" /\ round'[e].base = round[e].base
        /\ round'[e].gone = round[e].gone
        /\ round'[e].fetched = round[e].fetched /\ round'[e].staged = round[e].staged
    BY <1>4, PublishFields
  <2>2. round[e].at = "merged"
    BY <1>4 DEF PublishRecord
  <2>3. DuringInv(e)'
    BY <1>1, <2>1, <2>2, SparedFile DEF FilesInv, DuringInv, Spares
  <2>4. TakenInv(e)'
    BY <1>1, <2>1, <2>2, SparedFile DEF FilesInv, TakenInv, Spares
  <2> QED BY <1>2, <2>1, <2>3, <2>4 DEF FilesInv, MergeInv
<1> QED BY <1>3, <1>4

\* The commit of a file that is not replaced: the user's file is the round's, or
\* newer than the snapshot.
LEMMA CommitDevice ==
  ASSUME Typed, RecordInv, NEW d \in Ids, CommitFile(d), NEW e \in Ids,
         FilesInv(e)
  PROVE  FilesInv(e)'
<1>1. UNCHANGED <<now, remoteRec>> /\ round' = [round EXCEPT ![d] = NoRound]
  BY DEF CommitFile
<1>2. CASE e # d
  <2>1. Spares(e) /\ round'[e] = round[e]
    BY <1>1, <1>2 DEF CommitFile, Spares, Typed, MetadataTypeOK
  <2> QED BY <1>1, <2>1, RestKept
<1>3. CASE e = d
  <2> DEFINE s == round[d].staged
  <2>1. /\ round[d].at = "published" /\ round'[d] = NoRound
        /\ rec'[d] = s /\ tombs'[d] = MergedTombs(d)
        /\ IF Applies(d) THEN file'[d] = Incoming(d) /\ version'[d] = s
           ELSE file'[d] = file[d] /\ version'[d] = version[d] /\ mtime'[d] = mtime[d]
    BY <1>1 DEF CommitFile, Typed, MetadataTypeOK
  <2>2. FileInv(d) /\ DuringInv(d)
    BY <1>3 DEF FilesInv
  <2>3. /\ Incoming(d) = s.hash /\ s \in Known
        /\ Incoming(d) \in Contents <=> IsUpsert(s)
    BY IncomingIs DEF Typed
  <2>4. FileInv(d)'
    <3>1. CASE Applies(d)
      BY <2>1, <2>3, <3>1, RecordKinds DEF FileInv, IsUpsert
    <3>2. CASE ~Applies(d) /\ file[d] = round[d].base
      <4>1. Incoming(d) = file[d]
        BY <3>2 DEF Applies
      <4> QED BY <2>1, <2>2, <2>3, <3>2, <4>1, RecordKinds DEF FileInv, IsUpsert
    <3>3. CASE ~Applies(d) /\ file[d] # round[d].base /\ file[d] \in Contents
      <4>1. version[d] = Own(d) /\ Own(d)' = Own(d)
        BY <2>1, <2>2, <3>3 DEF DuringInv, Own
      <4> QED BY <2>1, <2>2, <3>3, <4>1 DEF FileInv
    <3>4. CASE ~Applies(d) /\ file[d] # round[d].base /\ file[d] \notin Contents
      <4>1. /\ tombs[d] # <<>> /\ round[d].gone = {}
            /\ version[d] \in {NoRecord, Tombstone(d)}
        BY <2>1, <2>2, <3>4 DEF DuringInv
      <4>2. tombs'[d] = tombs[d]
        BY <2>1, <4>1, MergedTombsOf
      <4> QED BY <2>1, <2>2, <3>4, <4>1, <4>2 DEF FileInv, Tombstone
    <3> QED BY <3>1, <3>2, <3>3, <3>4
  <2> QED BY <1>3, <2>1, <2>4
             DEF FilesInv, DuringInv, MergeInv, TakenInv, NoRound
<1> QED BY <1>2, <1>3

\* An edit is the user's own version, whatever the round is at.
LEMMA EditDevice ==
  ASSUME Typed, BoundsInv, RecordInv, NEW d \in Ids, NEW c \in Contents,
         EditFile(d, c),
         "back" \notin Allowed, NEW e \in Ids, FilesInv(e)
  PROVE  FilesInv(e)'
<1>1. UNCHANGED <<now, remoteRec, rec, tombs, round>>
  BY DEF EditFile, Changes
<1>2. CASE e # d
  <2>1. Spares(e)
    BY <1>1, <1>2 DEF EditFile, Spares, Typed, MetadataTypeOK
  <2> QED BY <1>1, <2>1, RestKept
<1>3. CASE e = d
  <2>1. /\ file'[d] = c /\ c = edits + 1 /\ version'[d] = Own(d)'
    BY DEF EditFile, Changes, Own, Typed, MetadataTypeOK
  <2>2. /\ edits \in Nat /\ round[d].base \in Nat /\ round[d].base # c
        /\ rec[d].hash # c
    <3>1. edits \in Nat /\ round[d].base \in Nat /\ round[d].base <= edits
      <4>1. round[d].base \in Files /\ edits \in Nat
        BY RoundFields DEF Typed, MetadataTypeOK
      <4> QED BY <4>1 DEF BoundsInv, Files, Contents, Absent
    <3>2. rec[d].hash \in Nat /\ rec[d].hash <= edits
      <4>1. CASE rec[d] = NoRecord
        BY <3>1, <4>1 DEF NoRecord, Absent
      <4>2. CASE rec[d] \in Records
        BY <4>2, RecordKinds DEF RecordInv, Around, Files, Contents, Absent
      <4> QED BY <4>1, <4>2 DEF Typed, MetadataTypeOK, Known
    <3> QED BY <2>1, <3>1, <3>2
  <2>3. FileInv(d)'
    BY <2>1, RecordKinds DEF FileInv, Own, NoRecord
  <2>4. DuringInv(d)'
    BY <1>1, <1>3, <2>1, <2>2 DEF FilesInv, DuringInv
  <2>5. MergeInv(d)'
    BY <1>1, <1>3 DEF FilesInv, MergeInv, Forgotten
  <2>6. TakenInv(d)'
    BY <1>1, <2>1, <2>2 DEF TakenInv
  <2> QED BY <1>3, <2>3, <2>4, <2>5, <2>6 DEF FilesInv
<1> QED BY <1>2, <1>3

\* So is a deletion, in a round too.
LEMMA DeleteDevice ==
  ASSUME Typed, NEW d \in Ids, DeleteFile(d), "again" \notin Allowed,
         NEW e \in Ids, FilesInv(e)
  PROVE  FilesInv(e)'
<1>1. /\ UNCHANGED <<now, remoteRec, rec, round, mtime>>
      /\ tombs' = [tombs EXCEPT ![d] = Append(tombs[d], ThisSecond)]
      /\ file' = [file EXCEPT ![d] = Absent] /\ tombs[d] = <<>> /\ file[d] \in Contents
      /\ version' = [version EXCEPT ![d] =
           IF IsUpsert(rec[d]) THEN [hash |-> Absent, time |-> ThisSecond, dev |-> d]
                               ELSE NoRecord]
  BY DEF DeleteFile, Changes
<1>2. CASE e # d
  <2>1. Spares(e)
    BY <1>1, <1>2 DEF Spares, Typed, MetadataTypeOK
  <2> QED BY <1>1, <2>1, RestKept
<1>3. CASE e = d
  <2>1. /\ file'[d] = Absent /\ tombs'[d] = <<ThisSecond>>
        /\ version'[d] = IF IsUpsert(rec[d])
                         THEN [hash |-> Absent, time |-> ThisSecond, dev |-> d]
                         ELSE NoRecord
    BY <1>1, OneElement DEF Typed, MetadataTypeOK
  <2>2. /\ tombs'[d] # <<>>
        /\ version'[d] = IF IsUpsert(rec[d]) THEN Tombstone(d)' ELSE NoRecord
        /\ version'[d] = NoRecord \/ IsDelete(version'[d])
    BY <2>1, OneElement DEF Tombstone, IsDelete
  <2>3. DuringInv(d)
    BY <1>3 DEF FilesInv
  <2>4. round[d].gone = {}
    BY <1>1, <2>3 DEF DuringInv
  <2>5. FileInv(d)'
    BY <1>1, <2>1, <2>2, RecordKinds DEF FileInv, IsDelete
  <2>6. DuringInv(d)'
    BY <1>1, <2>1, <2>2, <2>3, <2>4, RecordKinds DEF DuringInv
  <2>7. MergeInv(d)'
    BY <1>1, <1>3 DEF FilesInv, MergeInv, Forgotten
  <2>8. TakenInv(d)'
    <3> SUFFICES ASSUME round[d].at # "idle", round[d].base = Absent
                 PROVE  version'[d] = NoRecord
      BY <1>1, <2>1 DEF TakenInv, Stands, Covers
    <3> QED BY <1>1, <2>2, <2>3 DEF DuringInv
  <2> QED BY <1>3, <2>5, <2>6, <2>7, <2>8 DEF FilesInv
<1> QED BY <1>2, <1>3

-----------------------------------------------------------------------------
(* The invariant.                                                            *)

\* None of the oddities.
Plain == Allowed = {}

\* The invariant holds at the start, is kept and holds always.
LEMMA MetadataStart == MetadataInit => MetadataInv
<1> SUFFICES ASSUME MetadataInit
             PROVE  MetadataInv
  OBVIOUS
<1>1. Typed
  <2>1. /\ 1 \in Times /\ 0 \in Times /\ 0 \in 0..MaxEdits /\ Absent \in Files
        /\ <<>> \in Seq(Times) /\ IsInjective(<<>>)
    BY MetadataAssumption DEF Times, Files, IsInjective
  <2> QED BY <2>1, NoRoundType, RecordKinds
          DEF MetadataInit, Typed, MetadataTypeOK, TombsInv
<1>2. BoundsInv
  BY DEF MetadataInit, BoundsInv, NoRound, Absent
<1>3. RecordInv
  <2>1. \A r \in Records : ~Around(r)
    BY RecordKinds DEF MetadataInit, Around, NoRound
  <2> QED BY <2>1 DEF RecordInv
<1>4. \A d \in Ids : FilesInv(d)
  BY RecordKinds
     DEF MetadataInit, FilesInv, FileInv, DuringInv, MergeInv, TakenInv, NoRound
<1> QED BY <1>1, <1>2, <1>3, <1>4 DEF Typed, MetadataInv

LEMMA MetadataStep ==
  ASSUME Plain
  PROVE  MetadataInv /\ [MetadataNext]_metadataVars => MetadataInv'
<1> SUFFICES ASSUME MetadataInv, [MetadataNext]_metadataVars
             PROVE  MetadataInv'
  OBVIOUS
<1> USE DEF Typed, MetadataInv
<1>1. CASE Tick
  BY <1>1, TickTyped, TickBounds, TickRecords, TickDevice
<1>2. ASSUME NEW d \in Ids, EndRound(d)
      PROVE  MetadataInv'
  BY <1>2, EndTyped, EndBounds, EndRecords, EndDevice
<1>3. ASSUME NEW d \in Ids, Seed(d)
      PROVE  MetadataInv'
  BY <1>3, SeedTyped, SeedBounds, SeedRecords, SeedDevice DEF FilesInv
<1>4. ASSUME NEW d \in Ids, Merge(d)
      PROVE  MetadataInv'
  BY <1>4, MergeTyped, MergeBounds, MergeRecords, MergeDevice
<1>5. ASSUME NEW d \in Ids, PublishRecord(d)
      PROVE  MetadataInv'
  BY <1>5, PublishTyped, MergeBounds, PublishRecords, PublishDevice
<1>6. ASSUME NEW d \in Ids, CommitFile(d)
      PROVE  MetadataInv'
  BY <1>6, CommitTyped, CommitBounds, CommitRecords, CommitDevice
<1>7. ASSUME NEW d \in Ids, NEW c \in Contents, EditFile(d, c)
      PROVE  MetadataInv'
  BY <1>7, EditTyped, UserBounds, EditRecords, EditDevice DEF Plain
<1>8. ASSUME NEW d \in Ids, DeleteFile(d)
      PROVE  MetadataInv'
  BY <1>8, DeleteTyped, UserBounds, DeleteRecords, DeleteDevice DEF Plain
<1>9. CASE UNCHANGED metadataVars
  <2>1. UNCHANGED <<now, file, mtime, rec, tombs, version, last, remoteRec, round, edits>>
    BY <1>9 DEF metadataVars, liveVars
  <2>2. MetadataTypeOK' /\ TombsInv' /\ BoundsInv'
    BY <2>1 DEF MetadataTypeOK, TombsInv, BoundsInv
  <2>3. RecordInv'
    <3>1. \A r \in Records : Around(r)' => Around(r)
      BY <2>1 DEF Around, Tombstone
    <3> QED BY <2>1, <3>1, RecordsKept
  <2>4. \A d \in Ids : FilesInv(d)'
    BY <2>1, RestKept DEF Spares
  <2> QED BY <2>2, <2>3, <2>4
<1> QED BY <1>1, <1>2, <1>3, <1>4, <1>5, <1>6, <1>7, <1>8, <1>9
        DEF MetadataNext, RoundStep, EndRound

LEMMA MetadataAlways ==
  ASSUME Plain
  PROVE  MetadataSpec => []MetadataInv
<1>1. MetadataInv /\ [MetadataNext]_metadataVars => MetadataInv'
  BY MetadataStep
<1> QED BY <1>1, MetadataStart, PTL DEF MetadataSpec

\* The types, and that a device keeps a deletion once, for any devices, clocks
\* and bounds, if a file is not deleted again while its deletion is kept.
THEOREM MetadataTypeCorrect ==
  ASSUME "again" \notin Allowed
  PROVE  MetadataSpec => []MetadataTypeOK
<1>1. Typed /\ [MetadataNext]_metadataVars => Typed'
  <2> SUFFICES ASSUME Typed, [MetadataNext]_metadataVars
               PROVE  Typed'
    OBVIOUS
  <2>1. CASE UNCHANGED metadataVars
    BY <2>1 DEF Typed, MetadataTypeOK, TombsInv, metadataVars, liveVars
  <2> QED BY <2>1, TickTyped, EndTyped, SeedTyped, MergeTyped, PublishTyped,
             CommitTyped,
             EditTyped, DeleteTyped
          DEF MetadataNext, RoundStep, EndRound
<1>2. MetadataInit => Typed
  BY MetadataStart DEF MetadataInv, Typed
<1>3. Typed => MetadataTypeOK
  BY DEF Typed
<1> QED BY <1>1, <1>2, <1>3, PTL DEF MetadataSpec

-----------------------------------------------------------------------------
(* The properties.                                                           *)

\* What NeverOlder says of a step.
OlderNever ==
  remoteRec' = remoteRec \/
  IF remoteRec' = NoRecord
  THEN \E d \in Ids : round[d].at = "merged" /\ ForgetsDeletion(d)
  ELSE Beats(remoteRec', remoteRec)

\* Only a publication changes the remote, and it publishes what it fetched or
\* a record that beats it.
LEMMA PublishNeverOlder ==
  ASSUME MetadataInv, NEW d \in Ids, PublishRecord(d)
  PROVE  OlderNever
<1> DEFINE m == Merged(round[d].mine, round[d].fetched)
<1>1. CASE remoteRec' = remoteRec
  BY <1>1 DEF OlderNever
<1>2. CASE remoteRec' # remoteRec
  <2>1. /\ round[d].at = "merged" /\ ~round[d].stale /\ remoteRec' = round[d].staged
        /\ round[d].staged # round[d].fetched
    BY <1>2 DEF PublishRecord
  <2>2. /\ round[d].fetched = remoteRec
        /\ round[d].staged = m \/ (round[d].staged = NoRecord /\ IsDelete(m) /\ Forgotten(m.time))
    BY <2>1 DEF MetadataInv, FilesInv, MergeInv
  <2>3. round[d].mine \in Known /\ remoteRec \in Known /\ m \in Known
    BY <2>2, MergedOf, RoundFields DEF MetadataInv
  <2>4. m # NoRecord => Beats(m, remoteRec)
    <3>1. CASE remoteRec = NoRecord
      BY <3>1 DEF Beats
    <3>2. CASE remoteRec # NoRecord /\ m = remoteRec
      BY <2>3, <3>2, BeatsSelf, RecordKinds
    <3>3. CASE remoteRec # NoRecord /\ m # NoRecord /\ m # remoteRec
      <4>1. m = round[d].mine /\ Winner(m, remoteRec) # "remote"
        BY <2>2, <2>3, <3>3, MergedOf
      <4>2. m \in Records /\ remoteRec \in Records /\ Around(m) /\ Around(remoteRec)
        BY <2>3, <3>3, <4>1, RecordKinds DEF Around
      <4>3. m.dev = remoteRec.dev /\ m.time = remoteRec.time => m.hash = remoteRec.hash
        BY <4>2 DEF MetadataInv, RecordInv
      <4> QED BY <4>1, <4>2, <4>3, WinnerBack
    <3> QED BY <3>1, <3>2, <3>3
  <2>5. CASE remoteRec' # NoRecord
    BY <2>1, <2>2, <2>4, <2>5 DEF OlderNever
  <2>6. CASE remoteRec' = NoRecord
    <3>1. IsDelete(m) /\ Forgotten(m.time)
      BY <1>2, <2>1, <2>2, <2>3, <2>6, MergedOf
    <3>2. ForgetsDeletion(d)
      BY <2>2, <2>4, <3>1 DEF ForgetsDeletion, IsDelete
    <3> QED BY <2>1, <2>6, <3>2 DEF OlderNever
  <2> QED BY <2>5, <2>6
<1> QED BY <1>1, <1>2

\* The remote never goes back to an older version, for any devices, clocks and
\* bounds.
THEOREM NeverOlderHolds ==
  ASSUME Plain
  PROVE  MetadataSpec => NeverOlder
<1>1. MetadataInv /\ [MetadataNext]_metadataVars => [OlderNever]_metadataVars
  <2> SUFFICES ASSUME MetadataInv, MetadataNext
               PROVE  OlderNever
    OBVIOUS
  <2>1. ASSUME NEW d \in Ids, PublishRecord(d)
        PROVE  OlderNever
    BY <2>1, PublishNeverOlder
  <2>2. CASE remoteRec' = remoteRec
    BY <2>2 DEF OlderNever
  <2> QED BY <2>1, <2>2
          DEF MetadataNext, RoundStep, Tick, Seed, Merge, Rejected, StopRound, CommitFile,
              EditFile, DeleteFile, Changes
<1>2. MetadataSpec => [][OlderNever]_metadataVars
  BY <1>1, MetadataAlways, PTL DEF MetadataSpec
<1> QED BY <1>2 DEF NeverOlder, OlderNever

\* What NewerOnly says of a step and a device.
NewerStep(d) ==
  /\ file'[d] # file[d] /\ edits' = edits
       => Covers(Brought(d), version[d]) \/ LostDeletion(d)
  /\ LostDeletion(d)' /\ ~LostDeletion(d)
       => /\ round[d].at = "published"
          /\ file[d] # round[d].base

\* A step that leaves file, version and record alone loses nothing.
LEMMA SparedNewer ==
  ASSUME Typed, NEW d \in Ids, UNCHANGED <<file[d], version[d], rec[d]>>,
         \A t \in Times : Forgotten(t) => Forgotten(t)'
  PROVE  NewerStep(d)
<1>1. version[d] \in Known
  BY DEF Typed, MetadataTypeOK
<1>2. version[d].time \in Times
  BY <1>1, MetadataAssumption, RecordKinds DEF NoRecord, Times
<1>3. LostDeletion(d)' => LostDeletion(d)
  BY <1>2 DEF LostDeletion, Covers, IsUpsert
<1> QED BY <1>3 DEF NewerStep

\* A commit replaces the file of its snapshot, or by a later version.
LEMMA CommitNewer ==
  ASSUME MetadataInv, NEW d \in Ids, CommitFile(d)
  PROVE  NewerStep(d)
<1> DEFINE s == round[d].staged
<1>1. /\ round[d].at = "published" /\ rec'[d] = s /\ now' = now
      /\ IF Applies(d) THEN file'[d] = Incoming(d) /\ version'[d] = s
         ELSE file'[d] = file[d] /\ version'[d] = version[d]
  BY DEF CommitFile, MetadataInv, MetadataTypeOK
<1>2. FileInv(d) /\ DuringInv(d) /\ TakenInv(d)
  BY DEF MetadataInv, FilesInv
<1>3. /\ Incoming(d) = s.hash /\ s \in Known /\ version[d] \in Known
      /\ Incoming(d) \in Contents <=> IsUpsert(s)
  BY IncomingIs DEF MetadataInv, Typed, MetadataTypeOK
<1>4. ASSUME Applies(d), ~LostDeletion(d)
      PROVE  Covers(Brought(d), version[d])
  <2>1. CASE file[d] = round[d].base
    <3>1. \/ Covers(s, version[d])
          \/ s = NoRecord /\ Covers(round[d].fetched, version[d])
      BY <1>1, <1>2, <1>4, <2>1 DEF TakenInv, Stands
    <3>2. s = NoRecord => Incoming(d) = Absent /\ file[d] # Absent
      BY <1>4, <2>1 DEF Applies, Incoming
    <3>3. s = NoRecord /\ Covers(s, version[d]) => Covers(round[d].fetched, version[d])
      BY DEF Covers
    <3> QED BY <3>1, <3>3 DEF Brought
  <2>2. CASE file[d] # round[d].base
    <3>1. /\ RecordOf(d, file[d]) # NoRecord /\ s # NoRecord
          /\ Winner(RecordOf(d, file[d]), s) = "remote"
      BY <1>4, <2>2 DEF Applies
    <3>2. version[d] = NoRecord \/ version[d] = RecordOf(d, file[d])
      <4>1. CASE file[d] \in Contents
        BY <1>1, <1>2, <2>2, <4>1 DEF DuringInv, RecordOf, Own
      <4>2. CASE file[d] \notin Contents
        BY <1>1, <1>2, <2>2, <4>2 DEF DuringInv, RecordOf, Tombstone
      <4> QED BY <4>1, <4>2
    <3>3. version[d] = NoRecord \/ Later(s, version[d])
      BY <1>3, <3>1, <3>2, WinnerLater, RecordKinds
    <3> QED BY <3>1, <3>3 DEF Brought, Covers
  <2> QED BY <2>1, <2>2
<1>5. ASSUME ~LostDeletion(d), file[d] = round[d].base
      PROVE  ~LostDeletion(d)'
  <2>1. CASE Applies(d)
    BY <1>1, <2>1 DEF LostDeletion, Covers
  <2>2. CASE ~Applies(d) /\ file[d] \in Contents
    <3>1. IsUpsert(s)
      BY <1>3, <1>5, <2>2 DEF Applies
    <3> QED BY <1>1, <3>1 DEF LostDeletion, IsUpsert
  <2>3. CASE ~Applies(d) /\ file[d] \notin Contents
    <3>1. Covers(s, version[d])
      BY <1>1, <1>2, <1>5, <2>3 DEF TakenInv, Stands
    <3> QED BY <1>1, <2>3, <3>1 DEF LostDeletion, Covers, Forgotten
  <2> QED BY <2>1, <2>2, <2>3
<1> QED BY <1>1, <1>4, <1>5 DEF NewerStep

\* The user's steps bring nothing.
LEMMA UserNewer ==
  ASSUME MetadataInv, NEW d \in Ids,
         DeleteFile(d) \/ \E c \in Contents : EditFile(d, c)
  PROVE  NewerStep(d)
<1>1. edits' # edits /\ rec' = rec
  <2>1. Changes(d)
    BY DEF DeleteFile, EditFile
  <2>2. edits \in Nat
    BY DEF MetadataInv, MetadataTypeOK
  <2> QED BY <2>1, <2>2 DEF Changes
<1>2. ~LostDeletion(d)'
  <2>1. CASE DeleteFile(d)
    <3>1. version' = [version EXCEPT ![d] =
            IF IsUpsert(rec[d]) THEN [hash |-> Absent, time |-> ThisSecond, dev |-> d]
                                ELSE NoRecord]
      BY <2>1 DEF DeleteFile
    <3>2. IsUpsert(rec[d]) \/ version'[d] = NoRecord
      BY <3>1 DEF MetadataInv, MetadataTypeOK
    <3> QED BY <1>1, <3>2 DEF LostDeletion, IsDelete, IsUpsert
  <2>2. ASSUME NEW c \in Contents, EditFile(d, c)
        PROVE  ~LostDeletion(d)'
    <3>1. version'[d].hash = c
      BY <2>2 DEF EditFile, MetadataInv, MetadataTypeOK
    <3> QED BY <3>1, RecordKinds DEF LostDeletion, IsDelete
  <2> QED BY <2>1, <2>2
<1> QED BY <1>1, <1>2 DEF NewerStep

\* A round never replaces what the user last did by an older version, and a
\* deletion is lost in one way only, for any devices, clocks and bounds.
THEOREM NewerOnlyHolds ==
  ASSUME Plain
  PROVE  MetadataSpec => NewerOnly
<1>1. MetadataInv /\ [MetadataNext]_metadataVars
      => [\A d \in Ids : NewerStep(d)]_metadataVars
  <2> SUFFICES ASSUME MetadataInv, MetadataNext, NEW d \in Ids
               PROVE  NewerStep(d)
    OBVIOUS
  <2>1. now' = now => \A t \in Times : Forgotten(t) => Forgotten(t)'
    BY DEF Forgotten
  <2>2. CASE Tick
    <3>1. now \in Nat /\ now' = now + 1 /\ PurgeAfter \in Nat
      BY <2>2, MetadataAssumption DEF Tick, MetadataInv, MetadataTypeOK, Times
    <3>2. \A t \in Times : Forgotten(t) => Forgotten(t)'
      BY <3>1 DEF Forgotten, Times
    <3> QED BY <2>2, <3>2, SparedNewer DEF Tick, liveVars, MetadataInv, Typed
  <2>3. ASSUME NEW e \in Ids, EndRound(e) \/ Seed(e) \/ Merge(e) \/ PublishRecord(e)
        PROVE  NewerStep(d)
    <3>1. UNCHANGED <<now, file, version, rec>>
      BY <2>3 DEF EndRound, Rejected, StopRound, Seed, Merge, PublishRecord,
                  outside, liveVars
    <3> QED BY <2>1, <3>1, SparedNewer DEF MetadataInv, Typed
  <2>4. ASSUME NEW e \in Ids, CommitFile(e)
        PROVE  NewerStep(d)
    <3>1. CASE e = d
      BY <2>4, <3>1, CommitNewer
    <3>2. CASE e # d
      <4>1. UNCHANGED <<now, file[d], version[d], rec[d]>>
        BY <2>4, <3>2 DEF CommitFile, MetadataInv, MetadataTypeOK
      <4> QED BY <2>1, <4>1, SparedNewer DEF MetadataInv, Typed
    <3> QED BY <3>1, <3>2
  <2>5. ASSUME NEW e \in Ids, DeleteFile(e) \/ \E c \in Contents : EditFile(e, c)
        PROVE  NewerStep(d)
    <3>1. CASE e = d
      BY <2>5, <3>1, UserNewer
    <3>2. CASE e # d
      <4>1. now' = now /\ rec' = rec
        BY <2>5 DEF DeleteFile, EditFile, Changes
      <4>2. file'[d] = file[d] /\ version'[d] = version[d]
        BY <2>5, <3>2 DEF DeleteFile, EditFile, MetadataInv, MetadataTypeOK
      <4> QED BY <2>1, <4>1, <4>2, SparedNewer DEF MetadataInv, Typed
    <3> QED BY <3>1, <3>2
  <2> QED BY <2>2, <2>3, <2>4, <2>5 DEF MetadataNext, RoundStep, EndRound
<1>2. MetadataSpec => [][\A d \in Ids : NewerStep(d)]_metadataVars
  BY <1>1, MetadataAlways, PTL DEF MetadataSpec
<1> QED BY <1>2 DEF NewerOnly, NewerStep
=============================================================================
