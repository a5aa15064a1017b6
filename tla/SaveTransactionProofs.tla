----------------------- MODULE SaveTransactionProofs -----------------------
(***************************************************************************)
(* TLAPS proofs about SaveTransaction, for any number of files,            *)
(* transactions and faults: type correctness, the three safety properties  *)
(* of the transactions callers use (no backup mode), from one inductive    *)
(* invariant, and from another, of transactions in backup mode, that as    *)
(* long as a handle may roll back its backups are complete, and that a     *)
(* rollback that succeeds leaves every live file as at Begin.              *)
(***************************************************************************)
EXTENDS SaveTransaction, TLAPS

\* What the holder of the core lock knows about its transaction.
LockInv ==
  /\ pc = "staging" =>
       /\ phase[cur] \in {"nodir", "staging"}
       /\ cur \notin released /\ applied[cur] = {} /\ cur \notin recorded
  /\ pc = "applying" =>
       /\ phase[cur] = "Prepared" /\ cur \notin released
       /\ left \subseteq Targets(cur)
       /\ ~mode[cur] => applied[cur] = Targets(cur) \ left
  /\ pc = "cleaning" =>
       /\ ~mode[cur] /\ ~linked[cur] /\ phase[cur] = "FilesCommitted"
       /\ applied[cur] = Targets(cur)
  /\ pc \in {"committed", "closing"} =>
       /\ phase[cur] \notin {"unused", "Prepared"}
       /\ ~mode[cur] => applied[cur] = Targets(cur)
       /\ ~mode[cur] /\ linked[cur] => Committed(cur) /\ cur \notin released
  /\ pc = "closing" => mode[cur] \/ ~linked[cur]
  /\ pc = "rolling" => mode[cur] /\ phase[cur] \notin {"unused", "Prepared"}
  /\ pc = "replaying" =>
       /\ phase[cur] = "Prepared" /\ left \subseteq Targets(cur)
       /\ ~mode[cur] /\ ~missed /\ cur \notin released =>
            Targets(cur) \ left \subseteq applied[cur]
  /\ pc \notin {"scanning", "replaying"} => known = {}

\* What holds of every transaction outside backup mode.
TxInv(t) ==
  /\ phase[t] \in {"unused", "nodir", "staging"} /\ t \notin released =>
       applied[t] = {}
  /\ phase[t] \in {"Prepared", "FilesCommitted", "Finished"}
     /\ t \notin released /\ linked[t] => t \in proof
  /\ phase[t] = "Prepared" /\ t \notin released =>
       Writes(t) \subseteq applied[t] \union staged[t]
  /\ phase[t] \in {"FilesCommitted", "Finished"} /\ t \notin released =>
       applied[t] = Targets(t)
  /\ phase[t] # "RolledBack"
  /\ phase[t] \in {"Prepared", "FilesCommitted", "Finished"}
     /\ t \in released => t \in dropped \/ applied[t] = Targets(t)
  /\ phase[t] = "Prepared" /\ linked[t] => t \notin released
  /\ applied[t] \subseteq Targets(t)
  /\ t \in released /\ t \notin dropped => applied[t] \in {{}, Targets(t)}
  /\ t \in released /\ linked[t] => applied[t] = {} \/ t \in recorded
  /\ t \in recorded => applied[t] = Targets(t)
  /\ t \in known /\ pass = "recover" => applied[t] = Targets(t)
  /\ t \in known /\ pass = "purge" => t \in recorded

\* What holds of every transaction.
Life(t) ==
  /\ t \in dropped => t \in released /\ ~linked[t]
  /\ phase[t] = "unused" =>
       /\ applied[t] = {} /\ t \notin released
       /\ t \notin recorded /\ t \notin known

IInv ==
  /\ TypeOK /\ LockInv
  /\ \A t \in Txs : Life(t) /\ (~mode[t] => TxInv(t))

-----------------------------------------------------------------------------
(* Type correctness.  A rollback copies backups over live files, so it     *)
(* needs to know that they are all there.                                  *)

RollingInv ==
  pc = "rolling" => /\ left \subseteq Targets(cur)
                    /\ \A f \in Targets(cur) : backup[cur][f] # None

TypeInv == TypeOK /\ RollingInv

DirTypes ==
  /\ phase \in [Txs -> Phase]
  /\ staged \in [Txs -> SUBSET Files]
  /\ backup \in [Txs -> [Files -> Content \union {None}]]
  /\ proof \subseteq Txs /\ released \subseteq Txs

\* Removing a directory, wholly or in part, keeps the types.
LEMMA RemoveTypes ==
  ASSUME NEW t \in Txs, DirTypes, RemoveDir(t) \/ RemovePart(t)
  PROVE  DirTypes'
<1>1. CASE RemoveDir(t)
  BY <1>1 DEF RemoveDir, DirTypes, Phase, NoBackup
<1>2. CASE RemovePart(t)
  <2>1. phase' \in [Txs -> Phase]
    BY <1>2 DEF RemovePart, DirTypes, Phase
  <2>2. staged' \in [Txs -> SUBSET Files]
    BY <1>2 DEF RemovePart, DirTypes
  <2>3. backup' \in [Txs -> [Files -> Content \union {None}]]
    BY <1>2 DEF RemovePart, DirTypes, NoBackup
  <2>4. proof' \subseteq Txs /\ released' \subseteq Txs
    BY <1>2 DEF RemovePart, DirTypes
  <2> QED
    BY <2>1, <2>2, <2>3, <2>4 DEF DirTypes
<1> QED
  BY <1>1, <1>2

\* The fault budget is spent within its bound.
LEMMA FaultType ==
  ASSUME faults \in 0..MaxFaults, Fault \/ UNCHANGED faults
  PROVE  faults' \in 0..MaxFaults
BY ConstantsAssumption DEF Fault

FileTypes ==
  /\ live \in [Files -> Content]
  /\ staged \in [Txs -> SUBSET Files]
  /\ applied \in [Txs -> SUBSET Files]

\* An entry that reaches its live file, or none, keeps the types.
LEMMA ReachTypes ==
  ASSUME NEW t \in Txs, NEW f \in Files, FileTypes,
         Reach(t, f) \/ UNCHANGED <<live, staged, applied>>
  PROVE  FileTypes'
<1>1. Outcome(t, f) \in Content
  BY DEF Outcome, Content
<1> QED
  BY <1>1 DEF Reach, FileTypes

\* The initial states have their types.
LEMMA TypeInit == Init => TypeInv
<1> SUFFICES ASSUME Init PROVE TypeInv
  OBVIOUS
<1>1. live \in [Files -> Content] /\ base \in [Txs -> [Files -> Content]]
  BY DEF Init, Content
<1>2. plan \in [Txs -> [Files -> Op]] /\ phase \in [Txs -> Phase]
  BY DEF Init, Op, Phase
<1>3. backup \in [Txs -> [Files -> Content \union {None}]]
  BY DEF Init, NoBackup
<1>4. faults \in 0..MaxFaults
  BY ConstantsAssumption DEF Init
<1>5. RollingInv
  BY DEF Init, RollingInv
<1> QED
  BY <1>1, <1>2, <1>3, <1>4, <1>5 DEF Init, TypeInv, TypeOK

\* Every step keeps the types.
LEMMA TypeStep == TypeInv /\ [Next]_vars => TypeInv'
<1> SUFFICES ASSUME TypeInv, [Next]_vars PROVE TypeInv'
  OBVIOUS
<1> USE ConstantsAssumption DEF TypeInv, TypeOK, RollingInv, Content, Op,
        Phase, NoBackup, Targets, Writes, Release, DirTypes, FileTypes, entryVars, dirVars,
        scanVars, pastVars
<1>1. CASE \E t \in Txs, p \in [Files -> Op], lk \in BOOLEAN, md \in Modes:
                Begin(t, p, lk, md)
  BY <1>1 DEF Begin
<1>2. CASE \E f \in Files : AddBytes(f)
  BY <1>2 DEF AddBytes
<1>3. CASE CommitEmpty
  BY <1>3 DEF CommitEmpty, RemoveDir
<1>4. CASE PersistProofRecovery
  BY <1>4 DEF PersistProofRecovery, AllStaged
<1>5. CASE \E f \in Files : BackUp(f)
  BY <1>5 DEF BackUp, AllStaged
<1>6. CASE WritePrepared
  BY <1>6 DEF WritePrepared, AllStaged, SetPhase
<1>7. CASE \E f \in Files : Apply(f)
  BY <1>7 DEF Apply, Reach, Outcome
<1>8. CASE MarkFilesCommitted
  BY <1>8 DEF MarkFilesCommitted, SetPhase
<1>9. CASE CommitCleanup
  BY <1>9, RemoveTypes, FaultType DEF CommitCleanup
<1>10. CASE Finish
  BY <1>10 DEF Finish, SetPhase
<1>11. CASE Close
  BY <1>11, RemoveTypes, FaultType DEF Close
<1>12. CASE DropHandle
  BY <1>12, RemoveTypes, FaultType DEF DropHandle
<1>13. CASE Rollback
  BY <1>13 DEF Rollback
<1>14. CASE \E f \in Files : RestoreFile(f)
  BY <1>14 DEF RestoreFile
<1>15. CASE MarkRolledBack
  BY <1>15 DEF MarkRolledBack, SetPhase
<1>16. CASE RecordOwn
  BY <1>16 DEF RecordOwn, StartScan, HasDir
<1>17. CASE Recover
  BY <1>17 DEF Recover, StartScan, HasDir
<1>18. CASE \E t \in Txs : Discard(t)
  BY <1>18, RemoveTypes, FaultType DEF Discard, Visit
<1>19. CASE \E t \in Txs : Keep(t)
  BY <1>19, FaultType DEF Keep, Visit, Report
<1>20. CASE \E t \in Txs : StartReplay(t)
  BY <1>20 DEF StartReplay, Visit
<1>21. CASE \E f \in Files : Replay(f)
  BY <1>21, ReachTypes DEF Replay
<1>22. CASE \E f \in Files : ReplayFails(f)
  BY <1>22, ReachTypes, FaultType DEF ReplayFails
<1>23. CASE DropReplayed
  BY <1>23, RemoveTypes, FaultType DEF DropReplayed, ReplayDone
<1>24. CASE PromoteReplayed
  BY <1>24, FaultType DEF PromoteReplayed, ReplayDone, SetPhase, Report
<1>25. CASE RetainReplayed
  BY <1>25 DEF RetainReplayed, ReplayDone
<1>26. CASE RecordReported
  BY <1>26, FaultType DEF RecordReported, StartScan, HasDir
<1>27. CASE EndScan
  BY <1>27 DEF EndScan, ForgetScan
<1>28. CASE CommitFails
  BY <1>28, FaultType DEF CommitFails
<1>29. CASE RollbackFails
  BY <1>29, FaultType DEF RollbackFails
<1>30. CASE Crash
  BY <1>30, FaultType DEF Crash, ForgetScan
<1>31. CASE \E f \in Files : DeleteLive(f)
  BY <1>31 DEF DeleteLive
<1>32. CASE UNCHANGED vars
  BY <1>32 DEF vars
<1> QED
  BY <1>1, <1>2, <1>3, <1>4, <1>5, <1>6, <1>7, <1>8, <1>9, <1>10, <1>11, <1>12, <1>13, <1>14, <1>15, <1>16, <1>17, <1>18, <1>19, <1>20, <1>21, <1>22, <1>23, <1>24, <1>25, <1>26, <1>27, <1>28, <1>29, <1>30, <1>31, <1>32
     DEF Next, Commit, AfterCommit, Scan

\* Every variable always has its type, whatever crashes and fails.
THEOREM TypeCorrect == Spec => []TypeOK
<1>1. TypeInv => TypeOK
  BY DEF TypeInv
<1> QED
  BY TypeInit, TypeStep, <1>1, PTL DEF Spec

-----------------------------------------------------------------------------
(* The inductive invariant.                                                *)

\* The inductive invariant holds initially: no transaction has begun.
LEMMA IInvInit == Init => IInv
BY TypeInit
   DEF Init, TypeInv, IInv, LockInv, Life, TxInv, Targets, Writes, Committed

\* The holder of the lock.
LEMMA LockStep ==
  ASSUME IInv, [Next]_vars
  PROVE  LockInv'
<1> USE DEF IInv, TypeOK, LockInv, Life, TxInv, Targets, Writes, Committed,
        Release, entryVars, dirVars, scanVars, pastVars
<1>1. CASE \E t \in Txs, p \in [Files -> Op], lk \in BOOLEAN, md \in Modes:
                Begin(t, p, lk, md)
  BY <1>1 DEF Begin, NoBackup
<1>2. CASE \E f \in Files : AddBytes(f)
  BY <1>2 DEF AddBytes
<1>3. CASE CommitEmpty
  BY <1>3 DEF CommitEmpty, RemoveDir
<1>4. CASE PersistProofRecovery
  BY <1>4 DEF PersistProofRecovery, AllStaged
<1>5. CASE \E f \in Files : BackUp(f)
  BY <1>5 DEF BackUp, AllStaged
<1>6. CASE WritePrepared
  BY <1>6 DEF WritePrepared, AllStaged, ProofReady, SetPhase
<1>7. CASE \E f \in Files : Apply(f)
  BY <1>7 DEF Apply, Reach
<1>8. CASE MarkFilesCommitted
  BY <1>8 DEF MarkFilesCommitted, SetPhase
<1>9. CASE CommitCleanup
  BY <1>9 DEF CommitCleanup, RemoveDir, RemovePart
<1>10. CASE Finish
  BY <1>10 DEF Finish, SetPhase
<1>11. CASE Close
  BY <1>11 DEF Close, RemoveDir, RemovePart
<1>12. CASE DropHandle
  BY <1>12 DEF DropHandle, RemoveDir, RemovePart
<1>13. CASE Rollback
  BY <1>13 DEF Rollback
<1>14. CASE \E f \in Files : RestoreFile(f)
  BY <1>14 DEF RestoreFile
<1>15. CASE MarkRolledBack
  BY <1>15 DEF MarkRolledBack, SetPhase
<1>16. CASE RecordOwn
  BY <1>16 DEF RecordOwn, StartScan
<1>17. CASE Recover
  BY <1>17 DEF Recover, StartScan
<1>18. CASE \E t \in Txs : Discard(t)
  BY <1>18 DEF Discard, Visit, Discardable, RemoveDir, RemovePart
<1>19. CASE \E t \in Txs : Keep(t)
  BY <1>19 DEF Keep, Visit, Discardable, HasManifest, HasDir, Report
<1>20. CASE \E t \in Txs : StartReplay(t)
  BY <1>20 DEF StartReplay, Visit
<1>21. CASE \E f \in Files : Replay(f)
  <2> PICK f \in Files : Replay(f)
    BY <1>21
  <2>1. phase'[cur] = "Prepared" /\ left' \subseteq Targets(cur)' /\ cur' = cur
        /\ pc' = "replaying"
    BY DEF Replay
  <2>2. ASSUME ~mode[cur], ~missed', cur \notin released
        PROVE  Targets(cur) \ left' \subseteq applied'[cur]
    <3>1. CASE Replayable(cur, f)
      BY <2>2, <3>1 DEF Replay, Reach
    <3>2. CASE ~Replayable(cur, f)
      <4>1. f \in Writes(cur) /\ f \notin staged[cur]
        BY <3>2 DEF Replay, Replayable, Op
      <4>2. f \in applied[cur]
        BY <2>2, <4>1 DEF Replay
      <4> QED
        BY <2>2, <3>2, <4>2 DEF Replay
    <3> QED
      BY <3>1, <3>2
  <2> QED
    BY <2>1, <2>2 DEF Replay
<1>22. CASE \E f \in Files : ReplayFails(f)
  BY <1>22 DEF ReplayFails, Replayable, Reach
<1>23. CASE DropReplayed
  BY <1>23 DEF DropReplayed, ReplayDone, RemoveDir, RemovePart
<1>24. CASE PromoteReplayed
  BY <1>24 DEF PromoteReplayed, ReplayDone, SetPhase, Report
<1>25. CASE RetainReplayed
  BY <1>25 DEF RetainReplayed, ReplayDone
<1>26. CASE RecordReported
  BY <1>26 DEF RecordReported, StartScan
<1>27. CASE EndScan
  BY <1>27 DEF EndScan, ForgetScan
<1>28. CASE CommitFails
  BY <1>28 DEF CommitFails
<1>29. CASE RollbackFails
  BY <1>29 DEF RollbackFails
<1>30. CASE Crash
  BY <1>30 DEF Crash, ForgetScan
<1>31. CASE \E f \in Files : DeleteLive(f)
  BY <1>31 DEF DeleteLive
<1>32. CASE UNCHANGED vars
  BY <1>32 DEF vars
<1> QED
  BY <1>1, <1>2, <1>3, <1>4, <1>5, <1>6, <1>7, <1>8, <1>9, <1>10, <1>11, <1>12, <1>13, <1>14, <1>15, <1>16, <1>17, <1>18, <1>19, <1>20, <1>21, <1>22, <1>23, <1>24, <1>25, <1>26, <1>27, <1>28, <1>29, <1>30, <1>31, <1>32
     DEF Next, Commit, AfterCommit, Scan

\* The step leaves transaction t and its directory alone.
Kept(t) ==
  /\ plan'[t] = plan[t] /\ linked'[t] = linked[t] /\ mode'[t] = mode[t]
  /\ phase'[t] = phase[t] /\ staged'[t] = staged[t]
  /\ applied'[t] = applied[t]
  /\ (t \in proof') = (t \in proof)
  /\ (t \in released') = (t \in released)
  /\ (t \in dropped') = (t \in dropped)

\* It leaves what is known of its events alone as well.
Same(t) ==
  /\ Kept(t)
  /\ (t \in recorded') = (t \in recorded)
  /\ t \in known' => t \in known /\ pass' = pass

\* A step that leaves a transaction as it is keeps its invariant.
LEMMA SameTx ==
  ASSUME NEW t \in Txs, IInv, Same(t)
  PROVE  Life(t)' /\ (~mode'[t] => TxInv(t)')
BY DEF IInv, Kept, Same, Life, TxInv, Targets, Writes

\* A step that only records events keeps the invariant of every transaction
\* whose texts are all live.
LEMMA RecordTx ==
  ASSUME NEW t \in Txs, IInv, Kept(t),
         t \in recorded => t \in recorded',
         t \in recorded' =>
           phase[t] # "unused" /\ (~mode[t] => applied[t] = Targets(t)),
         known' \subseteq recorded', pass' = "purge"
  PROVE  Life(t)' /\ (~mode'[t] => TxInv(t)')
<1>1. Targets(t)' = Targets(t) /\ Writes(t)' = Writes(t)
  BY DEF Kept, Targets, Writes
<1>2. Life(t)'
  BY DEF IInv, Kept, Life
<1>3. ASSUME ~mode[t] PROVE TxInv(t)'
  BY <1>1, <1>3 DEF IInv, Kept, TxInv
<1> QED
  BY <1>2, <1>3 DEF Kept

\* Every transaction.
LEMMA TxStep ==
  ASSUME NEW t \in Txs, IInv, [Next]_vars
  PROVE  Life(t)' /\ (~mode'[t] => TxInv(t)')
<1> USE DEF IInv, TypeOK, LockInv, Life, TxInv, Targets, Writes, Committed,
        Release, entryVars, dirVars, scanVars, pastVars
<1>1. CASE \E u \in Txs, p \in [Files -> Op], lk \in BOOLEAN, md \in Modes:
                Begin(u, p, lk, md)
  <2> PICK u \in Txs, p \in [Files -> Op], lk \in BOOLEAN, md \in Modes : Begin(u, p, lk, md)
    BY <1>1
  <2>1. CASE t = u
    BY <2>1 DEF Begin, NoBackup
  <2>2. CASE t # u
    <3>1. Same(t)
      BY <2>2 DEF Begin, NoBackup, Same, Kept
    <3> QED
      BY <3>1, SameTx
  <2> QED
    BY <2>1, <2>2
<1>2. CASE \E f \in Files : AddBytes(f)
  <2> PICK f \in Files : AddBytes(f)
    BY <1>2
  <2>1. CASE t = cur
    BY <2>1 DEF AddBytes
  <2>2. CASE t # cur
    <3>1. Same(t)
      BY <2>2 DEF AddBytes, Same, Kept
    <3> QED
      BY <3>1, SameTx
  <2> QED
    BY <2>1, <2>2
<1>3. CASE CommitEmpty
  BY <1>3 DEF CommitEmpty, RemoveDir
<1>4. CASE PersistProofRecovery
  BY <1>4 DEF PersistProofRecovery, AllStaged
<1>5. CASE \E f \in Files : BackUp(f)
  <2> PICK f \in Files : BackUp(f)
    BY <1>5
  <2>1. CASE t = cur
    BY <2>1 DEF BackUp, AllStaged
  <2>2. CASE t # cur
    <3>1. Same(t)
      BY <2>2 DEF BackUp, AllStaged, Same, Kept
    <3> QED
      BY <3>1, SameTx
  <2> QED
    BY <2>1, <2>2
<1>6. CASE WritePrepared
  BY <1>6 DEF WritePrepared, AllStaged, ProofReady, SetPhase
<1>7. CASE \E f \in Files : Apply(f)
  <2> PICK f \in Files : Apply(f)
    BY <1>7
  <2>1. CASE t = cur
    BY <2>1 DEF Apply, Reach
  <2>2. CASE t # cur
    <3>1. Same(t)
      BY <2>2 DEF Apply, Reach, Same, Kept
    <3> QED
      BY <3>1, SameTx
  <2> QED
    BY <2>1, <2>2
<1>8. CASE MarkFilesCommitted
  BY <1>8 DEF MarkFilesCommitted, SetPhase
<1>9. CASE CommitCleanup
  <2>1. CASE t = cur
    BY <1>9, <2>1 DEF CommitCleanup, RemoveDir, RemovePart
  <2>2. CASE t # cur
    <3>1. Same(t)
      BY <1>9, <2>2 DEF CommitCleanup, RemoveDir, RemovePart, Same, Kept
    <3> QED
      BY <3>1, SameTx
  <2> QED
    BY <2>1, <2>2
<1>10. CASE Finish
  BY <1>10 DEF Finish, SetPhase
<1>11. CASE Close
  <2>1. CASE t = cur
    BY <1>11, <2>1 DEF Close, RemoveDir, RemovePart
  <2>2. CASE t # cur
    <3>1. Same(t)
      BY <1>11, <2>2 DEF Close, RemoveDir, RemovePart, Same, Kept
    <3> QED
      BY <3>1, SameTx
  <2> QED
    BY <2>1, <2>2
<1>12. CASE DropHandle
  <2>1. CASE t = cur
    BY <1>12, <2>1 DEF DropHandle, RemoveDir, RemovePart
  <2>2. CASE t # cur
    <3>1. Same(t)
      BY <1>12, <2>2 DEF DropHandle, RemoveDir, RemovePart, Same, Kept
    <3> QED
      BY <3>1, SameTx
  <2> QED
    BY <2>1, <2>2
<1>13. CASE Rollback
  BY <1>13 DEF Rollback
<1>14. CASE \E f \in Files : RestoreFile(f)
  <2> PICK f \in Files : RestoreFile(f)
    BY <1>14
  <2>1. CASE t = cur
    BY <2>1 DEF RestoreFile
  <2>2. CASE t # cur
    <3>1. Same(t)
      BY <2>2 DEF RestoreFile, Same, Kept
    <3> QED
      BY <3>1, SameTx
  <2> QED
    BY <2>1, <2>2
<1>15. CASE MarkRolledBack
  BY <1>15 DEF MarkRolledBack, SetPhase
<1>16. CASE RecordOwn
  BY <1>16 DEF RecordOwn, StartScan
<1>17. CASE Recover
  BY <1>17 DEF Recover, StartScan
<1>18. CASE \E u \in Txs : Discard(u)
  <2> PICK u \in Txs : Discard(u)
    BY <1>18
  <2>1. CASE t = u
    <3>1. ~mode[t] => applied[t] = {} \/ t \in dropped \/ applied[t] = Targets(t)
      BY <2>1 DEF Discard, Discardable, Phase
    <3>2. ~mode[t] /\ linked[t] => applied[t] = {} \/ t \in recorded
      BY <2>1 DEF Discard, Discardable, Phase
    <3>3. ~mode[t] /\ phase[t] \in {"FilesCommitted", "Finished"} =>
            t \in dropped \/ applied[t] = Targets(t)
      BY <2>1
    <3>4. /\ phase'[t] \in {"nodir", "staging"} \/ phase'[t] = phase[t]
          /\ phase[t] \notin {"unused", "Prepared"} /\ t \in released'
          /\ UNCHANGED <<applied, dropped, recorded, known, pass, entryVars>>
      BY <2>1 DEF Discard, Discardable, RemoveDir, RemovePart, Phase
    <3> QED
      BY <3>1, <3>2, <3>3, <3>4
  <2>2. CASE t # u
    <3>1. Same(t)
      BY <2>2 DEF Discard, Visit, Discardable, RemoveDir, RemovePart, Same, Kept
    <3> QED
      BY <3>1, SameTx
  <2> QED
    BY <2>1, <2>2
<1>19. CASE \E u \in Txs : Keep(u)
  <2> PICK u \in Txs : Keep(u)
    BY <1>19
  <2>1. CASE t = u
    BY <2>1 DEF Keep, Visit, Discardable, HasManifest, HasDir, Report
  <2>2. CASE t # u
    <3>1. Same(t)
      BY <2>2 DEF Keep, Visit, Discardable, HasManifest, HasDir, Report, Same, Kept
    <3> QED
      BY <3>1, SameTx
  <2> QED
    BY <2>1, <2>2
<1>20. CASE \E u \in Txs : StartReplay(u)
  <2> PICK u \in Txs : StartReplay(u)
    BY <1>20
  <2>1. CASE t = u
    BY <2>1 DEF StartReplay, Visit
  <2>2. CASE t # u
    <3>1. Same(t)
      BY <2>2 DEF StartReplay, Visit, Same, Kept
    <3> QED
      BY <3>1, SameTx
  <2> QED
    BY <2>1, <2>2
<1>21. CASE \E f \in Files : Replay(f)
  <2> PICK f \in Files : Replay(f)
    BY <1>21
  <2>1. CASE t = cur
    BY <2>1 DEF Replay, Replayable, Reach
  <2>2. CASE t # cur
    <3>1. Same(t)
      BY <2>2 DEF Replay, Replayable, Reach, Same, Kept
    <3> QED
      BY <3>1, SameTx
  <2> QED
    BY <2>1, <2>2
<1>22. CASE \E f \in Files : ReplayFails(f)
  <2> PICK f \in Files : ReplayFails(f)
    BY <1>22
  <2>1. CASE t = cur
    BY <2>1 DEF ReplayFails, Replayable, Reach
  <2>2. CASE t # cur
    <3>1. Same(t)
      BY <2>2 DEF ReplayFails, Replayable, Reach, Same, Kept
    <3> QED
      BY <3>1, SameTx
  <2> QED
    BY <2>1, <2>2
<1>23. CASE DropReplayed
  <2>1. CASE t = cur
    BY <1>23, <2>1 DEF DropReplayed, ReplayDone, RemoveDir, RemovePart
  <2>2. CASE t # cur
    <3>1. Same(t)
      BY <1>23, <2>2 DEF DropReplayed, ReplayDone, RemoveDir, RemovePart, Same, Kept
    <3> QED
      BY <3>1, SameTx
  <2> QED
    BY <2>1, <2>2
<1>24. CASE PromoteReplayed
  BY <1>24 DEF PromoteReplayed, ReplayDone, SetPhase, Report
<1>25. CASE RetainReplayed
  BY <1>25 DEF RetainReplayed, ReplayDone
<1>26. CASE RecordReported
  <2>1. recorded \subseteq recorded' /\ recorded' \subseteq recorded \union known
    BY <1>26 DEF RecordReported
  <2>2. /\ pass = "recover" /\ pass' = "purge" /\ known' = recorded'
        /\ UNCHANGED <<entryVars, dirVars, pastVars>>
    BY <1>26 DEF RecordReported, StartScan
  <2>3. t \in recorded' =>
          phase[t] # "unused" /\ (~mode[t] => applied[t] = Targets(t))
    BY <2>1, <2>2
  <2>4. Kept(t)
    BY <2>2 DEF Kept
  <2> QED
    BY <2>1, <2>2, <2>3, <2>4, RecordTx
<1>27. CASE EndScan
  BY <1>27 DEF EndScan, ForgetScan
<1>28. CASE CommitFails
  BY <1>28 DEF CommitFails
<1>29. CASE RollbackFails
  BY <1>29 DEF RollbackFails
<1>30. CASE Crash
  BY <1>30 DEF Crash, ForgetScan
<1>31. CASE \E f \in Files : DeleteLive(f)
  <2>1. Same(t)
    BY <1>31 DEF DeleteLive, Same, Kept
  <2> QED
    BY <2>1, SameTx
<1>32. CASE UNCHANGED vars
  BY <1>32 DEF vars
<1> QED
  BY <1>1, <1>2, <1>3, <1>4, <1>5, <1>6, <1>7, <1>8, <1>9, <1>10, <1>11, <1>12, <1>13, <1>14, <1>15, <1>16, <1>17, <1>18, <1>19, <1>20, <1>21, <1>22, <1>23, <1>24, <1>25, <1>26, <1>27, <1>28, <1>29, <1>30, <1>31, <1>32
     DEF Next, Commit, AfterCommit, Scan

\* Every step keeps the inductive invariant.
LEMMA IInvStep == IInv /\ RollingInv /\ [Next]_vars => IInv'
<1> SUFFICES ASSUME IInv, RollingInv, [Next]_vars PROVE IInv'
  OBVIOUS
<1>1. TypeOK'
  BY TypeStep DEF IInv, TypeInv
<1>2. ASSUME NEW t \in Txs PROVE Life(t)' /\ (~mode'[t] => TxInv(t)')
  BY TxStep
<1> QED
  BY <1>1, <1>2, LockStep DEF IInv

\* Every save is all or nothing unless the replay itself missed an entry.
THEOREM NoTornSaveHolds == Spec => []NoTornSave
<1>1. Init => IInv /\ TypeInv
  BY IInvInit, TypeInit
<1>2. IInv /\ TypeInv /\ [Next]_vars => (IInv /\ TypeInv)'
  BY IInvStep, TypeStep DEF TypeInv
<1>3. IInv => NoTornSave
  BY DEF IInv, TypeOK, TxInv, NoTornSave
<1> QED
  BY <1>1, <1>2, <1>3, PTL DEF Spec

\* No event is recorded for a text that did not reach the live files.
THEOREM RecordedOnlyWhenLandedHolds == Spec => []RecordedOnlyWhenLanded
<1>1. Init => IInv /\ TypeInv
  BY IInvInit, TypeInit
<1>2. IInv /\ TypeInv /\ [Next]_vars => (IInv /\ TypeInv)'
  BY IInvStep, TypeStep DEF TypeInv
<1>3. IInv => RecordedOnlyWhenLanded
  BY DEF IInv, TypeOK, TxInv, RecordedOnlyWhenLanded
<1> QED
  BY <1>1, <1>2, <1>3, PTL DEF Spec

\* The proof material outlives every unrecorded change of a live file.
THEOREM ProofMaterialRetainedHolds == Spec => []ProofMaterialRetained
<1>1. Init => IInv /\ TypeInv
  BY IInvInit, TypeInit
<1>2. IInv /\ TypeInv /\ [Next]_vars => (IInv /\ TypeInv)'
  BY IInvStep, TypeStep DEF TypeInv
<1>3. ASSUME IInv, NEW t \in Txs,
             linked[t], ~mode[t], applied[t] # {}, t \notin recorded
      PROVE  HasManifest(t) /\ t \in proof
  <2>1. Life(t) /\ TxInv(t) /\ phase[t] \in Phase
    BY <1>3 DEF IInv, TypeOK
  <2>2. t \notin released
    BY <1>3, <2>1 DEF TxInv
  <2>3. phase[t] \in {"Prepared", "FilesCommitted", "Finished"}
    BY <1>3, <2>1, <2>2 DEF TxInv, Phase
  <2> QED
    BY <1>3, <2>1, <2>2, <2>3 DEF TxInv, HasManifest, HasDir
<1>4. IInv => ProofMaterialRetained
  BY <1>3 DEF ProofMaterialRetained
<1> QED
  BY <1>1, <1>2, <1>4, PTL DEF Spec

-----------------------------------------------------------------------------
(* Backup mode.                                                            *)

\* While the owner of a transaction holds the lock, nobody else writes: the
\* files it has no entry for are as they were, its backups are of the files
\* as they were, and a rollback makes the others so again one by one.
OwnerInv ==
  /\ pc = "staging" =>
       /\ live = base[cur]
       /\ \A f \in Files : backup[cur][f] \in {None, base[cur][f]}
  /\ pc \in {"applying", "committed", "rolling"} /\ mode[cur] =>
       /\ \A f \in Targets(cur) : backup[cur][f] = base[cur][f]
       /\ \A f \in Files \ Targets(cur) : live[f] = base[cur][f]
  /\ pc = "rolling" =>
       mode[cur] /\ \A f \in Targets(cur) \ left : live[f] = base[cur][f]
  /\ pc = "closing" /\ phase[cur] = "RolledBack" => live = base[cur]
  /\ pc \in {"committed", "rolling"} => phase[cur] # "RolledBack"
  /\ pc = "applying" => left \subseteq Targets(cur)
  /\ pc = "cleaning" => ~mode[cur] /\ phase[cur] # "RolledBack"

\* A transaction that has not begun has no backups.
FreshInv ==
  \A t \in Txs : phase[t] = "unused" => backup[t] = NoBackup

RollInv == TypeInv /\ OwnerInv /\ FreshInv

\* Initially nobody holds the lock and there is no backup.
LEMMA RollInit == Init => RollInv
BY TypeInit DEF Init, RollInv, TypeInv, TypeOK, OwnerInv, FreshInv, NoBackup

\* Only a directory is changed by a step, or removed; none becomes unused.
LEMMA FreshStep == RollInv /\ [Next]_vars => FreshInv'
<1> SUFFICES ASSUME RollInv, [Next]_vars PROVE FreshInv'
  OBVIOUS
<1> USE DEF RollInv, TypeInv, TypeOK, FreshInv, NoBackup, entryVars, dirVars
<1>1. CASE \E t \in Txs, p \in [Files -> Op], lk \in BOOLEAN, md \in Modes:
                Begin(t, p, lk, md)
  BY <1>1 DEF Begin, NoBackup
<1>2. CASE \E f \in Files : AddBytes(f)
  BY <1>2 DEF AddBytes
<1>3. CASE CommitEmpty
  BY <1>3 DEF CommitEmpty, RemoveDir
<1>4. CASE PersistProofRecovery
  BY <1>4 DEF PersistProofRecovery, AllStaged
<1>5. CASE \E f \in Files : BackUp(f)
  BY <1>5 DEF BackUp, AllStaged
<1>6. CASE WritePrepared
  BY <1>6 DEF WritePrepared, AllStaged, BackedUp, SetPhase
<1>7. CASE \E f \in Files : Apply(f)
  BY <1>7 DEF Apply, Reach
<1>8. CASE MarkFilesCommitted
  BY <1>8 DEF MarkFilesCommitted, SetPhase
<1>9. CASE CommitCleanup
  BY <1>9 DEF CommitCleanup, RemoveDir, RemovePart
<1>10. CASE Finish
  BY <1>10 DEF Finish, SetPhase
<1>11. CASE Close
  BY <1>11 DEF Close, RemoveDir, RemovePart
<1>12. CASE DropHandle
  BY <1>12 DEF DropHandle, RemoveDir, RemovePart
<1>13. CASE Rollback
  BY <1>13 DEF Rollback
<1>14. CASE \E f \in Files : RestoreFile(f)
  BY <1>14 DEF RestoreFile
<1>15. CASE MarkRolledBack
  BY <1>15 DEF MarkRolledBack, SetPhase
<1>16. CASE RecordOwn
  BY <1>16 DEF RecordOwn, StartScan
<1>17. CASE Recover
  BY <1>17 DEF Recover, StartScan
<1>18. CASE \E t \in Txs : Discard(t)
  BY <1>18 DEF Discard, Visit, Discardable, RemoveDir, RemovePart
<1>19. CASE \E t \in Txs : Keep(t)
  BY <1>19 DEF Keep, Visit
<1>20. CASE \E t \in Txs : StartReplay(t)
  BY <1>20 DEF StartReplay, Visit
<1>21. CASE \E f \in Files : Replay(f)
  BY <1>21 DEF Replay
<1>22. CASE \E f \in Files : ReplayFails(f)
  BY <1>22 DEF ReplayFails
<1>23. CASE DropReplayed
  BY <1>23 DEF DropReplayed, ReplayDone, RemoveDir, RemovePart
<1>24. CASE PromoteReplayed
  BY <1>24 DEF PromoteReplayed, ReplayDone, SetPhase
<1>25. CASE RetainReplayed
  BY <1>25 DEF RetainReplayed, ReplayDone
<1>26. CASE RecordReported
  BY <1>26 DEF RecordReported, StartScan
<1>27. CASE EndScan
  BY <1>27 DEF EndScan, ForgetScan
<1>28. CASE CommitFails
  BY <1>28 DEF CommitFails
<1>29. CASE RollbackFails
  BY <1>29 DEF RollbackFails
<1>30. CASE Crash
  BY <1>30 DEF Crash, ForgetScan
<1>31. CASE \E f \in Files : DeleteLive(f)
  BY <1>31 DEF DeleteLive
<1>32. CASE UNCHANGED vars
  BY <1>32 DEF vars
<1> QED
  BY <1>1, <1>2, <1>3, <1>4, <1>5, <1>6, <1>7, <1>8, <1>9, <1>10, <1>11,
     <1>12, <1>13, <1>14, <1>15, <1>16, <1>17, <1>18, <1>19, <1>20,
     <1>21, <1>22, <1>23, <1>24, <1>25, <1>26, <1>27, <1>28, <1>29,
     <1>30, <1>31, <1>32
     DEF Next, Commit, AfterCommit, Scan

\* The holder of the lock keeps its backups and the files it may restore.
LEMMA RollOwnerStep == RollInv /\ [Next]_vars => OwnerInv'
<1> SUFFICES ASSUME RollInv, [Next]_vars PROVE OwnerInv'
  OBVIOUS
<1> USE DEF RollInv, TypeInv, TypeOK, RollingInv, OwnerInv, FreshInv, Targets,
        Release, entryVars, dirVars, scanVars, pastVars
<1>1. CASE \E t \in Txs, p \in [Files -> Op], lk \in BOOLEAN, md \in Modes:
                Begin(t, p, lk, md)
  BY <1>1 DEF Begin, NoBackup
<1>2. CASE \E f \in Files : AddBytes(f)
  BY <1>2 DEF AddBytes
<1>3. CASE CommitEmpty
  BY <1>3 DEF CommitEmpty, RemoveDir
<1>4. CASE PersistProofRecovery
  BY <1>4 DEF PersistProofRecovery, AllStaged
<1>5. CASE \E f \in Files : BackUp(f)
  BY <1>5 DEF BackUp, AllStaged
<1>6. CASE WritePrepared
  BY <1>6 DEF WritePrepared, AllStaged, BackedUp, SetPhase
<1>7. CASE \E f \in Files : Apply(f)
  BY <1>7 DEF Apply, Reach
<1>8. CASE MarkFilesCommitted
  BY <1>8 DEF MarkFilesCommitted, SetPhase
<1>9. CASE CommitCleanup
  BY <1>9 DEF CommitCleanup, RemoveDir, RemovePart
<1>10. CASE Finish
  BY <1>10 DEF Finish, SetPhase
<1>11. CASE Close
  BY <1>11 DEF Close, RemoveDir, RemovePart
<1>12. CASE DropHandle
  BY <1>12 DEF DropHandle, RemoveDir, RemovePart
<1>13. CASE Rollback
  BY <1>13 DEF Rollback
<1>14. CASE \E f \in Files : RestoreFile(f)
  BY <1>14 DEF RestoreFile
<1>15. CASE MarkRolledBack
  BY <1>15 DEF MarkRolledBack, SetPhase
<1>16. CASE RecordOwn
  BY <1>16 DEF RecordOwn, StartScan
<1>17. CASE Recover
  BY <1>17 DEF Recover, StartScan
<1>18. CASE \E t \in Txs : Discard(t)
  BY <1>18 DEF Discard, Visit, Discardable, RemoveDir, RemovePart
<1>19. CASE \E t \in Txs : Keep(t)
  BY <1>19 DEF Keep, Visit
<1>20. CASE \E t \in Txs : StartReplay(t)
  BY <1>20 DEF StartReplay, Visit
<1>21. CASE \E f \in Files : Replay(f)
  BY <1>21 DEF Replay
<1>22. CASE \E f \in Files : ReplayFails(f)
  BY <1>22 DEF ReplayFails
<1>23. CASE DropReplayed
  BY <1>23 DEF DropReplayed, ReplayDone, RemoveDir, RemovePart
<1>24. CASE PromoteReplayed
  BY <1>24 DEF PromoteReplayed, ReplayDone, SetPhase
<1>25. CASE RetainReplayed
  BY <1>25 DEF RetainReplayed, ReplayDone
<1>26. CASE RecordReported
  BY <1>26 DEF RecordReported, StartScan
<1>27. CASE EndScan
  BY <1>27 DEF EndScan, ForgetScan
<1>28. CASE CommitFails
  BY <1>28 DEF CommitFails
<1>29. CASE RollbackFails
  BY <1>29 DEF RollbackFails
<1>30. CASE Crash
  BY <1>30 DEF Crash, ForgetScan
<1>31. CASE \E f \in Files : DeleteLive(f)
  BY <1>31 DEF DeleteLive
<1>32. CASE UNCHANGED vars
  BY <1>32 DEF vars
<1> QED
  BY <1>1, <1>2, <1>3, <1>4, <1>5, <1>6, <1>7, <1>8, <1>9, <1>10, <1>11,
     <1>12, <1>13, <1>14, <1>15, <1>16, <1>17, <1>18, <1>19, <1>20,
     <1>21, <1>22, <1>23, <1>24, <1>25, <1>26, <1>27, <1>28, <1>29,
     <1>30, <1>31, <1>32
     DEF Next, Commit, AfterCommit, Scan

\* Every step keeps the invariant of the rollback.
LEMMA RollStep == RollInv /\ [Next]_vars => RollInv'
BY TypeStep, FreshStep, RollOwnerStep DEF RollInv

\* As long as the handle may still roll back, its backups are complete and
\* hold the files as they were before the commit.
THEOREM RollbackMaterialKeptHolds == Spec => []RollbackMaterialKept
<1>1. RollInv => RollbackMaterialKept
  BY DEF RollInv, OwnerInv, RollbackMaterialKept
<1> QED
  BY RollInit, RollStep, <1>1, PTL DEF Spec

\* A rollback that reached its phase left every live file as at Begin.
THEOREM RollbackRestoresHolds == Spec => []RollbackRestores
<1>1. RollInv => RollbackRestores
  BY DEF RollInv, OwnerInv, RollbackRestores
<1> QED
  BY RollInit, RollStep, <1>1, PTL DEF Spec

-----------------------------------------------------------------------------
(***************************************************************************)
(* The transactions callers use (no backup mode) implement AtomicSave, for *)
(* any number of files, transactions and faults: initial states map to     *)
(* initial states, and every step to a step of AtomicSave or to a stutter. *)
(***************************************************************************)

\* Production callers never ask for backups.
NoBackupMode == \A t \in Txs : ~mode[t]

\* A file is staged or applied, never both: a rename moves it.
StagedOnce == \A t \in Txs : staged[t] \cap applied[t] = {}

\* What the owner has committed, and what the scan reports, is settled.
OwnerSettled == pc \in {"committed", "closing"} => Status(cur) = "settled"
KnownSettled == \A t \in known : pass = "recover" => Status(t) = "settled"

PInv ==
  /\ IInv /\ RollingInv /\ NoBackupMode
  /\ StagedOnce /\ OwnerSettled /\ KnownSettled

\* The initial states satisfy the invariant.
LEMMA PInit == Init => PInv
BY IInvInit, TypeInit DEF Init, PInv, NoBackupMode, StagedOnce, TypeInv,
   OwnerSettled, KnownSettled

\* No step turns backups on.
LEMMA ModeStep ==
  ASSUME Modes = {FALSE}, NoBackupMode, TypeOK, [Next]_vars
  PROVE  NoBackupMode'
<1>1. CASE \E t \in Txs, p \in [Files -> Op], lk \in BOOLEAN, md \in Modes :
              Begin(t, p, lk, md)
  BY <1>1 DEF Begin, NoBackupMode, TypeOK
<1>2. CASE UNCHANGED mode
  BY <1>2 DEF NoBackupMode
<1> QED
  BY <1>1, <1>2 DEF Next, vars, entryVars, Commit, AfterCommit, Scan,
       AddBytes,
     BackUp, Apply, CommitEmpty, PersistProofRecovery, WritePrepared,
     MarkFilesCommitted, CommitCleanup, Finish, Close, DropHandle, RecordOwn,
     Rollback, MarkRolledBack, RestoreFile, Discard, Keep, StartReplay,
     Replay, ReplayFails, DropReplayed, PromoteReplayed, RetainReplayed,
     RecordReported, EndScan, Recover, CommitFails, RollbackFails, Crash,
     DeleteLive
\* Directories and entries of all other transactions are left alone.
OnlyOf(t) ==
  /\ \A u \in Txs \ {t} : phase'[u] = phase[u] /\ (u \in released' <=> u \in
          released)

\* Nothing AtomicSave shows has changed but, perhaps, one status.
Quiet == UNCHANGED <<live, plan, linked, applied, recorded>>

\* The moves of a status that AtomicSave allows.
Moves(t) ==
  \/ Status(t)' = Status(t)
  \/ Status(t) = "open" /\ Status(t)' = "settled"
  \/ Status(t) = "open" /\ Status(t)' = "logged"
  \/ /\ Status(t) = "logged" /\ Status(t)' = "settled"
     /\ applied[t] = Targets(t) \/ ~linked[t]

\* A quiet step that moves one status as allowed is a step of AtomicSave.
LEMMA QuietStep ==
  ASSUME NEW t \in Txs, Quiet, OnlyOf(t), Moves(t)
  PROVE  [Promise!Next]_(Promise!vars)
<1>1. \A u \in Txs \ {t} : Status(u)' = Status(u)
  BY DEF OnlyOf, Status, Committed
<1>2. StatusOf' = [StatusOf EXCEPT ![t] = Status(t)'] /\ StatusOf[t] =
        Status(t)
  BY <1>1 DEF StatusOf
<1>3. CASE Status(t)' = Status(t)
  <2>1. StatusOf' = StatusOf
    BY <1>1, <1>3 DEF StatusOf
  <2> QED
    BY <2>1 DEF Quiet, Promise!vars
<1>4. CASE Status(t) = "open" /\ Status(t)' = "settled"
  <2>1. Promise!Abandon(t)
    BY <1>2, <1>4 DEF Quiet, Promise!Abandon, Promise!Move
  <2> QED
    BY <2>1 DEF Promise!Next
<1>5. CASE Status(t) = "open" /\ Status(t)' = "logged"
  <2>1. Promise!Log(t)
    BY <1>2, <1>5 DEF Quiet, Promise!Log, Promise!Move
  <2> QED
    BY <2>1 DEF Promise!Next
<1>6. CASE /\ Status(t) = "logged" /\ Status(t)' = "settled"
           /\ applied[t] = Targets(t) \/ ~linked[t]
  <2>1. Promise!Settle(t) \/ Promise!GiveUp(t)
    BY <1>2, <1>6 DEF Quiet, Promise!Settle, Promise!GiveUp, Promise!Move,
       Promise!Owed, Targets
  <2> QED
    BY <2>1 DEF Promise!Next
<1> QED
  BY <1>3, <1>4, <1>5, <1>6 DEF Moves

\* An entry that reaches its file from a Prepared transaction is a Land.
LEMMA LandStep ==
  ASSUME NEW t \in Txs, NEW f \in Targets(t), TypeOK, phase[t] = "Prepared",
         plan[t][f] = "write" => f \notin applied[t],
         Reach(t, f), UNCHANGED <<plan, linked, recorded, phase, released>>
  PROVE  [Promise!Next]_(Promise!vars)
<1>1. f \in Files /\ plan[t][f] \in Op
  BY DEF Targets, TypeOK
<1>2. StatusOf' = StatusOf /\ StatusOf[t] = "logged"
  BY DEF StatusOf, Status, Committed
<1>3. Promise!Land(t, f)
  BY <1>1, <1>2 DEF Promise!Land, Promise!Owed, Promise!Result, Reach,
     Outcome, Targets
<1> QED
  BY <1>1, <1>3 DEF Promise!Next

\* What the scan's step RecordReported or RecordOwn records has landed.
LEMMA RecordStep ==
  ASSUME PInv, UNCHANGED <<live, plan, linked, applied, phase, released>>,
         NEW S \in SUBSET Txs, recorded' = recorded \union S,
         \A t \in S : applied[t] = Targets(t) /\ Status(t) = "settled"
  PROVE  [Promise!Next]_(Promise!vars)
<1>1. StatusOf' = StatusOf
  BY DEF StatusOf, Status, Committed
<1>2. recorded \subseteq Txs
  BY DEF PInv, IInv, TypeOK
<1>3. Promise!Record
  BY <1>1, <1>2 DEF Promise!Record, StatusOf, Promise!Owed, Targets
<1> QED
  BY <1>3 DEF Promise!Next

\* Every step is a step of AtomicSave or changes nothing it shows.
LEMMA Simulation ==
  ASSUME PInv, [Next]_vars
  PROVE  [Promise!Next]_(Promise!vars)
<1>1. CASE \E f \in Files : AddBytes(f)
  <2> PICK f \in Files : AddBytes(f)
    BY <1>1
  <2>1. PICK t \in Txs : t = cur
    BY DEF AddBytes, Writes, PInv, IInv, TypeOK
  <2>2. Quiet /\ OnlyOf(t)
    BY <2>1 DEF AddBytes, Writes, Quiet, OnlyOf, entryVars, dirVars,
         pastVars, scanVars, PInv, IInv, TypeOK
  <2>3. Moves(t)
    BY <2>1 DEF AddBytes, Writes, OwnerSettled, PInv, IInv, TypeOK, LockInv,
         Life, TxInv, NoBackupMode, Moves, Status, Committed, Phase, dirVars,
         entryVars, pastVars, scanVars, Targets
  <2> QED
    BY <2>1, <2>2, <2>3, QuietStep
<1>2. CASE CommitEmpty
  <2>1. PICK t \in Txs : t = cur
    BY <1>2 DEF CommitEmpty, RemoveDir, PInv, IInv, TypeOK
  <2>2. Quiet /\ OnlyOf(t)
    BY <1>2, <2>1 DEF CommitEmpty, RemoveDir, Quiet, OnlyOf, entryVars,
         dirVars, pastVars, scanVars, PInv, IInv, TypeOK
  <2>3. Moves(t)
    BY <1>2, <2>1 DEF CommitEmpty, RemoveDir, OwnerSettled, PInv, IInv,
         TypeOK, LockInv, Life, TxInv, NoBackupMode, Moves, Status, Committed,
         Phase, dirVars, entryVars, pastVars, scanVars, Targets
  <2> QED
    BY <2>1, <2>2, <2>3, QuietStep
<1>3. CASE PersistProofRecovery
  <2>1. PICK t \in Txs : t = cur
    BY <1>3 DEF PersistProofRecovery, AllStaged, PInv, IInv, TypeOK
  <2>2. Quiet /\ OnlyOf(t)
    BY <1>3, <2>1 DEF PersistProofRecovery, AllStaged, Quiet, OnlyOf,
         entryVars, dirVars, pastVars, scanVars, PInv, IInv, TypeOK
  <2>3. Moves(t)
    BY <1>3, <2>1 DEF PersistProofRecovery, AllStaged, OwnerSettled, PInv,
         IInv, TypeOK, LockInv, Life, TxInv, NoBackupMode, Moves, Status,
         Committed, Phase, dirVars, entryVars, pastVars, scanVars, Targets
  <2> QED
    BY <2>1, <2>2, <2>3, QuietStep
<1>4. CASE WritePrepared
  <2>1. PICK t \in Txs : t = cur
    BY <1>4 DEF WritePrepared, AllStaged, SetPhase, PInv, IInv, TypeOK
  <2>2. Quiet /\ OnlyOf(t)
    BY <1>4, <2>1 DEF WritePrepared, AllStaged, SetPhase, Quiet, OnlyOf,
         entryVars, dirVars, pastVars, scanVars, PInv, IInv, TypeOK
  <2>3. Moves(t)
    BY <1>4, <2>1 DEF WritePrepared, AllStaged, SetPhase, OwnerSettled,
         PInv, IInv, TypeOK, LockInv, Life, TxInv, NoBackupMode, Moves, Status,
         Committed, Phase, dirVars, entryVars, pastVars, scanVars, Targets
  <2> QED
    BY <2>1, <2>2, <2>3, QuietStep
<1>5. CASE MarkFilesCommitted
  <2>1. PICK t \in Txs : t = cur
    BY <1>5 DEF MarkFilesCommitted, SetPhase, PInv, IInv, TypeOK
  <2>2. Quiet /\ OnlyOf(t)
    BY <1>5, <2>1 DEF MarkFilesCommitted, SetPhase, Quiet, OnlyOf,
         entryVars, dirVars, pastVars, scanVars, PInv, IInv, TypeOK
  <2>3. Moves(t)
    BY <1>5, <2>1 DEF MarkFilesCommitted, SetPhase, OwnerSettled, PInv,
         IInv, TypeOK, LockInv, Life, TxInv, NoBackupMode, Moves, Status,
         Committed, Phase, dirVars, entryVars, pastVars, scanVars, Targets
  <2> QED
    BY <2>1, <2>2, <2>3, QuietStep
<1>6. CASE CommitCleanup
  <2>1. PICK t \in Txs : t = cur
    BY <1>6 DEF CommitCleanup, RemoveDir, RemovePart, PInv, IInv, TypeOK
  <2>2. Quiet /\ OnlyOf(t)
    BY <1>6, <2>1 DEF CommitCleanup, RemoveDir, RemovePart, Quiet, OnlyOf,
         entryVars, dirVars, pastVars, scanVars, PInv, IInv, TypeOK
  <2>3. Moves(t)
    BY <1>6, <2>1 DEF CommitCleanup, RemoveDir, RemovePart, OwnerSettled,
         PInv, IInv, TypeOK, LockInv, Life, TxInv, NoBackupMode, Moves, Status,
         Committed, Phase, dirVars, entryVars, pastVars, scanVars, Targets
  <2> QED
    BY <2>1, <2>2, <2>3, QuietStep
<1>7. CASE Finish
  <2>1. PICK t \in Txs : t = cur
    BY <1>7 DEF Finish, SetPhase, PInv, IInv, TypeOK
  <2>2. Quiet /\ OnlyOf(t)
    BY <1>7, <2>1 DEF Finish, SetPhase, Quiet, OnlyOf, entryVars, dirVars,
         pastVars, scanVars, PInv, IInv, TypeOK
  <2>3. Moves(t)
    BY <1>7, <2>1 DEF Finish, SetPhase, OwnerSettled, PInv, IInv, TypeOK,
         LockInv, Life, TxInv, NoBackupMode, Moves, Status, Committed, Phase,
         dirVars, entryVars, pastVars, scanVars, Targets
  <2> QED
    BY <2>1, <2>2, <2>3, QuietStep
<1>8. CASE Close
  <2>1. PICK t \in Txs : t = cur
    BY <1>8 DEF Close, RemoveDir, RemovePart, PInv, IInv, TypeOK
  <2>2. Quiet /\ OnlyOf(t)
    BY <1>8, <2>1 DEF Close, RemoveDir, RemovePart, Quiet, OnlyOf,
         entryVars, dirVars, pastVars, scanVars, PInv, IInv, TypeOK
  <2>3. Moves(t)
    BY <1>8, <2>1 DEF Close, RemoveDir, RemovePart, OwnerSettled, PInv,
         IInv, TypeOK, LockInv, Life, TxInv, NoBackupMode, Moves, Status,
         Committed, Phase, dirVars, entryVars, pastVars, scanVars, Targets
  <2> QED
    BY <2>1, <2>2, <2>3, QuietStep
<1>9. CASE DropHandle
  <2>1. PICK t \in Txs : t = cur
    BY <1>9 DEF DropHandle, RemoveDir, RemovePart, PInv, IInv, TypeOK
  <2>2. Quiet /\ OnlyOf(t)
    BY <1>9, <2>1 DEF DropHandle, RemoveDir, RemovePart, Quiet, OnlyOf,
         entryVars, dirVars, pastVars, scanVars, PInv, IInv, TypeOK
  <2>3. Moves(t)
    BY <1>9, <2>1 DEF DropHandle, RemoveDir, RemovePart, OwnerSettled, PInv,
         IInv, TypeOK, LockInv, Life, TxInv, NoBackupMode, Moves, Status,
         Committed, Phase, dirVars, entryVars, pastVars, scanVars, Targets
  <2> QED
    BY <2>1, <2>2, <2>3, QuietStep
<1>10. CASE \E t \in Txs : Discard(t)
  <2> PICK t \in Txs : Discard(t)
    BY <1>10
  <2>1. t = t /\ t \in Txs
    OBVIOUS
  <2>2. Quiet /\ OnlyOf(t)
    BY <2>1 DEF Discard, Visit, Discardable, RemoveDir, RemovePart, HasDir,
         Quiet, OnlyOf, entryVars, dirVars, pastVars, scanVars, PInv, IInv,
         TypeOK
  <2>3. Moves(t)
    BY <2>1 DEF Discard, Visit, Discardable, RemoveDir, RemovePart, HasDir,
         OwnerSettled, PInv, IInv, TypeOK, LockInv, Life, TxInv, NoBackupMode,
         Moves, Status, Committed, Phase, dirVars, entryVars, pastVars, scanVars,
         Targets
  <2> QED
    BY <2>1, <2>2, <2>3, QuietStep
<1>11. CASE \E t \in Txs : Keep(t)
  <2> PICK t \in Txs : Keep(t)
    BY <1>11
  <2>1. t = t /\ t \in Txs
    OBVIOUS
  <2>2. Quiet /\ OnlyOf(t)
    BY <2>1 DEF Keep, Visit, Quiet, OnlyOf, entryVars, dirVars, pastVars,
         scanVars, PInv, IInv, TypeOK
  <2>3. Moves(t)
    BY <2>1 DEF Keep, Visit, OwnerSettled, PInv, IInv, TypeOK, LockInv,
         Life, TxInv, NoBackupMode, Moves, Status, Committed, Phase, dirVars,
         entryVars, pastVars, scanVars, Targets
  <2> QED
    BY <2>1, <2>2, <2>3, QuietStep
<1>12. CASE \E t \in Txs : StartReplay(t)
  <2> PICK t \in Txs : StartReplay(t)
    BY <1>12
  <2>1. t = t /\ t \in Txs
    OBVIOUS
  <2>2. Quiet /\ OnlyOf(t)
    BY <2>1 DEF StartReplay, Visit, Quiet, OnlyOf, entryVars, dirVars,
         pastVars, scanVars, PInv, IInv, TypeOK
  <2>3. Moves(t)
    BY <2>1 DEF StartReplay, Visit, OwnerSettled, PInv, IInv, TypeOK,
         LockInv, Life, TxInv, NoBackupMode, Moves, Status, Committed, Phase,
         dirVars, entryVars, pastVars, scanVars, Targets
  <2> QED
    BY <2>1, <2>2, <2>3, QuietStep
<1>13. CASE DropReplayed
  <2>1. PICK t \in Txs : t = cur
    BY <1>13 DEF DropReplayed, ReplayDone, RemoveDir, RemovePart, PInv,
         IInv, TypeOK
  <2>2. Quiet /\ OnlyOf(t)
    BY <1>13, <2>1 DEF DropReplayed, ReplayDone, RemoveDir, RemovePart,
         Quiet, OnlyOf, entryVars, dirVars, pastVars, scanVars, PInv, IInv,
         TypeOK
  <2>3. Moves(t)
    BY <1>13, <2>1 DEF DropReplayed, ReplayDone, RemoveDir, RemovePart,
         OwnerSettled, PInv, IInv, TypeOK, LockInv, Life, TxInv, NoBackupMode,
         Moves, Status, Committed, Phase, dirVars, entryVars, pastVars, scanVars,
         Targets
  <2> QED
    BY <2>1, <2>2, <2>3, QuietStep
<1>14. CASE PromoteReplayed
  <2>1. PICK t \in Txs : t = cur
    BY <1>14 DEF PromoteReplayed, ReplayDone, SetPhase, PInv, IInv, TypeOK
  <2>2. Quiet /\ OnlyOf(t)
    BY <1>14, <2>1 DEF PromoteReplayed, ReplayDone, SetPhase, Quiet, OnlyOf,
         entryVars, dirVars, pastVars, scanVars, PInv, IInv, TypeOK
  <2>3. Moves(t)
    BY <1>14, <2>1 DEF PromoteReplayed, ReplayDone, SetPhase, OwnerSettled,
         PInv, IInv, TypeOK, LockInv, Life, TxInv, NoBackupMode, Moves, Status,
         Committed, Phase, dirVars, entryVars, pastVars, scanVars, Targets
  <2> QED
    BY <2>1, <2>2, <2>3, QuietStep
<1>15. CASE RetainReplayed
  <2>1. PICK t \in Txs : t = cur
    BY <1>15 DEF RetainReplayed, ReplayDone, PInv, IInv, TypeOK
  <2>2. Quiet /\ OnlyOf(t)
    BY <1>15, <2>1 DEF RetainReplayed, ReplayDone, Quiet, OnlyOf, entryVars,
         dirVars, pastVars, scanVars, PInv, IInv, TypeOK
  <2>3. Moves(t)
    BY <1>15, <2>1 DEF RetainReplayed, ReplayDone, OwnerSettled, PInv, IInv,
         TypeOK, LockInv, Life, TxInv, NoBackupMode, Moves, Status, Committed,
         Phase, dirVars, entryVars, pastVars, scanVars, Targets
  <2> QED
    BY <2>1, <2>2, <2>3, QuietStep
<1>16. CASE Recover
  BY <1>16 DEF Recover, Release, ForgetScan, StartScan, vars, Promise!vars,
       StatusOf, Status, Committed, entryVars, dirVars, pastVars
<1>17. CASE EndScan
  BY <1>17 DEF EndScan, Release, ForgetScan, StartScan, vars, Promise!vars,
       StatusOf, Status, Committed, entryVars, dirVars, pastVars
<1>18. CASE CommitFails
  BY <1>18 DEF CommitFails, Release, ForgetScan, StartScan, vars,
       Promise!vars, StatusOf, Status, Committed, entryVars, dirVars, pastVars
<1>19. CASE Crash
  BY <1>19 DEF Crash, Release, ForgetScan, StartScan, vars, Promise!vars,
       StatusOf, Status, Committed, entryVars, dirVars, pastVars
<1>20. CASE UNCHANGED vars
  BY <1>20 DEF Release, ForgetScan, StartScan, vars, Promise!vars, StatusOf,
       Status, Committed, entryVars, dirVars, pastVars
<1>21. CASE \E f \in Files : BackUp(f)
  <2> PICK f \in Files : BackUp(f)
    BY <1>21
  <2> QED
    BY DEF BackUp, AllStaged, OwnerSettled, PInv, IInv, TypeOK, LockInv,
         Life, TxInv, NoBackupMode
<1>22. CASE Rollback
  BY <1>22 DEF Rollback, OwnerSettled, PInv, IInv, TypeOK, LockInv, Life,
       TxInv, NoBackupMode
<1>23. CASE \E f \in Files : RestoreFile(f)
  <2> PICK f \in Files : RestoreFile(f)
    BY <1>23
  <2> QED
    BY DEF RestoreFile, AllStaged, OwnerSettled, PInv, IInv, TypeOK,
         LockInv, Life, TxInv, NoBackupMode
<1>24. CASE MarkRolledBack
  BY <1>24 DEF MarkRolledBack, OwnerSettled, PInv, IInv, TypeOK, LockInv,
       Life, TxInv, NoBackupMode
<1>25. CASE RollbackFails
  BY <1>25 DEF RollbackFails, OwnerSettled, PInv, IInv, TypeOK, LockInv,
       Life, TxInv, NoBackupMode
<1>26. CASE \E t \in Txs, p \in [Files -> Op], lk \in BOOLEAN, md \in Modes
        : Begin(t, p, lk, md)
  <2> PICK t \in Txs, p \in [Files -> Op], lk \in BOOLEAN, md \in Modes :
               Begin(t, p, lk, md)
    BY <1>26
  <2>1. /\ phase = [phase EXCEPT ![t] = "unused"]
        /\ phase' = [phase EXCEPT ![t] = "nodir"] /\ t \notin released
    BY DEF Begin, PInv, IInv, TypeOK, Life
  <2>2. /\ \A u \in Txs \ {t} : Status(u)' = Status(u)
        /\ Status(t) = "new" /\ Status(t)' = "open"
    BY <2>1 DEF Begin, Status, Committed, pastVars, PInv, IInv, TypeOK
  <2>5. StatusOf[t] = "new" /\ StatusOf' = [StatusOf EXCEPT ![t] = "open"]
    BY <2>2 DEF StatusOf
  <2>3. Op = Promise!Op
    BY DEF Op, Promise!Op
  <2>4. Promise!Open(t)
    BY <2>5, <2>3 DEF Begin, Promise!Open, pastVars, PInv, IInv, TypeOK
  <2> QED
    BY <2>4 DEF Promise!Next
<1>27. CASE \E f \in Files : Apply(f)
  <2> PICK f \in Files : Apply(f)
    BY <1>27
  <2>1. /\ cur \in Txs /\ f \in Targets(cur) /\ phase[cur] = "Prepared"
        /\ f \notin applied[cur]
    BY DEF Apply, OwnerSettled, PInv, IInv, TypeOK, LockInv, Life, TxInv,
         NoBackupMode
  <2> QED
    BY <2>1, LandStep DEF Apply, entryVars, PInv, IInv
<1>28. CASE \E f \in Files : Replay(f)
  <2> PICK f \in Files : Replay(f)
    BY <1>28
  <2>1. cur \in Txs /\ f \in Targets(cur) /\ phase[cur] = "Prepared"
    BY DEF Replay, OwnerSettled, PInv, IInv, TypeOK, LockInv, Life, TxInv,
         NoBackupMode
  <2>2. CASE UNCHANGED <<live, staged, applied>>
    BY <2>2 DEF Replay, Promise!vars, StatusOf, Status, Committed, entryVars
  <2>3. CASE Replayable(cur, f) /\ Reach(cur, f)
    <3>1. plan[cur][f] = "write" => f \notin applied[cur]
      BY <2>1, <2>3 DEF Replayable, PInv, StagedOnce
    <3> QED
      BY <2>1, <2>3, <3>1, LandStep DEF Replay, entryVars, PInv, IInv
  <2> QED
    BY <2>2, <2>3 DEF Replay
<1>29. CASE \E f \in Files : ReplayFails(f)
  <2> PICK f \in Files : ReplayFails(f)
    BY <1>29
  <2>1. cur \in Txs /\ f \in Targets(cur) /\ phase[cur] = "Prepared"
    BY DEF ReplayFails, OwnerSettled, PInv, IInv, TypeOK, LockInv, Life,
         TxInv, NoBackupMode
  <2>2. CASE UNCHANGED <<live, staged, applied>>
    BY <2>2 DEF ReplayFails, Promise!vars, StatusOf, Status, Committed,
         entryVars
  <2>3. CASE Replayable(cur, f) /\ Reach(cur, f)
    <3>1. plan[cur][f] = "write" => f \notin applied[cur]
      BY <2>1, <2>3 DEF Replayable, PInv, StagedOnce
    <3> QED
      BY <2>1, <2>3, <3>1, LandStep DEF ReplayFails, entryVars, PInv, IInv
  <2> QED
    BY <2>2, <2>3 DEF ReplayFails
<1>30. CASE RecordReported
  <2>1. PICK S \in SUBSET Txs : S \subseteq known /\ recorded' = recorded
          \union S
    BY <1>30 DEF RecordReported, PInv, IInv, TypeOK
  <2>2. ASSUME NEW t \in S PROVE applied[t] = Targets(t) /\ Status(t) =
          "settled"
    BY <1>30, <2>1, <2>2 DEF RecordReported, OwnerSettled, PInv, IInv,
         TypeOK, LockInv, Life, TxInv, NoBackupMode, KnownSettled, Phase, Status,
         Committed
  <2> QED
    BY <1>30, <2>1, <2>2, RecordStep DEF RecordReported, entryVars, dirVars,
         pastVars
<1>31. CASE RecordOwn
  <2>1. /\ cur \in Txs /\ recorded' = recorded \union {cur}
        /\ applied[cur] = Targets(cur) /\ Status(cur) = "settled"
    BY <1>31 DEF RecordOwn, HasDir, Status, OwnerSettled, PInv, IInv,
         TypeOK, LockInv, Life, TxInv, NoBackupMode
  <2> QED
    BY <1>31, <2>1, RecordStep DEF RecordOwn, entryVars, dirVars, pastVars
<1>32. CASE \E f \in Files : DeleteLive(f)
  <2> PICK f \in Files : DeleteLive(f)
    BY <1>32
  <2>1. Promise!UserDelete(f)
    BY DEF DeleteLive, Promise!UserDelete, StatusOf, Status, Committed,
         entryVars, dirVars, pastVars
  <2> QED
    BY <2>1 DEF Promise!Next
<1> QED
  BY <1>1, <1>2, <1>3, <1>4, <1>5, <1>6, <1>7, <1>8, <1>9, <1>10, <1>11,
       <1>12, <1>13, <1>14, <1>15, <1>16, <1>17, <1>18, <1>19, <1>20, <1>21,
       <1>22, <1>23, <1>24, <1>25, <1>26, <1>27, <1>28, <1>29, <1>30, <1>31,
       <1>32
     DEF Next, Commit, AfterCommit, Scan

\* What is settled stays settled.
LEMMA SettledStays ==
  ASSUME PInv, [Next]_vars, NEW t \in Txs, Status(t) = "settled"
  PROVE  Status(t)' = "settled"
<1>1. StatusOf[t] = "settled"
  BY DEF StatusOf
<1>2. StatusOf' = [u \in Txs |-> Status(u)']
  BY DEF StatusOf
<1>3. CASE Promise!Next
  <2>1. ASSUME NEW s \in Txs, Promise!Open(s) PROVE StatusOf'[t] = "settled"
    BY <1>1, <2>1 DEF Promise!Open, StatusOf
  <2>2. ASSUME NEW s \in Txs, Promise!Abandon(s) \/ Promise!Log(s) \/
          Promise!Settle(s) \/ Promise!GiveUp(s)
        PROVE  StatusOf'[t] = "settled"
    BY <1>1, <2>2 DEF Promise!Abandon, Promise!Log, Promise!Settle,
         Promise!GiveUp, Promise!Move, StatusOf
  <2>3. CASE StatusOf' = StatusOf
    BY <1>1, <1>2, <2>3
  <2> QED
    BY <1>2, <1>3, <2>1, <2>2, <2>3 DEF Promise!Next, Promise!Land,
         Promise!Record, Promise!UserDelete
<1>4. CASE UNCHANGED Promise!vars
  BY <1>1, <1>2, <1>4 DEF Promise!vars
<1> QED
  BY <1>3, <1>4, Simulation

\* Staged files and applied files stay apart.
LEMMA StagedStep ==
  ASSUME PInv, [Next]_vars
  PROVE  StagedOnce'
<1> USE DEF StagedOnce, PInv, IInv, TypeOK
<1>1. CASE \E f \in Files : AddBytes(f)
  BY <1>1 DEF AddBytes, LockInv, pastVars
<1>2. ASSUME NEW t \in Txs, RemoveDir(t) \/ RemovePart(t), UNCHANGED applied
      PROVE  StagedOnce'
  BY <1>2 DEF RemoveDir, RemovePart
<1>3. ASSUME NEW t \in Txs, NEW f \in Files, Reach(t, f) PROVE StagedOnce'
  BY <1>3 DEF Reach
<1>4. CASE UNCHANGED <<staged, applied>>
  BY <1>4
<1>5. cur \in Txs \/ cur = None
  OBVIOUS
<1>6. CASE \E f \in Files : RestoreFile(f)
  BY <1>6 DEF RestoreFile, RollingInv, NoBackupMode, LockInv
<1>7. CASE \E f \in Files : Apply(f)
  BY <1>3, <1>7 DEF Apply
<1>8. CASE \E f \in Files : Replay(f)
  BY <1>3, <1>4, <1>8 DEF Replay
<1>9. CASE \E f \in Files : ReplayFails(f)
  BY <1>3, <1>4, <1>9 DEF ReplayFails
<1>10. CASE CommitEmpty \/ CommitCleanup \/ Close \/ DropHandle
  BY <1>2, <1>4, <1>10 DEF CommitEmpty, CommitCleanup, Close, DropHandle,
       dirVars, pastVars
<1>11. CASE \E t \in Txs : Discard(t)
  BY <1>2, <1>11 DEF Discard
<1>12. CASE DropReplayed
  BY <1>2, <1>12 DEF DropReplayed, ReplayDone
<1> QED
  BY <1>1, <1>4, <1>6, <1>7, <1>8, <1>9, <1>10, <1>11, <1>12 DEF Next, vars,
       dirVars, pastVars, Commit, AfterCommit,
     Scan, BackUp, PersistProofRecovery, WritePrepared, SetPhase,
     MarkFilesCommitted, Finish, RecordOwn, Rollback, MarkRolledBack,
     Keep, StartReplay, PromoteReplayed, RetainReplayed, RecordReported,
     EndScan, Recover, CommitFails, RollbackFails, Crash, Begin, DeleteLive

\* The owner's transaction is settled from the end of commit on.
LEMMA OwnerStep ==
  ASSUME PInv, [Next]_vars
  PROVE  OwnerSettled'
<1> SUFFICES ASSUME pc' \in {"committed", "closing"} PROVE Status(cur)' =
        "settled"
  BY DEF OwnerSettled
<1>1. CASE MarkFilesCommitted
  BY <1>1 DEF MarkFilesCommitted, SetPhase, Status, Committed, PInv, IInv,
       TypeOK
<1>2. CASE CommitCleanup
  BY <1>2 DEF CommitCleanup, RemoveDir, RemovePart, Status, Committed, PInv,
       IInv, TypeOK, LockInv
<1>3. CASE pc \in {"committed", "closing"} /\ cur' = cur
  <2>1. PICK t \in Txs : t = cur
    BY <1>3 DEF PInv, IInv, TypeOK
  <2>2. Status(t)' = "settled"
    BY <1>3, <2>1, SettledStays DEF PInv, OwnerSettled
  <2> QED
    BY <1>3, <2>1, <2>2 DEF Status, Committed
<1>4. CASE UNCHANGED <<pc, cur>>
  BY <1>3, <1>4
<1>5. pc # "rolling"
  BY DEF PInv, IInv, TypeOK, LockInv, NoBackupMode
<1> QED
  BY <1>1, <1>2, <1>3, <1>4, <1>5 DEF Next, vars, Commit, AfterCommit, Scan,
     Begin, AddBytes, BackUp, Apply, CommitEmpty, PersistProofRecovery,
     WritePrepared, Finish, Close, DropHandle, RecordOwn, Rollback,
     MarkRolledBack, RestoreFile, Discard, Keep, StartReplay, Replay,
     ReplayFails, DropReplayed, PromoteReplayed, RetainReplayed, ReplayDone,
     RecordReported, EndScan, Recover, CommitFails, RollbackFails, Crash,
     DeleteLive, Release, StartScan, Visit

\* A scan reports only settled transactions.
LEMMA KnownStep ==
  ASSUME PInv, [Next]_vars
  PROVE  KnownSettled'
<1> SUFFICES ASSUME NEW t \in known', pass' = "recover" PROVE Status(t)' =
        "settled"
  BY DEF KnownSettled
<1>1. t \in Txs
  BY TypeStep DEF PInv, IInv, TypeOK, TypeInv
<1>2. CASE t \in known /\ pass = "recover"
  BY <1>1, <1>2, SettledStays DEF PInv, KnownSettled
<1>3. CASE \E u \in Txs : Keep(u)
  <2> PICK u \in Txs : Keep(u)
    BY <1>3
  <2>1. CASE t \in known
    BY <1>2, <2>1 DEF Keep, Visit
  <2>2. CASE t \notin known
    <3>1. t = u /\ Committed(t)
      BY <2>2 DEF Keep, Report
    <3> QED
      BY <3>1 DEF Keep, Status, Committed, dirVars, pastVars
  <2> QED
    BY <2>1, <2>2
<1>4. CASE PromoteReplayed
  <2>1. CASE t \in known
    BY <1>2, <1>4, <2>1 DEF PromoteReplayed, ReplayDone
  <2>2. CASE t \notin known
    <3>1. t = cur /\ phase'[t] = "FilesCommitted"
      BY <1>1, <1>4, <2>2 DEF PromoteReplayed, Report, SetPhase, PInv, IInv,
           TypeOK
    <3> QED
      BY <3>1 DEF Status, Committed
  <2> QED
    BY <2>1, <2>2
<1>5. CASE known' = {} \/ pass' = "purge" \/ UNCHANGED <<known, pass>>
  BY <1>2, <1>5
<1> QED
  BY <1>3, <1>4, <1>5 DEF Next, vars, scanVars, Commit, AfterCommit, Scan,
     Begin, AddBytes, BackUp, Apply, CommitEmpty, PersistProofRecovery,
     WritePrepared, MarkFilesCommitted, CommitCleanup, Finish, Close,
     DropHandle, RecordOwn, Rollback, MarkRolledBack, RestoreFile, Discard,
     StartReplay, Replay, ReplayFails, DropReplayed, ReplayDone,
     RetainReplayed, RecordReported, EndScan, Recover, CommitFails,
     RollbackFails, Crash, DeleteLive, StartScan, ForgetScan

\* Every step keeps the invariant.
LEMMA PStep ==
  ASSUME Modes = {FALSE}, PInv, [Next]_vars
  PROVE  PInv'
<1>1. IInv' /\ RollingInv'
  BY IInvStep, TypeStep DEF PInv, IInv, TypeInv
<1>2. NoBackupMode'
  BY ModeStep DEF PInv, IInv
<1> QED
  BY <1>1, <1>2, StagedStep, OwnerStep, KnownStep DEF PInv

\* Initial states of the transactions are initial states of AtomicSave.
LEMMA InitMaps == Init => Promise!Init
BY DEF Init, Promise!Init, StatusOf, Status

\* In production every behaviour of the transactions, with its crashes,
\* failures and scans, is one of AtomicSave.
THEOREM KeepsPromiseHolds ==
  ASSUME Modes = {FALSE}
  PROVE  Spec => KeepsPromise
<1>1. PInv /\ [Next]_vars => PInv'
  BY PStep
<1>2. PInv /\ [Next]_vars => [Promise!Next]_(Promise!vars)
  BY Simulation
<1> QED
  BY PInit, InitMaps, <1>1, <1>2, PTL DEF Spec, KeepsPromise, Promise!Spec

=============================================================================
