------------------------- MODULE ContributionProofs -------------------------
(***************************************************************************)
(* TLAPS proofs about Contribution, for any processes, threads, objects,   *)
(* transactions and faults: type correctness, that one thread at a time is *)
(* inside the lock, that no event is on record for a change that can still *)
(* be rolled back, and that whoever has come through acquire finds the     *)
(* objects and the events as the applied operations left them.             *)
(***************************************************************************)
EXTENDS Contribution, TLAPS

-----------------------------------------------------------------------------
(* The invariants.                                                         *)

\* The lock on the file is what makes a thread an insider.
LockInv == \A t \in Threads : Inside(t) <=> flock = t

\* All the backups of the roots R are there, but for those in G.
Complete(x, R, G) == \A o \in R \ G : dir[x].copy[o] # None
Phase(x) == dir[x].phase

\* The thread's copy of its transaction is the one on the disk.
SameOnDisk(t) == roots[t] = dir[cur[t]].roots /\ gone[t] = dir[cur[t]].gone

\* What a thread that runs or rolls back a transaction knows about it.
JobInv(t) ==
  /\ pc[t] \in {"backing", "open", "applied", "recorded", "committed"} \/ Restoring(t)
       => cur[t] \in Txns
  /\ At(t, "backing") => Phase(cur[t]) = "backingUp" /\ SameOnDisk(t)
  /\ At(t, "open") => Phase(cur[t]) = "prepared" /\ SameOnDisk(t)
                      /\ Complete(cur[t], roots[t], gone[t])
  /\ pc[t] \in {"applied", "recorded"} => Phase(cur[t]) = "applied"
  /\ At(t, "recorded") => cur[t] \in store
  /\ At(t, "committed") => Phase(cur[t]) = "committed"
  /\ Restoring(t) => /\ Phase(cur[t]) \in {"backingUp", "prepared"}
                     /\ todo[t] \subseteq roots[t]
                     /\ Complete(cur[t], roots[t], gone[t])
  /\ hole[t] # None => Restoring(t) /\ hole[t] \in todo[t] \ gone[t]

\* The phase of a directory against the operations that were applied and the
\* events on record.
EventInv ==
  /\ store \subseteq done
  /\ \A x \in Txns :
       /\ Phase(x) \in {"applied", "committed"} => x \in done
       /\ Phase(x) = "committed" => x \in store
       /\ x \in done => Phase(x) \notin {"backingUp", "prepared"}
       /\ Phase(x) # "removed" \/ x \in done => x \in used

IInv == TypeOK /\ LockInv /\ EventInv /\ \A t \in Threads : JobInv(t)

\* A prepared directory can bring the objects back to the truth.
Whole(x) ==
  Phase(x) = "prepared" =>
    /\ dir[x].gone \subseteq dir[x].roots
    /\ \A o \in Objects :
         /\ o \notin dir[x].roots => live[o] = truth[o]
         /\ o \in dir[x].gone => truth[o] = Absent
         /\ o \in dir[x].roots \ dir[x].gone => dir[x].copy[o] = truth[o]

DiskInv ==
  /\ \A x \in Txns : Whole(x)
  /\ \A x, y \in Txns : Phase(x) = "prepared" /\ Phase(y) = "prepared" => x = y
  /\ (\A x \in Txns : Phase(x) # "prepared") => live = truth
  /\ \A x \in done \ store : Phase(x) = "applied"

\* A directory that a recovery has nothing left to do for.
Clean(x) == Phase(x) # "prepared" /\ (Phase(x) = "applied" => x \in store)

\* What a thread in the lock knows about all directories.
KnowsInv(t) ==
  /\ pc[t] \in {"in", "backing", "recorded", "committed"} => \A x \in Txns : Clean(x)
  /\ pc[t] \in {"open", "applied"} => \A x \in Txns \ {cur[t]} : Clean(x)
  /\ At(t, "backing") =>
       /\ gone[t] \subseteq roots[t]
       /\ \A o \in roots[t] : IF o \in gone[t] THEN live[o] = Absent
                              ELSE dir[cur[t]].copy[o] \in {None, live[o]}
  /\ At(t, "recovering") => \A x \in seen[t] : Clean(x)
  /\ At(t, "restoring") => \A x \in seen[t] \ {cur[t]} : Clean(x)
  /\ Restoring(t) => /\ Phase(cur[t]) = "prepared" /\ SameOnDisk(t)
                     /\ \A o \in roots[t] \ todo[t] : live[o] = truth[o]

TruthInv == DiskInv /\ \A t \in Threads : KnowsInv(t)

-----------------------------------------------------------------------------
(* Directories.                                                            *)

\* A directory is its fields.
LEMMA DirFields ==
  ASSUME NEW d \in Dirs
  PROVE  /\ d = [phase |-> d.phase, roots |-> d.roots, gone |-> d.gone,
                 copy |-> d.copy]
         /\ d.phase \in Phases \union {"removed"}
         /\ d.roots \subseteq Objects /\ d.gone \subseteq Objects
         /\ d.copy \in [Objects -> Values \union {None}]
         /\ \A o \in Objects : d.copy[o] \in Values \union {None}
BY DEF Dirs

\* A directory that is gone, and one without a manifest.
LEMMA EmptyDirs ==
  /\ Removed \in Dirs /\ Bare \in Dirs
  /\ Removed.phase = "removed" /\ Bare.phase = "bare"
BY DEF Removed, Bare, Dirs, Phases

\* What one directory becomes.
LEMMA DirUpdate ==
  ASSUME TypeOK, NEW x \in Txns, NEW d \in Dirs, dir' = [dir EXCEPT ![x] = d]
  PROVE  /\ dir' \in [Txns -> Dirs] /\ dir'[x] = d
         /\ \A y \in Txns : y # x => dir'[y] = dir[y]
BY DEF TypeOK

\* What a deletion that may fail makes of a directory.
LEMMA DeleteDir ==
  ASSUME TypeOK, NEW x \in Txns, Delete(x)
  PROVE  /\ dir' \in [Txns -> Dirs]
         /\ \A y \in Txns : y # x => dir'[y] = dir[y]
         /\ dir'[x].phase \in {"removed", "bare", dir[x].phase}
         /\ Breaks = {} => dir'[x].phase # "prepared"
         /\ faults' \in 0..MaxFaults /\ crashes' = crashes
<1>1. faults' \in 0..MaxFaults /\ crashes' = crashes
  BY ContributionAssumption DEF Delete, NoFault, Fault, TypeOK
<1>2. dir[x] \in Dirs
  BY DEF TypeOK
<1>3. ASSUME NEW d \in Dirs, dir' = [dir EXCEPT ![x] = d],
             d.phase \in {"removed", "bare", dir[x].phase},
             Breaks = {} => d.phase # "prepared"
      PROVE  /\ dir' \in [Txns -> Dirs]
             /\ \A y \in Txns : y # x => dir'[y] = dir[y]
             /\ dir'[x].phase \in {"removed", "bare", dir[x].phase}
             /\ Breaks = {} => dir'[x].phase # "prepared"
  BY <1>3, DirUpdate
<1>4. CASE dir' = [dir EXCEPT ![x] = Removed]
  BY <1>1, <1>4, EmptyDirs, DirUpdate
<1>5. ASSUME NEW after \in Remnants(dir[x]), dir' = [dir EXCEPT ![x] = after]
      PROVE  /\ dir' \in [Txns -> Dirs]
             /\ \A y \in Txns : y # x => dir'[y] = dir[y]
             /\ dir'[x].phase \in {"removed", "bare", dir[x].phase}
             /\ Breaks = {} => dir'[x].phase # "prepared"
  <2>1. CASE after = Bare
    BY <1>3, <1>5, <2>1, EmptyDirs
  <2>2. CASE after = dir[x] /\ (dir[x].phase # "prepared" \/ "kept" \in Breaks)
    BY <1>2, <1>3, <1>5, <2>2
  <2>3. CASE \E o \in dir[x].roots \ dir[x].gone, v \in {Torn, None} :
               "tear" \in Breaks /\ after = [dir[x] EXCEPT !.copy[o] = v]
    <3>1. PICK o \in dir[x].roots, v \in {Torn, None} :
            "tear" \in Breaks /\ after = [dir[x] EXCEPT !.copy[o] = v]
      BY <2>3
    <3>2. v \in Values \union {None}
      BY DEF Values
    <3>3. after \in Dirs /\ after.phase = dir[x].phase
      BY <1>2, <3>1, <3>2 DEF Dirs
    <3> QED BY <1>3, <1>5, <3>1, <3>3
  <2> QED BY <1>5, <2>1, <2>2, <2>3 DEF Remnants
<1> QED BY <1>1, <1>4, <1>5 DEF Delete

\* The manifest of a directory gets another phase.
LEMMA PhaseUpdate ==
  ASSUME TypeOK, NEW x \in Txns, NEW p \in Phases, dir' = [dir EXCEPT ![x].phase = p]
  PROVE  /\ dir' \in [Txns -> Dirs]
         /\ \A y \in Txns : y # x => dir'[y] = dir[y]
         /\ dir'[x].phase = p /\ dir'[x].roots = dir[x].roots
         /\ dir'[x].gone = dir[x].gone /\ dir'[x].copy = dir[x].copy
<1> DEFINE d == [phase |-> p, roots |-> dir[x].roots, gone |-> dir[x].gone,
                 copy |-> dir[x].copy]
<1>1. dir[x] \in Dirs
  BY DEF TypeOK
<1>2. d \in Dirs
  BY <1>1, DirFields DEF Dirs
<1>3. [dir[x] EXCEPT !.phase = p] = d
  BY <1>1 DEF Dirs
<1>4. dir' = [dir EXCEPT ![x] = d]
  BY <1>3
<1>5. d.phase = p /\ d.roots = dir[x].roots /\ d.gone = dir[x].gone /\ d.copy = dir[x].copy
  OBVIOUS
<1> HIDE DEF d
<1> QED BY <1>2, <1>4, <1>5, DirUpdate

\* A directory gets other backups.
LEMMA CopyUpdate ==
  ASSUME TypeOK, NEW x \in Txns, NEW c \in [Objects -> Values \union {None}],
         dir' = [dir EXCEPT ![x].copy = c]
  PROVE  /\ dir' \in [Txns -> Dirs]
         /\ \A y \in Txns : y # x => dir'[y] = dir[y]
         /\ dir'[x].phase = dir[x].phase /\ dir'[x].roots = dir[x].roots
         /\ dir'[x].gone = dir[x].gone /\ dir'[x].copy = c
<1> DEFINE d == [phase |-> dir[x].phase, roots |-> dir[x].roots, gone |-> dir[x].gone,
                 copy |-> c]
<1>1. dir[x] \in Dirs
  BY DEF TypeOK
<1>2. d \in Dirs
  BY <1>1, DirFields DEF Dirs
<1>3. [dir[x] EXCEPT !.copy = c] = d
  BY <1>1 DEF Dirs
<1>4. dir' = [dir EXCEPT ![x] = d]
  BY <1>3
<1>5. d.phase = dir[x].phase /\ d.roots = dir[x].roots /\ d.gone = dir[x].gone /\ d.copy = c
  OBVIOUS
<1> HIDE DEF d
<1> QED BY <1>2, <1>4, <1>5, DirUpdate

\* A backup is added.
LEMMA BackupUpdate ==
  ASSUME TypeOK, NEW x \in Txns, NEW o \in Objects,
         dir' = [dir EXCEPT ![x].copy[o] = live[o]]
  PROVE  /\ dir' \in [Txns -> Dirs]
         /\ \A y \in Txns : y # x => dir'[y] = dir[y]
         /\ dir'[x].phase = dir[x].phase /\ dir'[x].roots = dir[x].roots
         /\ dir'[x].gone = dir[x].gone
         /\ dir'[x].copy = [dir[x].copy EXCEPT ![o] = live[o]]
<1> DEFINE c == [dir[x].copy EXCEPT ![o] = live[o]]
<1>1. dir[x] \in Dirs /\ live[o] \in Values
  BY DEF TypeOK
<1>2. c \in [Objects -> Values \union {None}]
  BY <1>1, DirFields
<1>3. dir' = [dir EXCEPT ![x].copy = c]
  BY <1>1 DEF TypeOK, Dirs
<1> HIDE DEF c
<1>4. /\ dir' \in [Txns -> Dirs]
      /\ \A y \in Txns : y # x => dir'[y] = dir[y]
      /\ dir'[x].phase = dir[x].phase /\ dir'[x].roots = dir[x].roots
      /\ dir'[x].gone = dir[x].gone /\ dir'[x].copy = c
  BY <1>2, <1>3, CopyUpdate
<1> QED BY <1>4 DEF c

\* A root is registered.
LEMMA RootsUpdate ==
  ASSUME TypeOK, NEW x \in Txns, NEW c \in [Objects -> Values \union {None}],
         NEW R \in SUBSET Objects, NEW G \in SUBSET Objects,
         dir' = [dir EXCEPT ![x].copy = c, ![x].roots = R, ![x].gone = G]
  PROVE  /\ dir' \in [Txns -> Dirs]
         /\ \A y \in Txns : y # x => dir'[y] = dir[y]
         /\ dir'[x].phase = dir[x].phase /\ dir'[x].roots = R
         /\ dir'[x].gone = G /\ dir'[x].copy = c
<1> DEFINE d == [phase |-> dir[x].phase, roots |-> R, gone |-> G, copy |-> c]
<1>1. dir[x] \in Dirs
  BY DEF TypeOK
<1>2. d \in Dirs
  BY <1>1, DirFields DEF Dirs
<1>3. [dir[x] EXCEPT !.copy = c, !.roots = R, !.gone = G] = d
  <2> DEFINE e == dir[x]
             e1 == [phase |-> e.phase, roots |-> e.roots, gone |-> e.gone, copy |-> c]
             e2 == [phase |-> e.phase, roots |-> R, gone |-> e.gone, copy |-> c]
  <2>1. [e EXCEPT !.copy = c] = e1
    BY <1>1 DEF Dirs
  <2>2. [e1 EXCEPT !.roots = R] = e2
    OBVIOUS
  <2>3. [e2 EXCEPT !.gone = G] = d
    OBVIOUS
  <2>4. [e EXCEPT !.copy = c, !.roots = R, !.gone = G]
          = [[[e EXCEPT !.copy = c] EXCEPT !.roots = R] EXCEPT !.gone = G]
    OBVIOUS
  <2> QED BY ONLY <2>1, <2>2, <2>3, <2>4, Zenon
<1>4. dir' = [dir EXCEPT ![x] = d]
  BY <1>3 DEF TypeOK
<1>5. d.phase = dir[x].phase /\ d.roots = R /\ d.gone = G /\ d.copy = c
  OBVIOUS
<1> HIDE DEF d
<1> QED BY <1>2, <1>4, <1>5, DirUpdate

\* A fault that is counted, or none.
LEMMA FaultTypes ==
  ASSUME TypeOK, Fault \/ NoFault
  PROVE  faults' \in 0..MaxFaults /\ crashes' = crashes
BY ContributionAssumption DEF TypeOK, Fault, NoFault

-----------------------------------------------------------------------------
(* Type correctness.                                                       *)

\* Forgetting a transaction, and the lock.
LEMMA DropTypes ==
  ASSUME TypeOK, NEW t \in Threads, Drop(t)
  PROVE  /\ cur' \in [Threads -> Txns \cup {None}]
         /\ roots' \in [Threads -> SUBSET Objects]
         /\ gone' \in [Threads -> SUBSET Objects]
         /\ todo' \in [Threads -> SUBSET Objects]
         /\ hole' \in [Threads -> Objects \cup {None}]
BY DEF TypeOK, Drop

\* A release.
LEMMA UnlockTypes ==
  ASSUME TypeOK, NEW t \in Threads, Unlock(t), UNCHANGED dataVars,
         faults' \in 0..MaxFaults, crashes' = crashes
  PROVE  TypeOK'
<1>1. /\ cur' \in [Threads -> Txns \cup {None}]
      /\ roots' \in [Threads -> SUBSET Objects] /\ gone' \in [Threads -> SUBSET Objects]
      /\ todo' \in [Threads -> SUBSET Objects]
      /\ hole' \in [Threads -> Objects \cup {None}]
  BY DropTypes DEF Unlock
<1>2. /\ mutex' \in [Procs -> Threads \cup {None}] /\ poisoned' \subseteq Procs
      /\ flock' \in Threads \cup {None}
      /\ depth' \in [Threads -> 0..MaxDepth]
      /\ seen' \in [Threads -> SUBSET Txns]
  <2>1. mutex' \in [Procs -> Threads \cup {None}] /\ poisoned' \subseteq Procs
    BY DEF TypeOK, Unlock
  <2>2. flock' \in Threads \cup {None} /\ seen' \in [Threads -> SUBSET Txns]
    BY DEF TypeOK, Unlock
  <2>3. depth' \in [Threads -> 0..MaxDepth]
    BY ContributionAssumption DEF TypeOK, Unlock
  <2> QED BY <2>1, <2>2, <2>3
<1>3. pc' = [pc EXCEPT ![t] = "out"]
  BY DEF Unlock, Goto
<1> QED BY <1>1, <1>2, <1>3 DEF TypeOK, dataVars

\* A failing operation, and the rollback of its transaction.
LEMMA UndoTypes ==
  ASSUME TypeOK, NEW t \in Threads, NEW R \in SUBSET Objects, NEW G \in SUBSET Objects,
         Undo(t, R, G) \/ Fail(t),
         UNCHANGED <<mutex, flock, depth, live, store, used, truth, done>>,
         poisoned' \subseteq Procs, dir' \in [Txns -> Dirs],
         faults' \in 0..MaxFaults, crashes' = crashes
  PROVE  TypeOK'
<1>1. CASE Fail(t)
  <2>1. /\ cur' \in [Threads -> Txns \cup {None}]
        /\ roots' \in [Threads -> SUBSET Objects]
        /\ gone' \in [Threads -> SUBSET Objects]
        /\ todo' \in [Threads -> SUBSET Objects]
        /\ hole' \in [Threads -> Objects \cup {None}]
    BY <1>1, DropTypes DEF Fail
  <2>2. pc' = [pc EXCEPT ![t] = "leaving"] /\ seen' = seen
    BY <1>1 DEF Fail, Goto
  <2> QED BY <2>1, <2>2 DEF TypeOK
<1>2. CASE ~Fail(t)
  <2>1. /\ pc' = [pc EXCEPT ![t] = "undoing"]
        /\ todo' = [todo EXCEPT ![t] = R]
        /\ roots' = [roots EXCEPT ![t] = R] /\ gone' = [gone EXCEPT ![t] = G]
        /\ UNCHANGED <<cur, hole, seen>>
    BY <1>2 DEF Undo, Goto
  <2> QED BY <2>1 DEF TypeOK
<1> QED BY <1>1, <1>2

\* The steps of a thread keep the types.
LEMMA ThreadTypes ==
  ASSUME IInv, NEW t \in Threads, ThreadStep(t)
  PROVE  TypeOK'
<1> USE DEF lockVars, jobVars, dataVars, At, Restoring
<1>0. TypeOK /\ JobInv(t)
  BY DEF IInv
<1>f. Fault \/ NoFault => faults' \in 0..MaxFaults /\ crashes' = crashes
  BY <1>0, FaultTypes
<1>1. CASE Lock(t)
  <2>1. ProcOf[t] \in Procs /\ 1 \in 0..MaxDepth
    BY ContributionAssumption
  <2> QED BY <1>0, <1>1, <2>1 DEF TypeOK, Lock, Goto
<1>2. CASE LockFile(t)
  BY <1>0, <1>2 DEF TypeOK, LockFile, Goto
<1>3. CASE RecoverDone(t)
  BY <1>0, <1>3 DEF TypeOK, RecoverDone, Goto
<1>4. ASSUME NEW x \in Txns, RecoverDiscard(t, x) PROVE TypeOK'
  <2>1. dir' \in [Txns -> Dirs] /\ faults' \in 0..MaxFaults /\ crashes' = crashes
    BY <1>0, <1>4, DeleteDir DEF RecoverDiscard
  <2>2. /\ seen' = [seen EXCEPT ![t] = @ \cup {x}]
        /\ UNCHANGED <<mutex, poisoned, flock, depth, pc, cur, roots, gone, todo,
                       hole, live, store, used, truth, done>>
    BY <1>4 DEF RecoverDiscard, See
  <2> QED BY <1>0, <2>1, <2>2 DEF TypeOK
<1>5. ASSUME NEW x \in Txns, RecoverPrepared(t, x) PROVE TypeOK'
  <2>1. CASE Unlock(t)
    BY <1>0, <1>5, <2>1, UnlockTypes DEF RecoverPrepared, TypeOK
  <2>2. CASE ~Unlock(t)
    <3>1. /\ pc' = [pc EXCEPT ![t] = "restoring"]
          /\ seen' = [seen EXCEPT ![t] = @ \cup {x}]
          /\ cur' = [cur EXCEPT ![t] = x]
          /\ roots' = [roots EXCEPT ![t] = dir[x].roots]
          /\ gone' = [gone EXCEPT ![t] = dir[x].gone]
          /\ todo' = [todo EXCEPT ![t] = dir[x].roots]
          /\ UNCHANGED <<hole, lockVars, dataVars, faults, crashes>>
      BY <1>5, <2>2 DEF RecoverPrepared, Goto, See
    <3>2. dir[x].roots \subseteq Objects /\ dir[x].gone \subseteq Objects
      BY <1>0, DirFields DEF TypeOK
    <3> QED BY <1>0, <3>1, <3>2 DEF TypeOK
  <2> QED BY <2>1, <2>2
<1>6. ASSUME NEW x \in Txns, RecoverApplied(t, x) PROVE TypeOK'
  <2>1. dir' \in [Txns -> Dirs] /\ faults' \in 0..MaxFaults /\ crashes' = crashes
    BY <1>0, <1>6, DeleteDir DEF RecoverApplied
  <2>2. /\ seen' = [seen EXCEPT ![t] = @ \cup {x}] /\ store' = store \cup {x}
        /\ UNCHANGED <<mutex, poisoned, flock, depth, pc, cur, roots, gone, todo,
                       hole, live, used, truth, done>>
    BY <1>6 DEF RecoverApplied, See
  <2> QED BY <1>0, <2>1, <2>2 DEF TypeOK
<1>7. CASE RestoreCopy(t)
  <2>1. /\ hole[t] \in Objects /\ cur[t] \in Txns
        /\ dir[cur[t]].copy[hole[t]] # None
    BY <1>0, <1>7 DEF RestoreCopy, TypeOK, JobInv, Complete
  <2>2. dir[cur[t]].copy[hole[t]] \in Values
    BY <1>0, <2>1, DirFields DEF TypeOK
  <2> QED BY <1>0, <1>7, <2>2 DEF RestoreCopy, TypeOK
<1>8. CASE RestoreDone(t)
  <2>1. cur[t] \in Txns
    BY <1>0, <1>8 DEF RestoreDone, JobInv
  <2>2. dir' \in [Txns -> Dirs] /\ faults' \in 0..MaxFaults /\ crashes' = crashes
    BY <1>0, <1>8, <2>1, DeleteDir DEF RestoreDone
  <2>3. /\ cur' \in [Threads -> Txns \cup {None}]
        /\ roots' \in [Threads -> SUBSET Objects]
        /\ gone' \in [Threads -> SUBSET Objects]
        /\ todo' \in [Threads -> SUBSET Objects]
        /\ hole' \in [Threads -> Objects \cup {None}]
    BY <1>0, <1>8, DropTypes DEF RestoreDone
  <2> QED BY <1>0, <1>8, <2>2, <2>3 DEF RestoreDone, TypeOK, Goto
<1>9. ASSUME NEW o \in Objects, RestoreRemove(t, o) PROVE TypeOK'
  BY <1>0, <1>9 DEF RestoreRemove, TypeOK, Values
<1>10. CASE WriteApplied(t)
  <2>1. CASE Fault /\ UNCHANGED <<dir, truth, done>> /\ Undo(t, roots[t], gone[t])
    <3>1. roots[t] \in SUBSET Objects /\ gone[t] \in SUBSET Objects
      BY <1>0 DEF TypeOK
    <3>2. dir' \in [Txns -> Dirs] /\ poisoned' \subseteq Procs
      BY <1>0, <1>10, <2>1 DEF WriteApplied, TypeOK
    <3>3. UNCHANGED <<mutex, flock, depth, live, store, used, truth, done>>
      BY <1>10, <2>1 DEF WriteApplied
    <3> QED BY <1>0, <1>f, <2>1, <3>1, <3>2, <3>3, UndoTypes
  <2>2. CASE ~(Fault /\ UNCHANGED <<dir, truth, done>> /\ Undo(t, roots[t], gone[t]))
    <3>1. /\ dir' = [dir EXCEPT ![cur[t]].phase = "applied"]
          /\ truth' = live /\ done' = done \cup {cur[t]} /\ cur[t] \in Txns
          /\ pc' = [pc EXCEPT ![t] = "applied"]
          /\ UNCHANGED <<jobVars, lockVars, live, store, used, faults, crashes>>
      BY <1>0, <1>10, <2>2 DEF WriteApplied, Goto, JobInv, NoFault
    <3>2. dir' \in [Txns -> Dirs]
      BY <1>0, <3>1, PhaseUpdate DEF Phases
    <3> QED BY <1>0, <3>1, <3>2 DEF TypeOK
  <2> QED BY <2>1, <2>2
<1>11. CASE Record(t)
  <2>1. CASE Fault /\ Fail(t) /\ UNCHANGED store
    <3>1. dir' \in [Txns -> Dirs] /\ poisoned' \subseteq Procs
      BY <1>0, <1>11, <2>1 DEF Record, TypeOK
    <3>2. UNCHANGED <<mutex, flock, depth, live, store, used, truth, done>>
      BY <1>11, <2>1 DEF Record
    <3>3. roots[t] \in SUBSET Objects /\ gone[t] \in SUBSET Objects
      BY <1>0 DEF TypeOK
    <3> QED BY <1>0, <1>f, <2>1, <3>1, <3>2, <3>3, UndoTypes
  <2>2. CASE ~(Fault /\ Fail(t) /\ UNCHANGED store)
    BY <1>0, <1>f, <1>11, <2>2 DEF Record, Goto, TypeOK, JobInv
  <2> QED BY <2>1, <2>2
<1>12. CASE MarkCommitted(t)
  <2>1. CASE Fault /\ Fail(t) /\ UNCHANGED dir
    <3>1. dir' \in [Txns -> Dirs] /\ poisoned' \subseteq Procs
      BY <1>0, <1>12, <2>1 DEF MarkCommitted, TypeOK
    <3>2. UNCHANGED <<mutex, flock, depth, live, store, used, truth, done>>
      BY <1>12, <2>1 DEF MarkCommitted
    <3>3. roots[t] \in SUBSET Objects /\ gone[t] \in SUBSET Objects
      BY <1>0 DEF TypeOK
    <3> QED BY <1>0, <1>f, <2>1, <3>1, <3>2, <3>3, UndoTypes
  <2>2. CASE ~(Fault /\ Fail(t) /\ UNCHANGED dir)
    <3>1. /\ dir' = [dir EXCEPT ![cur[t]].phase = "committed"]
          /\ pc' = [pc EXCEPT ![t] = "committed"]
          /\ UNCHANGED <<jobVars, lockVars, live, store, used, truth, done, faults,
                         crashes>>
      BY <1>12, <2>2 DEF MarkCommitted, Goto, NoFault
    <3>2. dir' \in [Txns -> Dirs]
      <4>1. cur[t] \in Txns /\ "committed" \in Phases
        BY <1>0, <1>12 DEF JobInv, MarkCommitted, Phases
      <4> QED BY <1>0, <3>1, <4>1, PhaseUpdate
    <3> QED BY <1>0, <3>1, <3>2 DEF TypeOK
  <2> QED BY <2>1, <2>2
<1>13. CASE RemoveDir(t)
  <2>1. cur[t] \in Txns
    BY <1>0, <1>13 DEF RemoveDir, JobInv
  <2>2. dir' \in [Txns -> Dirs] /\ faults' \in 0..MaxFaults /\ crashes' = crashes
    BY <1>0, <1>13, <2>1, DeleteDir DEF RemoveDir
  <2>3. /\ cur' \in [Threads -> Txns \cup {None}]
        /\ roots' \in [Threads -> SUBSET Objects]
        /\ gone' \in [Threads -> SUBSET Objects]
        /\ todo' \in [Threads -> SUBSET Objects]
        /\ hole' \in [Threads -> Objects \cup {None}]
    BY <1>0, <1>13, DropTypes DEF RemoveDir
  <2> QED BY <1>0, <1>13, <2>2, <2>3 DEF RemoveDir, TypeOK, Goto
<1>14. CASE MarkPrepared(t)
  <2>1. CASE dir' = dir
    <3>1. CASE Undo(t, roots[t], gone[t])
      BY <1>0, <1>f, <1>14, <2>1, <3>1, UndoTypes DEF MarkPrepared, TypeOK
    <3>2. CASE ~Undo(t, roots[t], gone[t])
      BY <1>0, <1>f, <1>14, <2>1, <3>2 DEF MarkPrepared, TypeOK, Goto
    <3> QED BY <3>1, <3>2
  <2>2. CASE dir' # dir
    <3>1. /\ dir' = [dir EXCEPT ![cur[t]].phase = "prepared"]
          /\ pc' = [pc EXCEPT ![t] = "open"]
          /\ UNCHANGED <<jobVars, lockVars, live, store, used, truth, done, faults,
                         crashes>>
      BY <1>14, <2>2 DEF MarkPrepared, Goto, NoFault
    <3>2. dir' \in [Txns -> Dirs]
      <4>1. cur[t] \in Txns /\ "prepared" \in Phases
        BY <1>0, <1>14 DEF JobInv, MarkPrepared, Phases
      <4> QED BY <1>0, <3>1, <4>1, PhaseUpdate
    <3> QED BY <1>0, <3>1, <3>2 DEF TypeOK
  <2> QED BY <2>1, <2>2
<1>15. ASSUME NEW o \in Objects, CopyBackup(t, o) PROVE TypeOK'
  <2>1. CASE Fault /\ Fail(t) /\ UNCHANGED dir
    <3>1. dir' \in [Txns -> Dirs] /\ poisoned' \subseteq Procs
      BY <1>0, <1>15, <2>1 DEF CopyBackup, TypeOK
    <3>2. UNCHANGED <<mutex, flock, depth, live, store, used, truth, done>>
      BY <1>15, <2>1 DEF CopyBackup
    <3>3. roots[t] \in SUBSET Objects /\ gone[t] \in SUBSET Objects
      BY <1>0 DEF TypeOK
    <3> QED BY <1>0, <1>f, <2>1, <3>1, <3>2, <3>3, UndoTypes
  <2>2. CASE ~(Fault /\ Fail(t) /\ UNCHANGED dir)
    <3>1. /\ dir' = [dir EXCEPT ![cur[t]].copy[o] = live[o]]
          /\ UNCHANGED <<pc, jobVars, lockVars, live, store, used, truth, done, faults,
                         crashes>>
      BY <1>15, <2>2 DEF CopyBackup, NoFault
    <3>2. dir' \in [Txns -> Dirs]
      <4>1. cur[t] \in Txns
        BY <1>0, <1>15 DEF JobInv, CopyBackup
      <4> QED BY <1>0, <3>1, <4>1, BackupUpdate
    <3> QED BY <1>0, <3>1, <3>2 DEF TypeOK
  <2> QED BY <2>1, <2>2
<1>16. CASE Unnest(t) \/ Nest(t)
  BY <1>0, <1>16, ContributionAssumption DEF TypeOK, Unnest, Nest
<1>17. CASE Release(t)
  BY <1>0, <1>f, <1>17, UnlockTypes DEF Release, TypeOK
<1>18. ASSUME NEW x \in Txns, NEW R \in RootSets, Begin(t, x, R) PROVE TypeOK'
  <2> DEFINE G == {o \in R : live[o] = Absent}
             d == [Removed EXCEPT !.phase = "backingUp", !.roots = R, !.gone = G]
  <2>1. R \subseteq Objects /\ G \subseteq Objects
    BY ContributionAssumption
  <2>2. d \in Dirs
    BY <2>1 DEF Removed, Dirs, Phases
  <2>3. CASE Fail(t)
    <3>1. dir' \in [Txns -> Dirs]
      BY <1>0, <1>18, <2>2, EmptyDirs DEF Begin, TypeOK
    <3>2. cur' \in [Threads -> Txns \cup {None}]
      BY <1>0, <2>3, DropTypes DEF Fail
    <3>3. /\ roots' \in [Threads -> SUBSET Objects]
          /\ gone' \in [Threads -> SUBSET Objects]
          /\ todo' \in [Threads -> SUBSET Objects]
          /\ hole' \in [Threads -> Objects \cup {None}]
      BY <1>0, <2>3, DropTypes DEF Fail
    <3>4. pc' = [pc EXCEPT ![t] = "leaving"] /\ seen' = seen
      BY <2>3 DEF Fail, Goto
    <3>5. /\ used' = used \cup {x} /\ faults' \in 0..MaxFaults /\ crashes' = crashes
          /\ UNCHANGED <<lockVars, live, store, truth, done>>
      BY <1>0, <1>f, <1>18 DEF Begin, TypeOK
    <3> QED BY <1>0, <3>1, <3>2, <3>3, <3>4, <3>5 DEF TypeOK
  <2>4. CASE ~Fail(t)
    <3>1. /\ dir' = [dir EXCEPT ![x] = d] /\ used' = used \cup {x}
          /\ pc' = [pc EXCEPT ![t] = "backing"]
          /\ cur' = [cur EXCEPT ![t] = x]
          /\ roots' = [roots EXCEPT ![t] = R] /\ gone' = [gone EXCEPT ![t] = G]
          /\ UNCHANGED <<todo, hole, seen, lockVars, live, store, truth, done, faults,
                         crashes>>
      BY <1>18, <2>4 DEF Begin, Goto, NoFault
    <3> HIDE DEF d, G
    <3>2. dir' \in [Txns -> Dirs]
      BY <1>0, <2>2, <3>1 DEF TypeOK
    <3> QED BY <1>0, <2>1, <3>1, <3>2 DEF TypeOK
  <2> QED BY <2>3, <2>4
<1>19. ASSUME NEW o \in Objects, Register(t, o) PROVE TypeOK'
  <2> DEFINE x == cur[t]
             R == roots[t] \cup {o}
             G == IF live[o] = Absent THEN gone[t] \cup {o} ELSE gone[t]
             copied == IF live[o] = Absent THEN dir[x].copy
                       ELSE [dir[x].copy EXCEPT ![o] = live[o]]
  <2>1. /\ R \in SUBSET Objects /\ G \in SUBSET Objects
        /\ roots[t] \in SUBSET Objects /\ gone[t] \in SUBSET Objects
        /\ x \in Txns
    BY <1>0, <1>19 DEF TypeOK, Register, JobInv
  <2>2. dir[x] \in Dirs /\ dir[x].copy \in [Objects -> Values \cup {None}]
    BY <1>0, <2>1, DirFields DEF TypeOK
  <2>3. copied \in [Objects -> Values \cup {None}]
    BY <1>0, <2>2 DEF TypeOK
  <2>4. /\ UNCHANGED <<lockVars, live, store, used, truth, done>>
        /\ \/ /\ dir' = [dir EXCEPT ![x].copy = copied, ![x].roots = R, ![x].gone = G]
              /\ roots' = [roots EXCEPT ![t] = R]
              /\ gone' = [gone EXCEPT ![t] = G]
              /\ UNCHANGED <<pc, cur, todo, hole, seen, faults, crashes>>
           \/ Fault /\ dir' = dir /\ Undo(t, roots[t], gone[t])
           \/ Fault /\ dir' = [dir EXCEPT ![x].copy = copied] /\ Undo(t, R, G)
    BY <1>19 DEF Register, NoFault
  <2> HIDE DEF copied, R, G, x
  <2>6. CASE /\ dir' = [dir EXCEPT ![x].copy = copied, ![x].roots = R, ![x].gone = G]
             /\ roots' = [roots EXCEPT ![t] = R]
             /\ gone' = [gone EXCEPT ![t] = G]
             /\ UNCHANGED <<pc, cur, todo, hole, seen, faults, crashes>>
    <3>1. dir' \in [Txns -> Dirs]
      BY <1>0, <2>1, <2>3, <2>6, RootsUpdate
    <3> QED BY <1>0, <2>1, <2>4, <2>6, <3>1 DEF TypeOK
  <2>7. CASE Fault /\ dir' = dir /\ Undo(t, roots[t], gone[t])
    BY <1>0, <2>1, <2>4, <1>f, <2>7, UndoTypes DEF TypeOK
  <2>8. CASE Fault /\ dir' = [dir EXCEPT ![x].copy = copied] /\ Undo(t, R, G)
    <3>1. dir' \in [Txns -> Dirs]
      BY <1>0, <2>1, <2>3, <2>8, CopyUpdate
    <3> QED BY <1>0, <2>1, <2>4, <1>f, <2>8, <3>1, UndoTypes DEF TypeOK
  <2> QED BY <2>4, <2>6, <2>7, <2>8
<1>20. ASSUME NEW o \in Objects, NEW v \in Txns \cup {Absent}, Change(t, o, v)
       PROVE  TypeOK'
  BY <1>0, <1>20 DEF TypeOK, Change, Values
<1>21. CASE AcquireFails(t)
  BY <1>0, <1>f, <1>21, UnlockTypes DEF AcquireFails, TypeOK
<1>22. CASE RestoreFails(t)
  <2>1. CASE At(t, "undoing")
    BY <1>0, <1>f, <1>22, <2>1, UndoTypes DEF RestoreFails, TypeOK
  <2>2. CASE ~At(t, "undoing")
    BY <1>0, <1>f, <1>22, <2>2, UnlockTypes DEF RestoreFails, TypeOK
  <2> QED BY <2>1, <2>2
<1>23. CASE Panic(t)
  <2>1. poisoned' \subseteq Procs
    BY <1>0, <1>f, <1>23, ContributionAssumption DEF Panic, TypeOK
  <2> QED BY <1>0, <1>f, <1>23, <2>1, UndoTypes DEF Panic, TypeOK
<1>24. CASE Abort(t)
  BY <1>0, <1>f, <1>24, UndoTypes DEF Abort, TypeOK
<1> QED
  BY <1>1, <1>2, <1>3, <1>4, <1>5, <1>6, <1>7, <1>8, <1>9, <1>10, <1>11, <1>12,
     <1>13, <1>14, <1>15, <1>16, <1>17, <1>18, <1>19, <1>20, <1>21, <1>22, <1>23,
     <1>24
     DEF ThreadStep, Acquire, Restore, Prepare, Commit, Work, Fails


-----------------------------------------------------------------------------
(* What a step of one thread means to the others.                          *)

\* What one thread has of its own.
Own(t) == <<pc[t], cur[t], roots[t], gone[t], todo[t], hole[t], seen[t]>>

\* A release, a failing operation and a rollback leave the other threads what
\* they have.
LEMMA ExitsAreOwn ==
  ASSUME TypeOK, NEW t \in Threads, NEW u \in Threads, u # t,
         \/ Unlock(t) \/ Fail(t)
         \/ \E R, G \in SUBSET Objects : Undo(t, R, G)
  PROVE  Own(u)' = Own(u)
<1>1. CASE Unlock(t)
  BY <1>1 DEF TypeOK, Own, Unlock, Drop, Goto
<1>2. CASE Fail(t)
  BY <1>2 DEF TypeOK, Own, Fail, Drop, Goto
<1>3. ASSUME NEW R \in SUBSET Objects, NEW G \in SUBSET Objects, Undo(t, R, G), ~Fail(t)
      PROVE  Own(u)' = Own(u)
  <2>1. /\ pc' = [pc EXCEPT ![t] = "undoing"]
        /\ todo' = [todo EXCEPT ![t] = R]
        /\ roots' = [roots EXCEPT ![t] = R] /\ gone' = [gone EXCEPT ![t] = G]
        /\ UNCHANGED <<cur, hole, seen>>
    BY <1>3 DEF Undo, Goto
  <2> QED BY <2>1 DEF TypeOK, Own
<1> QED BY <1>1, <1>2, <1>3

\* What a thread knows of the lock, it keeps while another moves; data is
\* touched only inside the lock.
LockEffect(t) ==
  /\ Inside(t)' <=> flock' = t
  /\ \A u \in Threads : u # t => (flock' = u <=> flock = u)
  /\ Inside(t) \/ UNCHANGED dataVars

\* Every step of a thread is its own.
LEMMA StepsAreOwn ==
  ASSUME IInv, NEW t \in Threads, NEW u \in Threads, u # t, ThreadStep(t)
  PROVE  Own(u)' = Own(u)
<1> USE DEF lockVars, jobVars, dataVars, At, Restoring
<1>0. TypeOK /\ roots[t] \in SUBSET Objects /\ gone[t] \in SUBSET Objects
  BY DEF IInv, TypeOK
<1>e. Unlock(t) \/ Fail(t) => Own(u)' = Own(u)
  BY <1>0, ExitsAreOwn
<1>u. Undo(t, roots[t], gone[t]) => Own(u)' = Own(u)
  BY <1>0, ExitsAreOwn
<1>1. CASE Lock(t) \/ LockFile(t) \/ RecoverDone(t) \/ Nest(t) \/ Unnest(t)
  BY <1>0, <1>1 DEF TypeOK, Own, Lock, LockFile, RecoverDone, Nest, Unnest, Goto
<1>2. ASSUME NEW x \in Txns, RecoverDiscard(t, x) \/ RecoverApplied(t, x)
      PROVE  Own(u)' = Own(u)
  BY <1>0, <1>2 DEF TypeOK, Own, RecoverDiscard, RecoverApplied, See
<1>3. ASSUME NEW x \in Txns, RecoverPrepared(t, x) PROVE Own(u)' = Own(u)
  BY <1>0, <1>3, <1>e DEF TypeOK, Own, RecoverPrepared, See, Goto
<1>4. CASE RestoreCopy(t)
  BY <1>0, <1>4 DEF TypeOK, Own, RestoreCopy
<1>5. CASE RestoreDone(t) \/ RemoveDir(t)
  BY <1>0, <1>5 DEF TypeOK, Own, RestoreDone, RemoveDir, Drop, Goto
<1>6. ASSUME NEW o \in Objects, RestoreRemove(t, o) PROVE Own(u)' = Own(u)
  BY <1>0, <1>6 DEF TypeOK, Own, RestoreRemove
<1>7. CASE WriteApplied(t)
  BY <1>0, <1>7, <1>u DEF TypeOK, Own, WriteApplied, Goto
<1>8. CASE Record(t)
  BY <1>0, <1>8, <1>e DEF TypeOK, Own, Record, Goto
<1>9. CASE MarkCommitted(t)
  BY <1>0, <1>9, <1>e DEF TypeOK, Own, MarkCommitted, Goto
<1>10. CASE MarkPrepared(t)
  BY <1>0, <1>10, <1>u DEF TypeOK, Own, MarkPrepared, Goto
<1>11. ASSUME NEW o \in Objects, CopyBackup(t, o) PROVE Own(u)' = Own(u)
  BY <1>0, <1>11, <1>e DEF TypeOK, Own, CopyBackup
<1>12. CASE Release(t) \/ AcquireFails(t)
  BY <1>0, <1>12, <1>e DEF Release, AcquireFails
<1>13. ASSUME NEW x \in Txns, NEW R \in RootSets, Begin(t, x, R) PROVE Own(u)' = Own(u)
  <2>1. CASE Fail(t)
    BY <1>e, <2>1
  <2>2. CASE ~Fail(t)
    <3>1. PICK G : /\ pc' = [pc EXCEPT ![t] = "backing"]
                   /\ cur' = [cur EXCEPT ![t] = x]
                   /\ roots' = [roots EXCEPT ![t] = R] /\ gone' = [gone EXCEPT ![t] = G]
                   /\ UNCHANGED <<todo, hole, seen>>
      BY <1>13, <2>2 DEF Begin, Goto
    <3> QED BY <1>0, <3>1 DEF TypeOK, Own
  <2> QED BY <2>1, <2>2
<1>14. ASSUME NEW o \in Objects, Register(t, o) PROVE Own(u)' = Own(u)
  <2>1. PICK R, G \in SUBSET Objects :
          \/ /\ roots' = [roots EXCEPT ![t] = R] /\ gone' = [gone EXCEPT ![t] = G]
             /\ UNCHANGED <<pc, cur, todo, hole, seen>>
          \/ Undo(t, roots[t], gone[t]) \/ Undo(t, R, G)
    <3> DEFINE G == IF live[o] = Absent THEN gone[t] \cup {o} ELSE gone[t]
    <3>1. \/ /\ roots' = [roots EXCEPT ![t] = roots[t] \cup {o}]
             /\ gone' = [gone EXCEPT ![t] = G]
             /\ UNCHANGED <<pc, cur, todo, hole, seen>>
          \/ Undo(t, roots[t], gone[t]) \/ Undo(t, roots[t] \cup {o}, G)
      BY <1>14 DEF Register
    <3>2. roots[t] \cup {o} \in SUBSET Objects /\ G \in SUBSET Objects
      BY <1>0
    <3> QED BY <3>1, <3>2
  <2>2. CASE Undo(t, roots[t], gone[t]) \/ Undo(t, R, G)
    BY <1>0, <1>u, <2>2, ExitsAreOwn
  <2>3. CASE /\ roots' = [roots EXCEPT ![t] = R] /\ gone' = [gone EXCEPT ![t] = G]
             /\ UNCHANGED <<pc, cur, todo, hole, seen>>
    BY <1>0, <2>3 DEF TypeOK, Own
  <2> QED BY <2>1, <2>2, <2>3
<1>15. ASSUME NEW o \in Objects, NEW v \in Txns \cup {Absent}, Change(t, o, v)
       PROVE  Own(u)' = Own(u)
  BY <1>15 DEF Own, Change
<1>16. CASE RestoreFails(t)
  BY <1>16, <1>e DEF RestoreFails
<1>17. CASE Panic(t)
  BY <1>17, <1>e, <1>u DEF Panic
<1>18. CASE Abort(t)
  BY <1>18, <1>u DEF Abort
<1> QED
  BY <1>1, <1>2, <1>3, <1>4, <1>5, <1>6, <1>7, <1>8, <1>9, <1>10, <1>11, <1>12,
     <1>13, <1>14, <1>15, <1>16, <1>17, <1>18
     DEF ThreadStep, Acquire, Restore, Prepare, Commit, Work, Fails

\* What exits do to the lock.
LEMMA ExitLock ==
  ASSUME IInv, NEW t \in Threads, Inside(t)
  PROVE  /\ Unlock(t) => LockEffect(t)
         /\ Fail(t) /\ flock' = flock => LockEffect(t)
         /\ \A R, G : Undo(t, R, G) /\ flock' = flock => LockEffect(t)
<1>0. TypeOK /\ flock = t
  BY DEF IInv, LockInv
<1>1. ASSUME flock' = flock, pc'[t] \in {"leaving", "undoing"} PROVE LockEffect(t)
  BY <1>0, <1>1 DEF LockEffect, Inside
<1>2. ASSUME Unlock(t) PROVE LockEffect(t)
  BY <1>0, <1>2, ContributionAssumption DEF TypeOK, LockEffect, Inside, Unlock, Goto
<1>3. Fail(t) => pc'[t] = "leaving"
  BY <1>0 DEF TypeOK, Fail, Goto
<1>4. ASSUME NEW R, NEW G, Undo(t, R, G) PROVE pc'[t] \in {"leaving", "undoing"}
  BY <1>0, <1>3, <1>4 DEF TypeOK, Undo, Goto
<1> QED BY <1>1, <1>2, <1>3, <1>4

\* A step that keeps the thread inside keeps the lock.
LEMMA InsideLock ==
  ASSUME IInv, NEW t \in Threads, Inside(t), flock' = flock,
         pc'[t] \notin {"out", "mutexed"}
  PROVE  LockEffect(t)
BY DEF IInv, LockInv, LockEffect, Inside

\* Every step of a thread respects the lock.
LEMMA LockStep ==
  ASSUME IInv, NEW t \in Threads, ThreadStep(t)
  PROVE  LockEffect(t)
<1> USE DEF lockVars, At, Restoring, Inside
<1>0. TypeOK /\ LockInv
  BY DEF IInv
<1>1. CASE Lock(t)
  BY <1>0, <1>1 DEF TypeOK, Lock, Goto, LockEffect, LockInv, dataVars
<1>2. CASE LockFile(t)
  BY <1>0, <1>2, ContributionAssumption DEF TypeOK, LockFile, Goto, LockEffect, LockInv, dataVars
<1>3. CASE AcquireFails(t) /\ pc[t] = "mutexed"
  BY <1>0, <1>3, ContributionAssumption
     DEF TypeOK, AcquireFails, Unlock, Goto, LockEffect, LockInv, dataVars
<1>4. CASE RecoverDone(t) \/ Nest(t) \/ Unnest(t)
  BY <1>0, <1>4, InsideLock DEF TypeOK, RecoverDone, Nest, Unnest, Goto
<1>5. ASSUME NEW x \in Txns, RecoverDiscard(t, x) \/ RecoverApplied(t, x)
      PROVE  LockEffect(t)
  BY <1>0, <1>5, InsideLock DEF RecoverDiscard, RecoverApplied, Recovers
<1>6. ASSUME NEW x \in Txns, RecoverPrepared(t, x) PROVE LockEffect(t)
  BY <1>0, <1>6, InsideLock, ExitLock DEF TypeOK, RecoverPrepared, Recovers, Goto
<1>7. CASE RestoreCopy(t) \/ RestoreDone(t) \/ RemoveDir(t)
  BY <1>0, <1>7, InsideLock DEF TypeOK, RestoreCopy, RestoreDone, RemoveDir, Goto
<1>8. ASSUME NEW o \in Objects, RestoreRemove(t, o) PROVE LockEffect(t)
  BY <1>0, <1>8, InsideLock DEF RestoreRemove
<1>9. CASE WriteApplied(t)
  BY <1>0, <1>9, InsideLock, ExitLock DEF TypeOK, WriteApplied, Goto
<1>10. CASE Record(t)
  BY <1>0, <1>10, InsideLock, ExitLock DEF TypeOK, Record, Goto
<1>11. CASE MarkCommitted(t)
  BY <1>0, <1>11, InsideLock, ExitLock DEF TypeOK, MarkCommitted, Goto
<1>12. CASE MarkPrepared(t)
  BY <1>0, <1>12, InsideLock, ExitLock DEF TypeOK, MarkPrepared, Goto
<1>13. ASSUME NEW o \in Objects, CopyBackup(t, o) PROVE LockEffect(t)
  BY <1>0, <1>13, InsideLock, ExitLock DEF CopyBackup
<1>14. CASE Release(t) \/ (AcquireFails(t) /\ pc[t] # "mutexed")
  BY <1>0, <1>14, ExitLock DEF Release, AcquireFails
<1>15. ASSUME NEW x \in Txns, NEW R \in RootSets, Begin(t, x, R) PROVE LockEffect(t)
  BY <1>0, <1>15, InsideLock, ExitLock DEF TypeOK, Begin, Goto
<1>16. ASSUME NEW o \in Objects, Register(t, o) PROVE LockEffect(t)
  BY <1>0, <1>16, InsideLock, ExitLock DEF Register
<1>17. ASSUME NEW o \in Objects, NEW v \in Txns \cup {Absent}, Change(t, o, v)
       PROVE  LockEffect(t)
  BY <1>0, <1>17, InsideLock DEF Change
<1>18. CASE RestoreFails(t) \/ Panic(t) \/ Abort(t)
  BY <1>0, <1>18, ExitLock DEF RestoreFails, Panic, Abort
<1>19. AcquireFails(t) => LockEffect(t)
  BY <1>3, <1>14
<1>20. Acquire(t) => LockEffect(t)
  BY <1>1, <1>2, <1>4, <1>5, <1>6 DEF Acquire
<1>21. Restore(t) \/ Commit(t) \/ Prepare(t) => LockEffect(t)
  BY <1>7, <1>8, <1>9, <1>10, <1>11, <1>12, <1>13 DEF Restore, Commit, Prepare
<1>22. Work(t) \/ Fails(t) => LockEffect(t)
  BY <1>4, <1>15, <1>16, <1>17, <1>18, <1>19 DEF Work, Fails
<1> QED BY <1>4, <1>14, <1>20, <1>21, <1>22 DEF ThreadStep

\* The lock passes only to who takes it.
LEMMA LockKept ==
  ASSUME IInv, NEW t \in Threads, ThreadStep(t)
  PROVE  LockInv'
<1>1. LockEffect(t) /\ LockInv
  BY LockStep DEF IInv
<1>2. \A u \in Threads : u # t => pc'[u] = pc[u]
  BY StepsAreOwn DEF Own
<1> QED BY <1>1, <1>2 DEF LockEffect, LockInv, Inside

\* What a thread knows of its transaction and of the directories stays true
\* while another one moves.
LEMMA OthersKnow ==
  ASSUME IInv, NEW t \in Threads, NEW u \in Threads, u # t, ThreadStep(t)
  PROVE  JobInv(u)' /\ (KnowsInv(u) => KnowsInv(u)')
<1>1. Own(u)' = Own(u)
  BY StepsAreOwn
<1>2. JobInv(u) /\ LockInv
  BY DEF IInv
<1>3. /\ pc'[u] = pc[u] /\ cur'[u] = cur[u] /\ roots'[u] = roots[u]
      /\ gone'[u] = gone[u] /\ todo'[u] = todo[u] /\ hole'[u] = hole[u]
      /\ seen'[u] = seen[u]
  BY <1>1 DEF Own
<1>4. CASE ~Inside(u)
  <2>1. pc[u] \in {"out", "mutexed"} /\ hole[u] = None
    BY <1>2, <1>4 DEF Inside, JobInv, Restoring
  <2> QED BY <1>3, <2>1 DEF JobInv, KnowsInv, At, Restoring
<1>5. CASE Inside(u)
  <2>1. UNCHANGED dataVars
    BY <1>2, <1>5, LockStep DEF LockEffect, LockInv, Inside
  <2>2. JobInv(u)'
    BY <1>2, <1>3, <2>1 DEF dataVars, JobInv, At, Restoring, Phase, SameOnDisk, Complete
  <2>3. KnowsInv(u) => KnowsInv(u)'
    BY <1>3, <2>1 DEF dataVars, KnowsInv, At, Restoring, Phase, SameOnDisk, Clean
  <2> QED BY <2>2, <2>3
<1> QED BY <1>4, <1>5

-----------------------------------------------------------------------------
(* What a thread knows of its transaction, and the events on record.       *)

\* A thread without a transaction in hand has nothing to know.
LEMMA IdleJob ==
  ASSUME NEW t \in Threads, hole'[t] = None,
         pc'[t] \in {"out", "mutexed", "recovering", "in", "leaving"}
  PROVE  JobInv(t)'
BY DEF JobInv, At, Restoring

\* Whoever leaves an operation, with or without the lock, is idle.
LEMMA ExitIsIdle ==
  ASSUME TypeOK, NEW t \in Threads, Fail(t) \/ Unlock(t)
  PROVE  /\ pc'[t] = IF Fail(t) THEN "leaving" ELSE "out"
         /\ hole'[t] = None /\ cur'[t] = None
         /\ JobInv(t)'
<1>1. CASE Fail(t)
  <2>1. pc'[t] = "leaving" /\ hole'[t] = None /\ cur'[t] = None
    BY <1>1 DEF TypeOK, Fail, Drop, Goto
  <2> QED BY <1>1, <2>1, IdleJob
<1>2. CASE ~Fail(t)
  <2>1. pc'[t] = "out" /\ hole'[t] = None /\ cur'[t] = None
    BY <1>2 DEF TypeOK, Unlock, Drop, Goto
  <2> QED BY <1>2, <2>1, IdleJob
<1> QED BY <1>1, <1>2

\* A rollback begins with every backup it needs, or not at all.
LEMMA UndoBegins ==
  ASSUME TypeOK, NEW t \in Threads, NEW R \in SUBSET Objects, NEW G \in SUBSET Objects,
         Undo(t, R, G)
  PROVE  \/ Fail(t) /\ pc'[t] = "leaving" /\ hole'[t] = None
         \/ /\ pc'[t] = "undoing" /\ cur'[t] = cur[t] /\ hole'[t] = hole[t]
            /\ roots'[t] = R /\ gone'[t] = G /\ todo'[t] = R
            /\ \A o \in R \ G : dir'[cur[t]].copy[o] # None
<1>1. CASE Fail(t)
  BY <1>1, ExitIsIdle
<1>2. CASE ~Fail(t)
  BY <1>2 DEF TypeOK, Undo, Goto
<1> QED BY <1>1, <1>2

\* What the thread knows when a rollback begins.
LEMMA UndoJob ==
  ASSUME TypeOK, NEW t \in Threads, NEW R \in SUBSET Objects, NEW G \in SUBSET Objects,
         Undo(t, R, G), cur[t] \in Txns, hole[t] = None,
         dir'[cur[t]].phase \in {"backingUp", "prepared"}
  PROVE  JobInv(t)'
<1>1. CASE pc'[t] = "leaving" /\ hole'[t] = None
  BY <1>1, IdleJob
<1>2. CASE /\ pc'[t] = "undoing" /\ cur'[t] = cur[t] /\ hole'[t] = hole[t]
           /\ roots'[t] = R /\ gone'[t] = G /\ todo'[t] = R
           /\ \A o \in R \ G : dir'[cur[t]].copy[o] # None
  BY <1>2 DEF JobInv, At, Restoring, Phase, Complete
<1> QED BY <1>1, <1>2, UndoBegins

\* Phases that stay keep what they say.
LEMMA SamePhases ==
  ASSUME EventInv, UNCHANGED <<store, done, used>>,
         \A x \in Txns : Phase(x)' = Phase(x)
  PROVE  EventInv'
BY DEF EventInv

\* A directory that may go takes no event with it.
LEMMA DeleteEvents ==
  ASSUME TypeOK, EventInv, NEW x \in Txns, Delete(x), Phase(x) # "removed",
         UNCHANGED <<done, used>>, store \subseteq store', store' \subseteq done
  PROVE  EventInv'
<1>1. /\ \A y \in Txns : y # x => Phase(y)' = Phase(y)
      /\ Phase(x)' \in {"removed", "bare", Phase(x)}
  BY DeleteDir DEF Phase
<1>2. ASSUME NEW y \in Txns
      PROVE  /\ Phase(y)' \in {"applied", "committed"} => y \in done'
             /\ Phase(y)' = "committed" => y \in store'
             /\ y \in done' => Phase(y)' \notin {"backingUp", "prepared"}
             /\ Phase(y)' # "removed" \/ y \in done' => y \in used'
  <2>1. /\ Phase(y) \in {"applied", "committed"} => y \in done
        /\ Phase(y) = "committed" => y \in store
        /\ y \in done => Phase(y) \notin {"backingUp", "prepared"}
        /\ Phase(y) # "removed" \/ y \in done => y \in used
    BY DEF EventInv
  <2>2. Phase(y)' = Phase(y) \/ (y = x /\ Phase(y)' \in {"removed", "bare"})
    BY <1>1
  <2> QED BY <2>1, <2>2
<1> QED BY <1>2 DEF EventInv

\* Every step of a thread keeps its knowledge and the record of the events.
LEMMA JobStep ==
  ASSUME IInv, NEW t \in Threads, ThreadStep(t)
  PROVE  EventInv' /\ JobInv(t)'
<1> USE DEF lockVars, jobVars, dataVars, At, Restoring
<1>0. TypeOK /\ EventInv /\ JobInv(t)
  BY DEF IInv
<1>h. ~Restoring(t) => hole[t] = None
  BY <1>0 DEF JobInv
<1>s. UNCHANGED <<dir, store, done, used>> => EventInv'
  BY <1>0, SamePhases DEF Phase
<1>r. roots[t] \in SUBSET Objects /\ gone[t] \in SUBSET Objects
  BY <1>0 DEF TypeOK
<1>1. CASE Lock(t) \/ LockFile(t) \/ RecoverDone(t) \/ Nest(t) \/ Unnest(t)
  <2>1. hole'[t] = None /\ pc'[t] \in {"out", "mutexed", "recovering", "in", "leaving"}
    BY <1>0, <1>1, <1>h DEF TypeOK, Lock, LockFile, RecoverDone, Nest, Unnest, Goto
  <2>2. UNCHANGED dataVars
    BY <1>1 DEF Lock, LockFile, RecoverDone, Nest, Unnest
  <2> QED BY <1>s, <2>1, <2>2, IdleJob
<1>2. ASSUME NEW x \in Txns, RecoverDiscard(t, x) PROVE EventInv' /\ JobInv(t)'
  <2>1. Delete(x) /\ Phase(x) # "removed" /\ UNCHANGED <<store, done, used, pc, hole>>
        /\ pc[t] = "recovering"
    BY <1>2 DEF RecoverDiscard, Recovers, Phase
  <2>2. EventInv'
    BY <1>0, <2>1, DeleteEvents DEF EventInv
  <2> QED BY <1>h, <2>1, <2>2, IdleJob
<1>3. ASSUME NEW x \in Txns, RecoverApplied(t, x) PROVE EventInv' /\ JobInv(t)'
  <2>1. Delete(x) /\ Phase(x) = "applied" /\ UNCHANGED <<done, used, pc, hole>>
        /\ pc[t] = "recovering" /\ store' = store \cup {x}
    BY <1>3 DEF RecoverApplied, Recovers, Phase
  <2>2. store' \subseteq done
    BY <1>0, <2>1 DEF EventInv
  <2>3. EventInv'
    BY <1>0, <2>1, <2>2, DeleteEvents
  <2> QED BY <1>h, <2>1, <2>3, IdleJob
<1>4. ASSUME NEW x \in Txns, RecoverPrepared(t, x) PROVE EventInv' /\ JobInv(t)'
  <2>1. UNCHANGED dataVars /\ pc[t] = "recovering" /\ Phase(x) = "prepared"
    BY <1>4 DEF RecoverPrepared, Recovers, Phase
  <2>2. CASE Unlock(t)
    BY <1>0, <1>s, <2>1, <2>2, ExitIsIdle
  <2>3. CASE ~Unlock(t)
    <3>1. /\ pc'[t] = "restoring" /\ cur'[t] = x /\ roots'[t] = dir[x].roots
          /\ gone'[t] = dir[x].gone /\ todo'[t] = dir[x].roots /\ hole'[t] = hole[t]
          /\ \A o \in dir[x].roots \ dir[x].gone : dir[x].copy[o] # None
      BY <1>0, <1>4, <2>3 DEF TypeOK, RecoverPrepared, Goto
    <3> QED BY <1>h, <1>s, <2>1, <3>1 DEF JobInv, Phase, Complete
  <2> QED BY <2>2, <2>3
<1>5. CASE RestoreCopy(t)
  <2>1. /\ UNCHANGED <<dir, store, done, used>> /\ pc'[t] = pc[t] /\ cur'[t] = cur[t]
        /\ roots'[t] = roots[t] /\ gone'[t] = gone[t]
        /\ todo'[t] = todo[t] \ {hole[t]} /\ hole'[t] = None /\ Restoring(t)
    BY <1>0, <1>5 DEF TypeOK, RestoreCopy
  <2> QED BY <1>0, <1>s, <2>1 DEF JobInv, Phase, Complete
<1>6. CASE RestoreDone(t) \/ RemoveDir(t)
  <2>1. /\ Delete(cur[t]) /\ UNCHANGED <<store, done, used>> /\ hole'[t] = None
        /\ pc'[t] \in {"leaving", "recovering", "in"}
        /\ (Restoring(t) \/ pc[t] = "committed")
    BY <1>0, <1>6 DEF TypeOK, RestoreDone, RemoveDir, Goto, Drop
  <2>2. cur[t] \in Txns /\ Phase(cur[t]) # "removed"
    BY <1>0, <2>1 DEF JobInv
  <2>3. EventInv'
    BY <1>0, <2>1, <2>2, DeleteEvents DEF EventInv
  <2> QED BY <2>1, <2>3, IdleJob
<1>7. ASSUME NEW o \in Objects, RestoreRemove(t, o) PROVE EventInv' /\ JobInv(t)'
  <2>1. /\ UNCHANGED <<dir, store, done, used>> /\ pc'[t] = pc[t] /\ cur'[t] = cur[t]
        /\ roots'[t] = roots[t] /\ gone'[t] = gone[t] /\ Restoring(t)
        /\ o \in todo[t] /\ hole[t] = None
        /\ IF o \in gone[t] THEN todo'[t] = todo[t] \ {o} /\ hole'[t] = None
           ELSE todo'[t] = todo[t] /\ hole'[t] = o
    BY <1>0, <1>7 DEF TypeOK, RestoreRemove
  <2> QED BY <1>0, <1>s, <2>1 DEF JobInv, Phase, Complete
<1>8. CASE WriteApplied(t)
  <2>0. /\ cur[t] \in Txns /\ Phase(cur[t]) = "prepared" /\ hole[t] = None
        /\ cur[t] \in used
    BY <1>0, <1>8, <1>h DEF WriteApplied, JobInv, EventInv
  <2>1. CASE UNCHANGED <<dir, truth, done>> /\ Undo(t, roots[t], gone[t])
    <3>1. EventInv'
      BY <1>8, <1>s, <2>1 DEF WriteApplied
    <3>2. dir'[cur[t]].phase = "prepared"
      BY <2>0, <2>1 DEF Phase
    <3> QED BY <1>0, <1>r, <2>0, <2>1, <3>1, <3>2, UndoJob
  <2>2. CASE ~(UNCHANGED <<dir, truth, done>> /\ Undo(t, roots[t], gone[t]))
    <3>1. /\ dir' = [dir EXCEPT ![cur[t]].phase = "applied"]
          /\ done' = done \cup {cur[t]} /\ UNCHANGED <<store, used, cur, hole>>
          /\ pc'[t] = "applied"
      BY <1>0, <1>8, <2>2 DEF TypeOK, WriteApplied, Goto
    <3>2. /\ \A y \in Txns : y # cur[t] => Phase(y)' = Phase(y)
          /\ dir'[cur[t]].phase = "applied"
      BY <1>0, <2>0, <3>1, PhaseUpdate DEF Phases, Phase
    <3>3. JobInv(t)'
      BY <2>0, <3>1, <3>2 DEF JobInv, Phase
    <3>4. EventInv'
      BY <1>0, <2>0, <3>1, <3>2 DEF EventInv, Phase
    <3> QED BY <3>3, <3>4
  <2> QED BY <2>1, <2>2
<1>9. CASE Record(t)
  <2>0. /\ cur[t] \in Txns /\ Phase(cur[t]) = "applied" /\ hole[t] = None
        /\ cur[t] \in done
    BY <1>0, <1>9, <1>h DEF Record, JobInv, EventInv
  <2>1. CASE Fail(t) /\ UNCHANGED store
    BY <1>0, <1>9, <1>s, <2>1, ExitIsIdle DEF Record
  <2>2. CASE ~(Fail(t) /\ UNCHANGED store)
    <3>1. /\ store' = store \cup {cur[t]} /\ UNCHANGED <<dir, done, used, cur, hole>>
          /\ pc'[t] = "recorded"
      BY <1>0, <1>9, <2>2 DEF TypeOK, Record, Goto
    <3>2. JobInv(t)'
      BY <2>0, <3>1 DEF JobInv, Phase
    <3>3. EventInv'
      BY <1>0, <2>0, <3>1 DEF EventInv, Phase
    <3> QED BY <3>2, <3>3
  <2> QED BY <2>1, <2>2
<1>10. CASE MarkCommitted(t)
  <2>0. /\ cur[t] \in Txns /\ Phase(cur[t]) = "applied" /\ hole[t] = None
        /\ cur[t] \in store
    BY <1>0, <1>10, <1>h DEF MarkCommitted, JobInv
  <2>1. CASE Fail(t) /\ UNCHANGED dir
    BY <1>0, <1>10, <1>s, <2>1, ExitIsIdle DEF MarkCommitted
  <2>2. CASE ~(Fail(t) /\ UNCHANGED dir)
    <3>1. /\ dir' = [dir EXCEPT ![cur[t]].phase = "committed"]
          /\ UNCHANGED <<store, done, used, cur, hole>> /\ pc'[t] = "committed"
      BY <1>0, <1>10, <2>2 DEF TypeOK, MarkCommitted, Goto
    <3>2. /\ \A y \in Txns : y # cur[t] => Phase(y)' = Phase(y)
          /\ dir'[cur[t]].phase = "committed"
      BY <1>0, <2>0, <3>1, PhaseUpdate DEF Phases, Phase
    <3>3. JobInv(t)'
      BY <2>0, <3>1, <3>2 DEF JobInv, Phase
    <3>4. EventInv'
      BY <1>0, <2>0, <3>1, <3>2 DEF EventInv, Phase
    <3> QED BY <3>3, <3>4
  <2> QED BY <2>1, <2>2
<1>11. CASE MarkPrepared(t)
  <2>0. /\ cur[t] \in Txns /\ Phase(cur[t]) = "backingUp" /\ hole[t] = None
        /\ SameOnDisk(t) /\ Complete(cur[t], roots[t], gone[t])
    BY <1>0, <1>11, <1>h DEF MarkPrepared, JobInv, Complete
  <2>1. CASE UNCHANGED dir /\ Undo(t, roots[t], gone[t])
    <3>1. EventInv'
      BY <1>11, <1>s, <2>1 DEF MarkPrepared
    <3>2. dir'[cur[t]].phase = "backingUp"
      BY <2>0, <2>1 DEF Phase
    <3> QED BY <1>0, <1>r, <2>0, <2>1, <3>1, <3>2, UndoJob
  <2>2. CASE ~(UNCHANGED dir /\ Undo(t, roots[t], gone[t]))
    <3>1. /\ dir' = [dir EXCEPT ![cur[t]].phase = "prepared"] /\ pc'[t] = "open"
          /\ UNCHANGED <<store, done, used, cur, hole, roots, gone>>
      BY <1>0, <1>11, <2>2 DEF TypeOK, MarkPrepared, Goto
    <3>2. /\ \A y \in Txns : y # cur[t] => Phase(y)' = Phase(y)
          /\ dir'[cur[t]].phase = "prepared" /\ dir'[cur[t]].roots = dir[cur[t]].roots
          /\ dir'[cur[t]].gone = dir[cur[t]].gone /\ dir'[cur[t]].copy = dir[cur[t]].copy
      BY <1>0, <2>0, <3>1, PhaseUpdate DEF Phases, Phase
    <3>3. JobInv(t)'
      BY <2>0, <3>1, <3>2 DEF JobInv, Phase, SameOnDisk, Complete
    <3>4. EventInv'
      BY <1>0, <2>0, <3>1, <3>2 DEF EventInv, Phase
    <3> QED BY <3>3, <3>4
  <2> QED BY <2>1, <2>2
<1>12. ASSUME NEW o \in Objects, CopyBackup(t, o) PROVE EventInv' /\ JobInv(t)'
  <2>0. /\ cur[t] \in Txns /\ Phase(cur[t]) = "backingUp" /\ hole[t] = None
        /\ SameOnDisk(t)
    BY <1>0, <1>12, <1>h DEF CopyBackup, JobInv
  <2>1. CASE Fail(t) /\ UNCHANGED dir
    BY <1>0, <1>12, <1>s, <2>1, ExitIsIdle DEF CopyBackup
  <2>2. CASE ~(Fail(t) /\ UNCHANGED dir)
    <3>1. /\ dir' = [dir EXCEPT ![cur[t]].copy[o] = live[o]] /\ pc[t] = "backing"
          /\ UNCHANGED <<store, done, used, pc, cur, hole, roots, gone>>
      BY <1>12, <2>2 DEF CopyBackup
    <3>2. /\ \A y \in Txns : y # cur[t] => Phase(y)' = Phase(y)
          /\ dir'[cur[t]].phase = "backingUp" /\ dir'[cur[t]].roots = dir[cur[t]].roots
          /\ dir'[cur[t]].gone = dir[cur[t]].gone
      BY <1>0, <2>0, <3>1, BackupUpdate DEF Phase
    <3>3. JobInv(t)'
      BY <2>0, <3>1, <3>2 DEF JobInv, Phase, SameOnDisk
    <3>4. EventInv'
      BY <1>0, <2>0, <3>1, <3>2, SamePhases DEF Phase
    <3> QED BY <3>3, <3>4
  <2> QED BY <2>1, <2>2
<1>13. CASE Release(t) \/ AcquireFails(t)
  BY <1>0, <1>13, <1>s, ExitIsIdle DEF Release, AcquireFails
<1>14. ASSUME NEW x \in Txns, NEW R \in RootSets, Begin(t, x, R)
       PROVE  EventInv' /\ JobInv(t)'
  <2> DEFINE G == {o \in R : live[o] = Absent}
             d == [Removed EXCEPT !.phase = "backingUp", !.roots = R, !.gone = G]
  <2>0. /\ hole[t] = None /\ x \notin used /\ used' = used \cup {x}
        /\ UNCHANGED <<store, done>> /\ Phase(x) = "removed" /\ x \notin done
    BY <1>0, <1>14, <1>h DEF Begin, EventInv
  <2>1. d.phase = "backingUp" /\ d.roots = R /\ d.gone = G
    BY DEF Removed
  <2> HIDE DEF d, G
  <2>2. ASSUME NEW e, dir' = [dir EXCEPT ![x] = e], e.phase \in {"bare", "backingUp"}
        PROVE  EventInv'
    <3>1. dir'[x] = e /\ \A y \in Txns : y # x => dir'[y] = dir[y]
      BY <1>0, <2>2 DEF TypeOK
    <3>2. Phase(x)' \in {"bare", "backingUp"} /\ \A y \in Txns : y # x => Phase(y)' = Phase(y)
      BY <2>2, <3>1 DEF Phase
    <3> QED BY <1>0, <2>0, <3>2 DEF EventInv
  <2>3. CASE Fail(t) /\ dir' = [dir EXCEPT ![x] = Bare]
    BY <1>0, <2>2, <2>3, EmptyDirs, ExitIsIdle
  <2>4. CASE ~(Fail(t) /\ dir' = [dir EXCEPT ![x] = Bare])
    <3>1. /\ dir' = [dir EXCEPT ![x] = d] /\ pc'[t] = "backing" /\ cur'[t] = x
          /\ roots'[t] = R /\ gone'[t] = G /\ hole' = hole
      BY <1>0, <1>14, <2>4 DEF TypeOK, Begin, Goto, d, G
    <3>2. dir'[x] = d
      BY <1>0, <3>1 DEF TypeOK
    <3> QED BY <2>0, <2>1, <2>2, <3>1, <3>2 DEF JobInv, Phase, SameOnDisk
  <2> QED BY <2>3, <2>4
<1>15. ASSUME NEW o \in Objects, Register(t, o) PROVE EventInv' /\ JobInv(t)'
  <2> DEFINE x == cur[t]
             R == roots[t] \cup {o}
             G == IF live[o] = Absent THEN gone[t] \cup {o} ELSE gone[t]
             copied == IF live[o] = Absent THEN dir[x].copy
                       ELSE [dir[x].copy EXCEPT ![o] = live[o]]
  <2>0. /\ x \in Txns /\ Phase(x) = "prepared" /\ hole[t] = None
        /\ Complete(x, roots[t], gone[t])
        /\ UNCHANGED <<store, done, used>> /\ o \notin roots[t]
    BY <1>0, <1>15, <1>h DEF Register, JobInv
  <2>1. R \in SUBSET Objects /\ G \in SUBSET Objects
    BY <1>r
  <2>2. /\ dir[x] \in Dirs /\ dir[x].copy \in [Objects -> Values \cup {None}]
        /\ live[o] \in Values /\ None \notin Values
    BY <1>0, <2>0, DirFields, ContributionAssumption DEF TypeOK, Values
  <2>3. copied \in [Objects -> Values \cup {None}]
    BY <2>2
  <2>4. \A q \in R \ G : copied[q] # None
    BY <2>0, <2>2, <1>r DEF Complete
  <2>5. \/ /\ dir' = [dir EXCEPT ![x].copy = copied, ![x].roots = R, ![x].gone = G]
           /\ roots' = [roots EXCEPT ![t] = R]
           /\ gone' = [gone EXCEPT ![t] = G]
           /\ UNCHANGED <<pc, cur, hole>> /\ pc[t] = "open"
        \/ UNCHANGED dir /\ Undo(t, roots[t], gone[t])
        \/ dir' = [dir EXCEPT ![x].copy = copied] /\ Undo(t, R, G)
    BY <1>15 DEF Register
  <2>x. x = cur[t]
    OBVIOUS
  <2> HIDE DEF copied, R, G, x
  <2>6. CASE /\ dir' = [dir EXCEPT ![x].copy = copied, ![x].roots = R, ![x].gone = G]
             /\ roots' = [roots EXCEPT ![t] = R]
             /\ gone' = [gone EXCEPT ![t] = G]
             /\ UNCHANGED <<pc, cur, hole>> /\ pc[t] = "open"
    <3>1. /\ \A y \in Txns : y # x => dir'[y] = dir[y]
          /\ dir'[x].phase = dir[x].phase /\ dir'[x].roots = R
          /\ dir'[x].gone = G /\ dir'[x].copy = copied
      <4>1. TypeOK /\ x \in Txns
        BY <1>0, <2>0
      <4>2. dir' = [dir EXCEPT ![x].copy = copied, ![x].roots = R, ![x].gone = G]
        BY <2>6
      <4>3. /\ dir' \in [Txns -> Dirs]
            /\ \A y \in Txns : y # x => dir'[y] = dir[y]
            /\ dir'[x].phase = dir[x].phase /\ dir'[x].roots = R
            /\ dir'[x].gone = G /\ dir'[x].copy = copied
        BY ONLY <2>1, <2>3, <4>1, <4>2, RootsUpdate, Zenon
      <4> QED BY <4>3
    <3>2. roots'[t] = R /\ gone'[t] = G /\ cur'[t] = x
      BY <1>0, <2>6, <2>x DEF TypeOK
    <3>3. pc'[t] = "open" /\ hole'[t] = None /\ dir'[x].phase = "prepared"
      BY <2>0, <2>6, <3>1 DEF Phase
    <3>4. JobInv(t)'
      BY <2>0, <2>4, <3>1, <3>2, <3>3 DEF JobInv, Phase, SameOnDisk, Complete
    <3>5. EventInv'
      BY <1>0, <2>0, <3>1, SamePhases DEF Phase
    <3> QED BY <3>4, <3>5
  <2>7. CASE UNCHANGED dir /\ Undo(t, roots[t], gone[t])
    <3>1. dir'[cur[t]].phase = "prepared"
      BY <2>0, <2>7, <2>x DEF Phase
    <3> QED BY <1>0, <1>r, <1>s, <2>0, <2>7, <2>x, <3>1, UndoJob
  <2>8. CASE dir' = [dir EXCEPT ![x].copy = copied] /\ Undo(t, R, G)
    <3>1. dir'[x].phase = dir[x].phase /\ \A y \in Txns : y # x => dir'[y] = dir[y]
      BY <1>0, <2>0, <2>3, <2>8, CopyUpdate
    <3>2. EventInv'
      BY <1>0, <2>0, <3>1, SamePhases DEF Phase
    <3>3. dir'[cur[t]].phase = "prepared"
      BY <2>0, <2>x, <3>1 DEF Phase
    <3> QED BY <1>0, <2>0, <2>1, <2>8, <2>x, <3>2, <3>3, UndoJob
  <2> QED BY <2>5, <2>6, <2>7, <2>8
<1>16. ASSUME NEW o \in Objects, NEW v \in Txns \cup {Absent}, Change(t, o, v)
       PROVE  EventInv' /\ JobInv(t)'
  <2>1. UNCHANGED <<jobVars, pc, dir, store, done, used>>
    BY <1>16 DEF Change
  <2> QED BY <1>0, <1>s, <2>1 DEF JobInv, Phase, SameOnDisk, Complete
<1>17. CASE RestoreFails(t)
  BY <1>0, <1>17, <1>s, ExitIsIdle DEF RestoreFails
<1>18. CASE Panic(t) \/ Abort(t)
  <2>1. /\ UNCHANGED dataVars
        /\ Fail(t) \/ (pc[t] = "open" /\ Undo(t, roots[t], gone[t]))
    BY <1>18 DEF Panic, Abort
  <2>2. CASE Fail(t)
    BY <1>0, <1>s, <2>1, <2>2, ExitIsIdle
  <2>3. CASE pc[t] = "open" /\ Undo(t, roots[t], gone[t])
    <3>1. /\ cur[t] \in Txns /\ hole[t] = None
          /\ dir'[cur[t]].phase \in {"backingUp", "prepared"}
      BY <1>0, <1>h, <2>1, <2>3 DEF JobInv, Phase
    <3> QED BY <1>0, <1>r, <1>s, <2>1, <2>3, <3>1, UndoJob
  <2> QED BY <2>1, <2>2, <2>3
<1>19. Acquire(t) \/ Restore(t) => EventInv' /\ JobInv(t)'
  BY <1>1, <1>2, <1>3, <1>4, <1>5, <1>6, <1>7 DEF Acquire, Restore
<1>20. Commit(t) \/ Prepare(t) => EventInv' /\ JobInv(t)'
  BY <1>6, <1>8, <1>9, <1>10, <1>11, <1>12 DEF Commit, Prepare
<1>21. Work(t) \/ Fails(t) => EventInv' /\ JobInv(t)'
  BY <1>1, <1>13, <1>14, <1>15, <1>16, <1>17, <1>18 DEF Work, Fails
<1> QED BY <1>1, <1>13, <1>19, <1>20, <1>21 DEF ThreadStep

-----------------------------------------------------------------------------
(* A crash, and the inductive invariant.                                   *)

\* A crash takes what the threads of its process hold, and no more.
LEMMA CrashEffect ==
  ASSUME TypeOK, NEW p \in Procs, Crash(p)
  PROVE  /\ UNCHANGED dataVars
         /\ \A t \in Threads :
              IF ProcOf[t] = p
              THEN /\ pc'[t] = "out" /\ cur'[t] = None /\ roots'[t] = {}
                   /\ gone'[t] = {} /\ todo'[t] = {} /\ hole'[t] = None /\ seen'[t] = {}
                   /\ depth'[t] = 0
              ELSE Own(t)' = Own(t) /\ depth'[t] = depth[t]
         /\ flock' = IF \E t \in Threads : ProcOf[t] = p /\ flock = t THEN None ELSE flock
         /\ TypeOK'
<1> DEFINE mine == {t \in Threads : ProcOf[t] = p}
<1>1. /\ UNCHANGED <<dataVars, faults>> /\ crashes' = crashes + 1 /\ crashes < MaxCrashes
      /\ mutex' = [mutex EXCEPT ![p] = None] /\ poisoned' = poisoned \ {p}
      /\ flock' = IF flock \in mine THEN None ELSE flock
      /\ depth' = [t \in Threads |-> IF t \in mine THEN 0 ELSE depth[t]]
      /\ pc' = [t \in Threads |-> IF t \in mine THEN "out" ELSE pc[t]]
      /\ cur' = [t \in Threads |-> IF t \in mine THEN None ELSE cur[t]]
      /\ roots' = [t \in Threads |-> IF t \in mine THEN {} ELSE roots[t]]
      /\ gone' = [t \in Threads |-> IF t \in mine THEN {} ELSE gone[t]]
      /\ todo' = [t \in Threads |-> IF t \in mine THEN {} ELSE todo[t]]
      /\ hole' = [t \in Threads |-> IF t \in mine THEN None ELSE hole[t]]
      /\ seen' = [t \in Threads |-> IF t \in mine THEN {} ELSE seen[t]]
  BY DEF Crash
<1>2. \A t \in Threads : t \in mine <=> ProcOf[t] = p
  OBVIOUS
<1> HIDE DEF mine
<1>3. UNCHANGED dataVars
  BY <1>1
<1>4. \A t \in Threads :
        IF ProcOf[t] = p
        THEN /\ pc'[t] = "out" /\ cur'[t] = None /\ roots'[t] = {}
             /\ gone'[t] = {} /\ todo'[t] = {} /\ hole'[t] = None /\ seen'[t] = {}
             /\ depth'[t] = 0
        ELSE Own(t)' = Own(t) /\ depth'[t] = depth[t]
  BY <1>1, <1>2 DEF Own
<1>5. flock' = IF \E t \in Threads : ProcOf[t] = p /\ flock = t THEN None ELSE flock
  BY <1>1 DEF mine
<1>6. TypeOK'
  <2>1. mutex' \in [Procs -> Threads \cup {None}] /\ poisoned' \subseteq Procs
    BY <1>1 DEF TypeOK
  <2>2. flock' \in Threads \cup {None}
    BY <1>1 DEF TypeOK
  <2>3. faults' \in 0..MaxFaults /\ crashes' \in 0..MaxCrashes
    BY <1>1, ContributionAssumption DEF TypeOK
  <2>4. depth' \in [Threads -> 0..MaxDepth]
    BY <1>1, ContributionAssumption DEF TypeOK
  <2>5. /\ cur' \in [Threads -> Txns \cup {None}]
        /\ roots' \in [Threads -> SUBSET Objects] /\ gone' \in [Threads -> SUBSET Objects]
        /\ todo' \in [Threads -> SUBSET Objects]
        /\ hole' \in [Threads -> Objects \cup {None}]
        /\ seen' \in [Threads -> SUBSET Txns]
    BY <1>1 DEF TypeOK
  <2>6. pc' \in [Threads -> {"out", "mutexed", "recovering", "in", "backing",
                             "open", "applied", "recorded", "committed",
                             "undoing", "restoring", "leaving"}]
    BY <1>1 DEF TypeOK
  <2> QED BY <1>3, <2>1, <2>2, <2>3, <2>4, <2>5, <2>6 DEF TypeOK, dataVars
<1> QED BY <1>3, <1>4, <1>5, <1>6

\* A crash keeps what every thread knows, and the lock.
LEMMA CrashKnows ==
  ASSUME IInv, NEW p \in Procs, Crash(p)
  PROVE  /\ UNCHANGED dataVars /\ IInv'
         /\ \A t \in Threads : KnowsInv(t) => KnowsInv(t)'
<1>0. TypeOK /\ LockInv /\ EventInv
  BY DEF IInv
<1>1. /\ UNCHANGED dataVars /\ TypeOK'
      /\ \A t \in Threads :
           IF ProcOf[t] = p THEN pc'[t] = "out" /\ hole'[t] = None ELSE Own(t)' = Own(t)
      /\ flock' = IF \E t \in Threads : ProcOf[t] = p /\ flock = t THEN None ELSE flock
  BY <1>0, CrashEffect
<1>2. LockInv'
  <2>1. \A t \in Threads : IF ProcOf[t] = p THEN pc'[t] = "out" ELSE pc'[t] = pc[t]
    BY <1>1 DEF Own
  <2> QED BY <1>0, <1>1, <2>1, ContributionAssumption DEF LockInv, Inside
<1>3. EventInv'
  BY <1>0, <1>1, SamePhases DEF dataVars, Phase
<1>4. ASSUME NEW t \in Threads PROVE JobInv(t)' /\ (KnowsInv(t) => KnowsInv(t)')
  <2>1. CASE ProcOf[t] = p
    <3>1. pc'[t] = "out" /\ hole'[t] = None
      BY <1>1, <2>1
    <3> QED BY <3>1 DEF JobInv, KnowsInv, At, Restoring
  <2>2. CASE ProcOf[t] # p
    <3>1. /\ pc'[t] = pc[t] /\ cur'[t] = cur[t] /\ roots'[t] = roots[t]
          /\ gone'[t] = gone[t] /\ todo'[t] = todo[t] /\ hole'[t] = hole[t]
          /\ seen'[t] = seen[t] /\ JobInv(t)
      BY <1>1, <2>2 DEF Own, IInv
    <3>2. JobInv(t)'
      BY <1>1, <3>1 DEF dataVars, JobInv, At, Restoring, Phase, SameOnDisk, Complete
    <3>3. KnowsInv(t) => KnowsInv(t)'
      BY <1>1, <3>1 DEF dataVars, KnowsInv, At, Restoring, Phase, SameOnDisk, Clean
    <3> QED BY <3>2, <3>3
  <2> QED BY <2>1, <2>2
<1> QED BY <1>1, <1>2, <1>3, <1>4 DEF IInv

\* In the beginning no directory is there and nobody is inside.
LEMMA InitIInv == Init => IInv
<1> SUFFICES ASSUME Init PROVE IInv
  OBVIOUS
<1>1. TypeOK
  <2>1. dir \in [Txns -> Dirs]
    BY EmptyDirs DEF Init
  <2>2. live \in [Objects -> Values] /\ truth = live
    BY DEF Init, Values
  <2> QED BY <2>1, <2>2, ContributionAssumption DEF Init, TypeOK
<1>2. LockInv
  BY ContributionAssumption DEF Init, LockInv, Inside
<1>3. EventInv
  BY EmptyDirs DEF Init, EventInv, Phase
<1>4. \A t \in Threads : JobInv(t)
  BY DEF Init, JobInv, At, Restoring
<1> QED BY <1>1, <1>2, <1>3, <1>4 DEF IInv

\* Every step keeps the inductive invariant.
LEMMA NextIInv == IInv /\ [Next]_vars => IInv'
<1> SUFFICES ASSUME IInv, [Next]_vars PROVE IInv'
  OBVIOUS
<1>1. ASSUME NEW t \in Threads, ThreadStep(t) PROVE IInv'
  <2>1. \A u \in Threads : JobInv(u)'
    BY <1>1, JobStep, OthersKnow
  <2> QED BY <1>1, <2>1, ThreadTypes, LockKept, JobStep DEF IInv
<1>2. ASSUME NEW p \in Procs, Crash(p) PROVE IInv'
  BY <1>2, CrashKnows
<1>3. CASE UNCHANGED vars
  <2>1. UNCHANGED <<mutex, poisoned, flock, depth, pc, cur, roots, gone, todo, hole, seen,
                    dir, live, store, used, truth, done, faults, crashes>>
    BY <1>3 DEF vars, lockVars, jobVars, dataVars
  <2>2. TypeOK'
    BY <2>1 DEF IInv, TypeOK
  <2>3. LockInv' /\ EventInv'
    BY <2>1 DEF IInv, LockInv, EventInv, Inside, Phase
  <2>4. \A t \in Threads : JobInv(t)'
    BY <2>1 DEF IInv, JobInv, At, Restoring, Phase, SameOnDisk, Complete
  <2> QED BY <2>2, <2>3, <2>4 DEF IInv
<1> QED BY <1>1, <1>2, <1>3 DEF Next

\* The inductive invariant holds throughout, whatever fails or crashes.
THEOREM Inductive == Spec => []IInv
<1> QED BY InitIInv, NextIInv, PTL DEF Spec

\* The state of the lock, of the threads and of the workspace has its types:
\* above all a thread that runs or rolls back a transaction names one, and
\* every backup it puts back is there.
THEOREM TypeCorrect == Spec => []TypeOK
<1>1. IInv => TypeOK
  BY DEF IInv
<1> QED BY <1>1, Inductive, PTL

\* One thread at a time is inside the lock, over all processes (WorkspaceLock,
\* acquire and Drop): the lock on the file names it.
THEOREM OneWriterHolds == Spec => []OneWriter
<1>1. IInv => OneWriter
  BY DEF IInv, LockInv, OneWriter
<1> QED BY <1>1, Inductive, PTL

\* No event is on record for a change that was or can still be rolled back, even
\* with the failures the code is not ready for (commit and recover_pending).
THEOREM NoEventWithoutChangeHolds == Spec => []NoEventWithoutChange
<1>1. IInv => NoEventWithoutChange
  BY DEF IInv, EventInv, NoEventWithoutChange, Phase, TypeOK
<1> QED BY <1>1, Inductive, PTL

-----------------------------------------------------------------------------
(* The objects, where failures are only those the code is ready for.       *)

\* Data that stays is as true as it was.
LEMMA SameData ==
  ASSUME DiskInv, UNCHANGED dataVars
  PROVE  DiskInv'
BY DEF DiskInv, Whole, Phase, dataVars

\* A directory that is not prepared, and does not become it, decides nothing.
LEMMA OtherDirectory ==
  ASSUME TypeOK, DiskInv, NEW x \in Txns, UNCHANGED <<live, truth, done>>,
         store \subseteq store',
         \A y \in Txns : y # x => dir'[y] = dir[y],
         Phase(x) # "prepared", Phase(x)' # "prepared",
         x \in done \ store' => Phase(x)' = "applied"
  PROVE  DiskInv'
<1>1. \A y \in Txns : y # x => Phase(y)' = Phase(y)
  BY DEF Phase
<1>2. ASSUME NEW y \in Txns PROVE Whole(y)'
  <2>1. CASE y = x
    BY <2>1 DEF Whole
  <2>2. CASE y # x
    BY <2>2 DEF DiskInv, Whole, Phase
  <2> QED BY <2>1, <2>2
<1>3. \A y, z \in Txns : Phase(y)' = "prepared" /\ Phase(z)' = "prepared" => y = z
  BY <1>1 DEF DiskInv
<1>4. (\A y \in Txns : Phase(y)' # "prepared") => live' = truth'
  BY <1>1 DEF DiskInv
<1>5. \A y \in done' \ store' : Phase(y)' = "applied"
  <2>1. ASSUME NEW y \in done' \ store' PROVE Phase(y)' = "applied"
    <3>1. CASE y = x
      BY <2>1, <3>1
    <3>2. CASE y # x
      <4>1. y \in done \ store /\ Phase(y) = "applied"
        BY <2>1 DEF DiskInv
      <4>2. dir'[y] = dir[y]
        BY <3>2, <4>1 DEF TypeOK
      <4> QED BY <4>1, <4>2 DEF Phase
    <3> QED BY <3>1, <3>2
  <2> QED BY <2>1
<1> QED BY <1>2, <1>3, <1>4, <1>5 DEF DiskInv

\* Directories that need nothing stay so while another one changes.
LEMMA StaysClean ==
  ASSUME NEW x \in Txns, store \subseteq store',
         \A y \in Txns : y # x => dir'[y] = dir[y]
  PROVE  \A y \in Txns : y # x /\ Clean(y) => Clean(y)'
BY DEF Clean, Phase

\* Whoever leaves, or comes to the lock, knows nothing of the directories.
LEMMA NothingKnown ==
  ASSUME NEW t \in Threads, pc'[t] \in {"out", "mutexed", "leaving"}
  PROVE  KnowsInv(t)'
BY DEF KnowsInv, At, Restoring

\* A rollback begins from a prepared directory.
LEMMA UndoKnows ==
  ASSUME TypeOK, NEW t \in Threads, Undo(t, roots[t], gone[t]), UNCHANGED dir,
         Phase(cur[t]) = "prepared", SameOnDisk(t)
  PROVE  KnowsInv(t)'
<1>1. roots[t] \in SUBSET Objects /\ gone[t] \in SUBSET Objects
  BY DEF TypeOK
<1>2. CASE pc'[t] = "leaving"
  BY <1>2, NothingKnown
<1>3. CASE /\ pc'[t] = "undoing" /\ cur'[t] = cur[t]
           /\ roots'[t] = roots[t] /\ gone'[t] = gone[t] /\ todo'[t] = roots[t]
  BY <1>3 DEF KnowsInv, At, Restoring, Phase, SameOnDisk
<1> QED BY <1>1, <1>2, <1>3, UndoBegins

\* The steps of acquire and release keep the truth.
LEMMA TruthOfLock ==
  ASSUME Breaks = {}, IInv, TruthInv, NEW t \in Threads,
         Acquire(t) \/ AcquireFails(t) \/ Nest(t) \/ Unnest(t) \/ Release(t)
  PROVE  DiskInv' /\ KnowsInv(t)'
<1> USE DEF lockVars, jobVars, At, Restoring
<1>0. TypeOK /\ EventInv /\ JobInv(t) /\ DiskInv /\ KnowsInv(t)
  BY DEF IInv, TruthInv
<1>1. CASE Lock(t) \/ LockFile(t)
  <2>1. UNCHANGED dataVars
    BY <1>1 DEF Lock, LockFile
  <2>2. pc'[t] = "mutexed" \/ (pc'[t] = "recovering" /\ seen'[t] = {})
    BY <1>0, <1>1 DEF TypeOK, Lock, LockFile, Goto
  <2> QED BY <1>0, <2>1, <2>2, SameData DEF KnowsInv
<1>2. CASE RecoverDone(t)
  <2>1. /\ UNCHANGED dataVars /\ pc'[t] = "in" /\ pc[t] = "recovering"
        /\ \A x \in Txns : Phase(x) = "removed" \/ x \in seen[t]
    BY <1>0, <1>2 DEF TypeOK, RecoverDone, Goto, Phase
  <2>2. \A x \in Txns : Clean(x)
    BY <1>0, <2>1 DEF KnowsInv, Clean
  <2>3. \A x \in Txns : Clean(x)'
    BY <2>1, <2>2 DEF Clean, Phase, dataVars
  <2> QED BY <1>0, <2>1, <2>3, SameData DEF KnowsInv
<1>3. ASSUME NEW x \in Txns, RecoverDiscard(t, x) PROVE DiskInv' /\ KnowsInv(t)'
  <2>1. /\ Delete(x) /\ Phase(x) \in {"bare", "backingUp", "committed"}
        /\ UNCHANGED <<live, truth, done, store, used, pc>>
        /\ seen'[t] = seen[t] \cup {x} /\ pc[t] = "recovering"
    BY <1>0, <1>3 DEF TypeOK, RecoverDiscard, Recovers, Phase, See
  <2>2. /\ \A y \in Txns : y # x => dir'[y] = dir[y]
        /\ Phase(x)' \in {"removed", "bare", Phase(x)}
    BY <1>0, <2>1, DeleteDir DEF Phase
  <2>3. DiskInv'
    <3>1. x \notin done \ store'
      BY <1>0, <2>1 DEF DiskInv
    <3> QED BY <1>0, <2>1, <2>2, <3>1, OtherDirectory
  <2>4. \A y \in seen'[t] : Clean(y)'
    <3>1. Clean(x)'
      BY <2>1, <2>2 DEF Clean
    <3>2. \A y \in seen[t] : y \in Txns /\ Clean(y)
      BY <1>0, <2>1 DEF KnowsInv, TypeOK
    <3> QED BY <2>1, <2>2, <3>1, <3>2, StaysClean
  <2> QED BY <2>1, <2>3, <2>4 DEF KnowsInv
<1>4. ASSUME NEW x \in Txns, RecoverApplied(t, x) PROVE DiskInv' /\ KnowsInv(t)'
  <2>1. /\ Delete(x) /\ Phase(x) = "applied" /\ UNCHANGED <<live, truth, done, used, pc>>
        /\ store' = store \cup {x}
        /\ seen'[t] = seen[t] \cup {x} /\ pc[t] = "recovering"
    BY <1>0, <1>4 DEF TypeOK, RecoverApplied, Recovers, Phase, See
  <2>2. /\ \A y \in Txns : y # x => dir'[y] = dir[y]
        /\ Phase(x)' \in {"removed", "bare", Phase(x)}
    BY <1>0, <2>1, DeleteDir DEF Phase
  <2>3. DiskInv'
    BY <1>0, <2>1, <2>2, OtherDirectory
  <2>4. \A y \in seen'[t] : Clean(y)'
    <3>1. Clean(x)'
      BY <2>1, <2>2 DEF Clean
    <3>2. \A y \in seen[t] : y \in Txns /\ Clean(y)
      BY <1>0, <2>1 DEF KnowsInv, TypeOK
    <3> QED BY <2>1, <2>2, <3>1, <3>2, StaysClean
  <2> QED BY <2>1, <2>3, <2>4 DEF KnowsInv
<1>5. ASSUME NEW x \in Txns, RecoverPrepared(t, x) PROVE DiskInv' /\ KnowsInv(t)'
  <2>1. UNCHANGED dataVars /\ pc[t] = "recovering" /\ Phase(x) = "prepared"
    BY <1>5 DEF RecoverPrepared, Recovers, Phase
  <2>2. CASE Unlock(t)
    <3>1. pc'[t] = "out"
      BY <1>0, <2>2 DEF TypeOK, Unlock, Goto
    <3> QED BY <1>0, <2>1, <3>1, SameData, NothingKnown
  <2>3. CASE ~Unlock(t)
    <3>1. /\ pc'[t] = "restoring" /\ cur'[t] = x /\ roots'[t] = dir[x].roots
          /\ gone'[t] = dir[x].gone /\ todo'[t] = dir[x].roots
          /\ seen'[t] = seen[t] \cup {x}
      BY <1>0, <1>5, <2>3 DEF TypeOK, RecoverPrepared, Goto, See
    <3>2. \A y \in seen'[t] \ {cur'[t]} : Clean(y)'
      <4>1. ASSUME NEW y \in seen[t] PROVE Clean(y)'
        BY <1>0, <2>1 DEF KnowsInv, Clean, Phase, dataVars
      <4> QED BY <3>1, <4>1
    <3>3. KnowsInv(t)'
      BY <2>1, <3>1, <3>2 DEF KnowsInv, Phase, SameOnDisk, dataVars
    <3> QED BY <1>0, <2>1, <3>3, SameData
  <2> QED BY <2>2, <2>3
<1>6. CASE AcquireFails(t) \/ Release(t)
  <2>1. UNCHANGED dataVars /\ pc'[t] = "out"
    BY <1>0, <1>6 DEF TypeOK, AcquireFails, Release, Unlock, Goto
  <2> QED BY <1>0, <2>1, SameData, NothingKnown
<1>7. CASE Nest(t) \/ Unnest(t)
  <2>1. UNCHANGED dataVars /\ UNCHANGED <<pc, jobVars>> /\ pc[t] \in {"in", "leaving"}
    BY <1>7 DEF Nest, Unnest
  <2> QED BY <1>0, <2>1, SameData DEF KnowsInv, Clean, Phase, dataVars
<1> QED BY <1>1, <1>2, <1>3, <1>4, <1>5, <1>6, <1>7 DEF Acquire

\* A rollback brings the objects back to the truth.
LEMMA TruthOfRestore ==
  ASSUME Breaks = {}, IInv, TruthInv, NEW t \in Threads, Restore(t) \/ RestoreFails(t)
  PROVE  DiskInv' /\ KnowsInv(t)'
<1> USE DEF lockVars, jobVars, At, Restoring
<1>0. TypeOK /\ EventInv /\ JobInv(t) /\ DiskInv /\ KnowsInv(t)
  BY DEF IInv, TruthInv
<1>1. CASE RestoreFails(t)
  <2>1. UNCHANGED dataVars /\ (Fail(t) \/ Unlock(t))
    BY <1>1 DEF RestoreFails
  <2> QED BY <1>0, <2>1, ExitIsIdle, SameData, NothingKnown
<1>2. CASE ~RestoreFails(t)
  <2>0. Restoring(t)
    BY <1>2 DEF Restore, RestoreCopy, RestoreDone, RestoreRemove
  <2>x. PICK x \in Txns : x = cur[t]
    BY <1>0, <2>0 DEF JobInv
  <2>1. /\ x = cur[t] /\ Phase(x) = "prepared" /\ todo[t] \subseteq roots[t]
        /\ roots[t] = dir[x].roots /\ gone[t] = dir[x].gone
        /\ \A o \in roots[t] \ todo[t] : live[o] = truth[o]
        /\ hole[t] # None => hole[t] \in todo[t] \ gone[t]
    BY <1>0, <2>0, <2>x DEF JobInv, KnowsInv, SameOnDisk
  <2>2. /\ roots[t] \subseteq Objects /\ gone[t] \subseteq roots[t]
        /\ \A o \in Objects : /\ o \notin roots[t] => live[o] = truth[o]
                              /\ o \in gone[t] => truth[o] = Absent
                              /\ o \in roots[t] \ gone[t] => dir[x].copy[o] = truth[o]
    BY <1>0, <2>1 DEF DiskInv, Whole, TypeOK
  <2>3. live \in [Objects -> Values] /\ truth \in [Objects -> Values]
    BY <1>0 DEF TypeOK
  <2>4. ASSUME NEW o \in todo[t], NEW v, NEW rest, rest = todo[t] \/ rest = todo[t] \ {o},
               rest = todo[t] \ {o} => v = truth[o],
               live' = [live EXCEPT ![o] = v], todo'[t] = rest,
               UNCHANGED <<dir, truth, store, done, used, pc, cur, roots, gone, seen>>
        PROVE  DiskInv' /\ KnowsInv(t)'
    <3>1. /\ live'[o] = v /\ \A q \in Objects : q # o => live'[q] = live[q]
          /\ o \in roots[t]
      BY <2>1, <2>2, <2>3, <2>4
    <3>2. ASSUME NEW y \in Txns PROVE Whole(y)'
      <4>1. CASE y = x
        BY <2>1, <2>2, <2>4, <3>1, <4>1 DEF Whole, Phase
      <4>2. CASE y # x
        <5>1. Phase(y) # "prepared"
          BY <1>0, <2>1, <4>2 DEF DiskInv
        <5> QED BY <2>4, <5>1 DEF Whole, Phase
      <4> QED BY <4>1, <4>2
    <3>3. DiskInv'
      BY <1>0, <2>1, <2>4, <3>2 DEF DiskInv, Phase
    <3>4. \A q \in roots[t] \ rest : live'[q] = truth[q]
      BY <2>1, <2>2, <2>4, <3>1
    <3>5. KnowsInv(t)'
      BY <1>0, <2>0, <2>1, <2>4, <3>4 DEF KnowsInv, Phase, SameOnDisk, Clean
    <3> QED BY <3>3, <3>5
  <2>5. ASSUME NEW o \in Objects, RestoreRemove(t, o) PROVE DiskInv' /\ KnowsInv(t)'
    <3>1. /\ o \in todo[t] /\ live' = [live EXCEPT ![o] = Absent]
          /\ todo'[t] = IF o \in gone[t] THEN todo[t] \ {o} ELSE todo[t]
          /\ UNCHANGED <<dir, truth, store, done, used, pc, cur, roots, gone, seen>>
      BY <1>0, <2>5 DEF TypeOK, RestoreRemove
    <3>2. CASE o \in gone[t]
      BY <2>2, <2>4, <3>1, <3>2
    <3>3. CASE o \notin gone[t]
      BY <2>4, <3>1, <3>3
    <3> QED BY <3>2, <3>3
  <2>6. CASE RestoreCopy(t)
    <3>1. /\ hole[t] \in todo[t] \ gone[t] /\ todo'[t] = todo[t] \ {hole[t]}
          /\ live' = [live EXCEPT ![hole[t]] = dir[x].copy[hole[t]]]
          /\ UNCHANGED <<dir, truth, store, done, used, pc, cur, roots, gone, seen>>
      BY <1>0, <2>1, <2>6 DEF TypeOK, RestoreCopy
    <3>2. dir[x].copy[hole[t]] = truth[hole[t]]
      BY <2>1, <2>2, <3>1
    <3> QED BY <2>4, <3>1, <3>2
  <2>7. CASE RestoreDone(t)
    <3>1. /\ todo[t] = {} /\ Delete(x) /\ UNCHANGED <<live, truth, store, done, used, seen>>
          /\ pc'[t] = IF pc[t] = "undoing" THEN "leaving" ELSE "recovering"
      BY <1>0, <2>1, <2>7 DEF TypeOK, RestoreDone, Goto
    <3>2. /\ \A y \in Txns : y # x => dir'[y] = dir[y]
          /\ Phase(x)' \in {"removed", "bare"}
      BY <1>0, <2>1, <3>1, DeleteDir DEF Phase
    <3>3. live = truth
      BY <2>1, <2>2, <2>3, <3>1
    <3>4. \A y \in Txns : Phase(y)' # "prepared"
      <4>1. ASSUME NEW y \in Txns, y # x PROVE Phase(y)' # "prepared"
        BY <1>0, <2>1, <3>2, <4>1 DEF DiskInv, Phase
      <4> QED BY <3>2, <4>1
    <3>5. \A y \in done' \ store' : Phase(y)' = "applied"
      <4>1. ASSUME NEW y \in done \ store PROVE Phase(y)' = "applied"
        BY <1>0, <2>1, <3>2 DEF DiskInv, Phase, TypeOK
      <4> QED BY <3>1, <4>1
    <3>6. DiskInv'
      BY <3>1, <3>3, <3>4, <3>5 DEF DiskInv, Whole
    <3>7. CASE pc[t] = "undoing"
      BY <3>1, <3>6, <3>7, NothingKnown
    <3>8. CASE pc[t] = "restoring"
      <4>1. ASSUME NEW y \in seen[t] PROVE Clean(y)'
        <5>1. CASE y = x
          BY <3>2, <5>1 DEF Clean
        <5>2. CASE y # x
          BY <1>0, <2>1, <3>1, <3>2, <3>8, <5>2 DEF KnowsInv, Clean, Phase, TypeOK
        <5> QED BY <5>1, <5>2
      <4> QED BY <3>1, <3>6, <3>8, <4>1 DEF KnowsInv
    <3> QED BY <2>0, <3>7, <3>8
  <2> QED BY <1>2, <2>5, <2>6, <2>7 DEF Restore
<1> QED BY <1>1, <1>2

\* From the manifest of an applied transaction to its removal.
LEMMA TruthOfCommit ==
  ASSUME Breaks = {}, IInv, TruthInv, NEW t \in Threads, Commit(t)
  PROVE  DiskInv' /\ KnowsInv(t)'
<1> USE DEF lockVars, jobVars, At, Restoring
<1>0. TypeOK /\ EventInv /\ JobInv(t) /\ DiskInv /\ KnowsInv(t)
  BY DEF IInv, TruthInv
<1>x. PICK x \in Txns : x = cur[t]
  BY <1>0 DEF JobInv, Commit, WriteApplied, Record, MarkCommitted, RemoveDir
<1>1. CASE WriteApplied(t)
  <2>1. /\ Phase(x) = "prepared" /\ SameOnDisk(t) /\ Complete(x, roots[t], gone[t])
        /\ pc[t] = "open" /\ \A y \in Txns \ {x} : Clean(y)
    BY <1>0, <1>1, <1>x DEF WriteApplied, JobInv, KnowsInv
  <2>2. CASE UNCHANGED <<dir, truth, done>> /\ Undo(t, roots[t], gone[t])
    <3>1. UNCHANGED dataVars
      BY <1>1, <2>2 DEF WriteApplied, dataVars
    <3> QED BY <1>0, <1>x, <2>1, <2>2, <3>1, SameData, UndoKnows
  <2>3. CASE ~(UNCHANGED <<dir, truth, done>> /\ Undo(t, roots[t], gone[t]))
    <3>1. /\ dir' = [dir EXCEPT ![x].phase = "applied"] /\ truth' = live
          /\ done' = done \cup {x} /\ UNCHANGED <<live, store, cur>> /\ pc'[t] = "applied"
      BY <1>0, <1>1, <1>x, <2>3 DEF TypeOK, WriteApplied, Goto
    <3>2. /\ \A y \in Txns : y # x => dir'[y] = dir[y]
          /\ Phase(x)' = "applied"
      BY <1>0, <3>1, PhaseUpdate DEF Phases, Phase
    <3>3. \A y \in Txns \ {x} : Clean(y)'
      BY <2>1, <3>1, <3>2, StaysClean
    <3>4. \A y \in Txns : Phase(y)' # "prepared"
      BY <3>2, <3>3 DEF Clean
    <3>5. \A y \in done' \ store' : Phase(y)' = "applied"
      <4>1. ASSUME NEW y \in done, y \notin store PROVE Phase(y)' = "applied"
        BY <1>0, <3>2, <4>1 DEF DiskInv, Phase, TypeOK
      <4> QED BY <3>1, <3>2, <4>1
    <3>6. DiskInv'
      BY <3>1, <3>4, <3>5 DEF DiskInv, Whole
    <3> QED BY <1>x, <3>1, <3>3, <3>6 DEF KnowsInv
  <2> QED BY <2>2, <2>3
<1>2. CASE Record(t)
  <2>1. Phase(x) = "applied" /\ pc[t] = "applied" /\ \A y \in Txns \ {x} : Clean(y)
    BY <1>0, <1>2, <1>x DEF Record, JobInv, KnowsInv
  <2>2. CASE UNCHANGED store
    <3>1. UNCHANGED dataVars
      BY <1>2, <2>2 DEF Record, dataVars
    <3>2. CASE Fail(t)
      BY <1>0, <3>1, <3>2, SameData, ExitIsIdle, NothingKnown
    <3>3. CASE ~Fail(t)
      <4>1. x \in store /\ pc'[t] = "recorded"
        BY <1>0, <1>2, <1>x, <2>2, <3>3 DEF TypeOK, Record, Goto
      <4>2. \A y \in Txns : Clean(y)'
        BY <2>1, <3>1, <4>1 DEF Clean, Phase, dataVars
      <4> QED BY <1>0, <3>1, <4>1, <4>2, SameData DEF KnowsInv
    <3> QED BY <3>2, <3>3
  <2>3. CASE store' # store
    <3>1. /\ store' = store \cup {x} /\ UNCHANGED <<dir, live, truth, done>>
          /\ pc'[t] = "recorded"
      BY <1>0, <1>2, <1>x, <2>3 DEF TypeOK, Record, Goto
    <3>2. \A y \in Txns : Clean(y)'
      BY <2>1, <3>1 DEF Clean, Phase
    <3>3. DiskInv'
      <4>1. Phase(x)' = "applied" /\ store \subseteq store'
        BY <2>1, <3>1 DEF Phase
      <4> QED BY <1>0, <2>1, <3>1, <4>1, OtherDirectory
    <3> QED BY <3>1, <3>2, <3>3 DEF KnowsInv
  <2> QED BY <2>2, <2>3
<1>3. CASE MarkCommitted(t)
  <2>1. Phase(x) = "applied" /\ x \in store /\ \A y \in Txns : Clean(y)
    BY <1>0, <1>3, <1>x DEF MarkCommitted, JobInv, KnowsInv
  <2>2. CASE UNCHANGED dir /\ Fail(t)
    <3>1. UNCHANGED dataVars
      BY <1>3, <2>2 DEF MarkCommitted, dataVars
    <3> QED BY <1>0, <2>2, <3>1, SameData, ExitIsIdle, NothingKnown
  <2>3. CASE ~(UNCHANGED dir /\ Fail(t))
    <3>1. /\ dir' = [dir EXCEPT ![x].phase = "committed"]
          /\ UNCHANGED <<live, truth, done, store>> /\ pc'[t] = "committed"
      BY <1>0, <1>3, <1>x, <2>3 DEF TypeOK, MarkCommitted, Goto
    <3>2. /\ \A y \in Txns : y # x => dir'[y] = dir[y]
          /\ Phase(x)' = "committed"
      BY <1>0, <3>1, PhaseUpdate DEF Phases, Phase
    <3>3. \A y \in Txns : Clean(y)'
      <4>1. Clean(x)'
        BY <3>2 DEF Clean
      <4> QED BY <2>1, <3>1, <3>2, <4>1, StaysClean
    <3>4. DiskInv'
      BY <1>0, <2>1, <3>1, <3>2, OtherDirectory
    <3> QED BY <3>1, <3>3, <3>4 DEF KnowsInv
  <2> QED BY <2>2, <2>3
<1>4. CASE RemoveDir(t)
  <2>1. Phase(x) = "committed" /\ x \in store /\ \A y \in Txns : Clean(y)
    BY <1>0, <1>4, <1>x DEF RemoveDir, JobInv, KnowsInv, EventInv
  <2>2. Delete(x) /\ UNCHANGED <<live, truth, done, store>> /\ pc'[t] = "in"
    BY <1>0, <1>4, <1>x DEF TypeOK, RemoveDir, Goto
  <2>3. /\ \A y \in Txns : y # x => dir'[y] = dir[y]
        /\ Phase(x)' \in {"removed", "bare", "committed"}
    BY <1>0, <2>1, <2>2, DeleteDir DEF Phase
  <2>4. \A y \in Txns : Clean(y)'
    <3>1. Clean(x)'
      BY <2>3 DEF Clean
    <3> QED BY <2>1, <2>2, <2>3, <3>1, StaysClean
  <2>5. DiskInv'
    BY <1>0, <2>1, <2>2, <2>3, OtherDirectory
  <2> QED BY <2>2, <2>4, <2>5 DEF KnowsInv
<1> QED BY <1>1, <1>2, <1>3, <1>4 DEF Commit

\* Backups are taken of the truth.
LEMMA TruthOfPrepare ==
  ASSUME Breaks = {}, IInv, TruthInv, NEW t \in Threads, Prepare(t)
  PROVE  DiskInv' /\ KnowsInv(t)'
<1> USE DEF lockVars, jobVars, At, Restoring
<1>0. TypeOK /\ EventInv /\ JobInv(t) /\ DiskInv /\ KnowsInv(t)
  BY DEF IInv, TruthInv
<1>p. pc[t] = "backing"
  BY DEF Prepare, MarkPrepared, CopyBackup
<1>x. PICK x \in Txns : x = cur[t]
  BY <1>0, <1>p DEF JobInv
<1>b. /\ Phase(x) = "backingUp" /\ roots[t] = dir[x].roots /\ gone[t] = dir[x].gone
      /\ \A y \in Txns : Clean(y)
      /\ gone[t] \subseteq roots[t] /\ roots[t] \subseteq Objects
      /\ \A o \in roots[t] : IF o \in gone[t] THEN live[o] = Absent
                             ELSE dir[x].copy[o] \in {None, live[o]}
  BY <1>0, <1>p, <1>x DEF JobInv, KnowsInv, SameOnDisk, TypeOK
<1>l. live = truth
  BY <1>0, <1>b DEF DiskInv, Clean
<1>1. CASE MarkPrepared(t)
  <2>1. /\ dir' = [dir EXCEPT ![x].phase = "prepared"] /\ pc'[t] = "open"
        /\ UNCHANGED <<live, truth, done, store, cur>>
        /\ \A o \in roots[t] \ gone[t] : dir[x].copy[o] # None
    BY <1>0, <1>1, <1>x DEF TypeOK, MarkPrepared, Goto
  <2>2. /\ \A y \in Txns : y # x => dir'[y] = dir[y]
        /\ Phase(x)' = "prepared" /\ dir'[x].roots = roots[t] /\ dir'[x].gone = gone[t]
        /\ dir'[x].copy = dir[x].copy
    BY <1>0, <1>b, <2>1, PhaseUpdate DEF Phases, Phase
  <2>3. \A y \in Txns \ {x} : Clean(y)'
    BY <1>b, <2>1, <2>2, StaysClean
  <2>4. ASSUME NEW y \in Txns PROVE Whole(y)'
    <3>1. CASE y = x
      BY <1>b, <1>l, <2>1, <2>2, <3>1 DEF Whole
    <3>2. CASE y # x
      BY <2>3, <3>2 DEF Clean, Whole
    <3> QED BY <3>1, <3>2
  <2>5. DiskInv'
    <3>1. ASSUME NEW y \in Txns, Phase(y)' = "prepared" PROVE y = x
      BY <2>3, <3>1 DEF Clean
    <3>2. ASSUME NEW y \in done' \ store' PROVE Phase(y)' = "applied"
      <4>1. y \in done \ store /\ Phase(y) = "applied" /\ y \in Txns
        BY <1>0, <2>1, <3>2 DEF DiskInv, TypeOK
      <4> QED BY <1>b, <2>2, <4>1 DEF Phase
    <3> QED BY <2>2, <2>4, <3>1, <3>2 DEF DiskInv
  <2> QED BY <1>x, <2>1, <2>3, <2>5 DEF KnowsInv
<1>2. ASSUME NEW o \in Objects, CopyBackup(t, o) PROVE DiskInv' /\ KnowsInv(t)'
  <2>1. CASE UNCHANGED dir /\ Fail(t)
    <3>1. UNCHANGED dataVars
      BY <1>2, <2>1 DEF CopyBackup, dataVars
    <3> QED BY <1>0, <2>1, <3>1, SameData, ExitIsIdle, NothingKnown
  <2>2. CASE ~(UNCHANGED dir /\ Fail(t))
    <3>1. /\ dir' = [dir EXCEPT ![x].copy[o] = live[o]] /\ o \in roots[t] \ gone[t]
          /\ UNCHANGED <<live, truth, done, store, pc, cur, roots, gone>>
      BY <1>2, <1>x, <2>2 DEF CopyBackup
    <3>2. /\ \A y \in Txns : y # x => dir'[y] = dir[y]
          /\ Phase(x)' = "backingUp" /\ dir'[x].copy = [dir[x].copy EXCEPT ![o] = live[o]]
      BY <1>0, <1>b, <3>1, BackupUpdate DEF Phase
    <3>3. \A y \in Txns : Clean(y)'
      <4>1. Clean(x)'
        BY <3>2 DEF Clean
      <4> QED BY <1>b, <3>1, <3>2, <4>1, StaysClean
    <3>4. DiskInv'
      <4>1. x \notin done
        BY <1>0, <1>b DEF EventInv
      <4> QED BY <1>0, <1>b, <3>1, <3>2, <4>1, OtherDirectory
    <3>5. \A q \in roots[t] : IF q \in gone[t] THEN live[q] = Absent
                              ELSE dir'[x].copy[q] \in {None, live[q]}
      <4>1. dir[x].copy \in [Objects -> Values \cup {None}]
        BY <1>0, DirFields DEF TypeOK
      <4> QED BY <1>b, <3>2, <4>1
    <3> QED BY <1>b, <1>p, <1>x, <3>1, <3>3, <3>4, <3>5 DEF KnowsInv
  <2> QED BY <2>1, <2>2
<1> QED BY <1>1, <1>2 DEF Prepare

\* A transaction begins, registers and changes objects; a panic or an error ends it.
LEMMA TruthOfWork ==
  ASSUME Breaks = {}, IInv, TruthInv, NEW t \in Threads,
         Work(t) \/ Panic(t) \/ Abort(t)
  PROVE  DiskInv' /\ KnowsInv(t)'
<1> USE DEF lockVars, jobVars, At, Restoring
<1>0. TypeOK /\ EventInv /\ JobInv(t) /\ DiskInv /\ KnowsInv(t)
  BY DEF IInv, TruthInv
<1>1. CASE Nest(t)
  BY <1>1, TruthOfLock
<1>2. ASSUME NEW x \in Txns, NEW R \in RootSets, Begin(t, x, R)
      PROVE  DiskInv' /\ KnowsInv(t)'
  <2> DEFINE G == {o \in R : live[o] = Absent}
             d == [Removed EXCEPT !.phase = "backingUp", !.roots = R, !.gone = G]
  <2>0. /\ x \notin used /\ UNCHANGED <<live, truth, store, done>> /\ pc[t] = "in"
        /\ Phase(x) = "removed" /\ x \notin done /\ R \subseteq Objects
        /\ \A y \in Txns : Clean(y)
    BY <1>0, <1>2, ContributionAssumption DEF Begin, EventInv, KnowsInv
  <2>1. d.phase = "backingUp" /\ \A o \in Objects : d.copy[o] = None
    BY DEF Removed
  <2>g. G \subseteq R /\ \A o \in G : live[o] = Absent
    OBVIOUS
  <2> HIDE DEF d, G
  <2>2. ASSUME NEW e, dir' = [dir EXCEPT ![x] = e], e.phase \in {"bare", "backingUp"}
        PROVE  DiskInv' /\ dir'[x] = e /\ \A y \in Txns : Clean(y)'
    <3>1. dir'[x] = e /\ \A y \in Txns : y # x => dir'[y] = dir[y]
      BY <1>0, <2>2 DEF TypeOK
    <3>2. Phase(x)' \in {"bare", "backingUp"}
      BY <2>2, <3>1 DEF Phase
    <3>3. Clean(x)'
      BY <3>2 DEF Clean
    <3>4. DiskInv'
      BY <1>0, <2>0, <3>1, <3>2, OtherDirectory
    <3> QED BY <2>0, <3>1, <3>3, <3>4, StaysClean
  <2>3. CASE Fail(t) /\ dir' = [dir EXCEPT ![x] = Bare]
    BY <1>0, <2>2, <2>3, EmptyDirs, ExitIsIdle, NothingKnown
  <2>4. CASE ~(Fail(t) /\ dir' = [dir EXCEPT ![x] = Bare])
    <3>1. /\ dir' = [dir EXCEPT ![x] = d] /\ pc'[t] = "backing" /\ cur'[t] = x
          /\ roots'[t] = R /\ gone'[t] = G
      BY <1>0, <1>2, <2>4 DEF TypeOK, Begin, Goto, d, G
    <3>2. DiskInv' /\ dir'[x] = d /\ \A y \in Txns : Clean(y)'
      BY <2>1, <2>2, <3>1
    <3>3. \A o \in R : IF o \in G THEN live[o] = Absent
                       ELSE dir'[x].copy[o] \in {None, live[o]}
      BY <2>0, <2>1, <2>g, <3>2
    <3> QED BY <2>0, <2>g, <3>1, <3>2, <3>3 DEF KnowsInv
  <2> QED BY <2>3, <2>4
<1>3. CASE \/ Panic(t) \/ Abort(t)
           \/ \E o \in Objects : \/ Register(t, o)
                                 \/ \E v \in Txns \cup {Absent} : Change(t, o, v)
  <2>1. CASE Fail(t) /\ Panic(t)
    <3>1. UNCHANGED dataVars
      BY <2>1 DEF Panic
    <3> QED BY <1>0, <2>1, <3>1, SameData, ExitIsIdle, NothingKnown
  <2>2. CASE ~(Fail(t) /\ Panic(t))
    <3>p. pc[t] = "open"
      BY <1>3, <2>2 DEF Panic, Abort, Register, Change
    <3>x. PICK x \in Txns : x = cur[t]
      BY <1>0, <3>p DEF JobInv
    <3>b. /\ Phase(x) = "prepared" /\ SameOnDisk(t)
          /\ roots[t] = dir[x].roots /\ gone[t] = dir[x].gone
          /\ \A y \in Txns \ {x} : Clean(y)
      BY <1>0, <3>p, <3>x DEF JobInv, KnowsInv, SameOnDisk
    <3>w. /\ roots[t] \subseteq Objects /\ gone[t] \subseteq roots[t]
          /\ \A q \in Objects : /\ q \notin roots[t] => live[q] = truth[q]
                                /\ q \in gone[t] => truth[q] = Absent
                                /\ q \in roots[t] \ gone[t] => dir[x].copy[q] = truth[q]
      BY <1>0, <3>b DEF DiskInv, Whole, TypeOK
    <3>u. ASSUME UNCHANGED dataVars, Undo(t, roots[t], gone[t])
          PROVE  DiskInv' /\ KnowsInv(t)'
      <4>1. UNCHANGED dir
        BY <3>u DEF dataVars
      <4> QED BY <1>0, <3>u, <3>b, <3>x, <4>1, SameData, UndoKnows
    <3>d. ASSUME Whole(x)', \A y \in Txns : y # x => dir'[y] = dir[y],
                 Phase(x)' = "prepared", UNCHANGED <<truth, done, store, pc, cur>>
          PROVE  DiskInv' /\ KnowsInv(t)'
      <4>1. \A y \in Txns \ {x} : Clean(y)'
        BY <3>b, <3>d, StaysClean
      <4>2. \A y \in Txns : Phase(y)' = "prepared" => y = x
        BY <4>1 DEF Clean
      <4>3. \A y \in Txns : Whole(y)'
        BY <3>d, <4>2 DEF Whole
      <4>4. ASSUME NEW y \in done' \ store' PROVE Phase(y)' = "applied"
        <5>1. y \in done \ store /\ Phase(y) = "applied" /\ y \in Txns
          BY <1>0, <3>d, <4>4 DEF DiskInv, TypeOK
        <5> QED BY <3>b, <3>d, <5>1 DEF Phase
      <4>5. DiskInv'
        BY <3>d, <4>2, <4>3, <4>4 DEF DiskInv
      <4> QED BY <3>d, <3>p, <3>x, <4>1, <4>5 DEF KnowsInv
    <3>1. CASE Panic(t) \/ Abort(t)
      BY <2>2, <3>1, <3>p, <3>u DEF Panic, Abort, dataVars
    <3>2. ASSUME NEW o \in Objects, NEW v \in Txns \cup {Absent}, Change(t, o, v)
          PROVE  DiskInv' /\ KnowsInv(t)'
      <4>1. /\ o \in roots[t] /\ live' = [live EXCEPT ![o] = v]
            /\ UNCHANGED <<dir, truth, done, store, pc, cur>>
        BY <3>2 DEF Change
      <4>2. \A q \in Objects : q \notin roots[t] => live'[q] = live[q]
        BY <1>0, <4>1 DEF TypeOK
      <4>3. Whole(x)'
        BY <3>b, <3>w, <4>1, <4>2 DEF Whole
      <4> QED BY <3>b, <3>d, <4>1, <4>3 DEF Phase
    <3>3. ASSUME NEW o \in Objects, Register(t, o) PROVE DiskInv' /\ KnowsInv(t)'
      <4> DEFINE R == roots[t] \cup {o}
                 G == IF live[o] = Absent THEN gone[t] \cup {o} ELSE gone[t]
                 copied == IF live[o] = Absent THEN dir[x].copy
                           ELSE [dir[x].copy EXCEPT ![o] = live[o]]
      <4>1. CASE UNCHANGED dir /\ Undo(t, roots[t], gone[t])
        BY <3>3, <3>u, <4>1 DEF Register, dataVars
      <4>2. CASE ~(UNCHANGED dir /\ Undo(t, roots[t], gone[t]))
        <5>1. /\ dir' = [dir EXCEPT ![x].copy = copied, ![x].roots = R, ![x].gone = G]
              /\ UNCHANGED <<live, truth, done, store, pc, cur>> /\ o \notin roots[t]
          BY <3>3, <3>x, <4>2 DEF Register
        <5>2. dir[x].copy \in [Objects -> Values \cup {None}] /\ live[o] \in Values
          BY <1>0, DirFields DEF TypeOK
        <5>3. /\ copied \in [Objects -> Values \cup {None}]
              /\ R \in SUBSET Objects /\ G \in SUBSET Objects /\ G \subseteq R
          BY <3>w, <5>2
        <5>4. /\ \A q \in Objects : q \notin R => live[q] = truth[q]
              /\ \A q \in Objects : q \in G => truth[q] = Absent
              /\ \A q \in Objects : q \in R \ G => copied[q] = truth[q]
          BY <3>w, <5>1, <5>2
        <5> HIDE DEF copied, R, G
        <5>5. /\ dir' \in [Txns -> Dirs]
              /\ \A y \in Txns : y # x => dir'[y] = dir[y]
              /\ dir'[x].phase = dir[x].phase /\ dir'[x].roots = R
              /\ dir'[x].gone = G /\ dir'[x].copy = copied
          <6>1. TypeOK /\ dir' = [dir EXCEPT ![x].copy = copied, ![x].roots = R,
                                             ![x].gone = G]
            BY <1>0, <5>1
          <6> QED BY ONLY <5>3, <6>1, RootsUpdate, Zenon
        <5>6. Whole(x)'
          BY <5>1, <5>3, <5>4, <5>5 DEF Whole
        <5> QED BY <3>b, <3>d, <5>1, <5>5, <5>6 DEF Phase
      <4> QED BY <4>1, <4>2
    <3> QED BY <1>3, <3>1, <3>2, <3>3
  <2> QED BY <2>1, <2>2
<1> QED BY <1>1, <1>2, <1>3 DEF Work

\* Every step keeps what the objects and the directories say of the truth.
LEMMA TruthStep ==
  ASSUME Breaks = {}
  PROVE  IInv /\ TruthInv /\ [Next]_vars => TruthInv'
<1> SUFFICES ASSUME IInv, TruthInv, [Next]_vars PROVE TruthInv'
  OBVIOUS
<1>1. ASSUME NEW t \in Threads, ThreadStep(t) PROVE TruthInv'
  <2>1. DiskInv' /\ KnowsInv(t)'
    BY <1>1, TruthOfLock, TruthOfRestore, TruthOfCommit, TruthOfPrepare, TruthOfWork
       DEF ThreadStep, Fails
  <2>2. \A u \in Threads : KnowsInv(u)'
    BY <1>1, <2>1, OthersKnow DEF TruthInv
  <2> QED BY <2>1, <2>2 DEF TruthInv
<1>2. ASSUME NEW p \in Procs, Crash(p) PROVE TruthInv'
  BY <1>2, CrashKnows, SameData DEF TruthInv
<1>3. CASE UNCHANGED vars
  <2>1. UNCHANGED dataVars
        /\ UNCHANGED <<pc, cur, roots, gone, todo, hole, seen, dir, live, store, truth>>
    BY <1>3 DEF vars, jobVars, dataVars
  <2>2. \A t \in Threads : KnowsInv(t)'
    BY <2>1 DEF TruthInv, KnowsInv, At, Restoring, Phase, SameOnDisk, Clean
  <2> QED BY <2>1, <2>2, SameData DEF TruthInv
<1> QED BY <1>1, <1>2, <1>3 DEF Next

\* Whoever has come through acquire finds the objects as the applied operations
\* left them and all their events recorded (acquire, recover_pending and the
\* phases of the manifest), for any number of failures and crashes of the kinds
\* the code is ready for.
THEOREM HolderSeesTruthHolds ==
  ASSUME Breaks = {}
  PROVE  Spec => []HolderSeesTruth
<1>1. Init => TruthInv
  <2> SUFFICES ASSUME Init PROVE TruthInv
    OBVIOUS
  <2>1. \A x \in Txns : Phase(x) = "removed"
    BY EmptyDirs DEF Init, Phase
  <2>2. DiskInv
    BY <2>1 DEF Init, DiskInv, Whole
  <2>3. \A t \in Threads : KnowsInv(t)
    BY DEF Init, KnowsInv, At, Restoring
  <2> QED BY <2>2, <2>3 DEF TruthInv
<1>2. IInv /\ TruthInv /\ [Next]_vars => TruthInv'
  BY TruthStep
<1>3. IInv /\ TruthInv => HolderSeesTruth
  <2> SUFFICES ASSUME IInv, TruthInv, NEW t \in Threads, At(t, "in") PROVE Settled
    BY DEF HolderSeesTruth
  <2>1. \A x \in Txns : Clean(x)
    BY DEF TruthInv, KnowsInv, At
  <2>2. live = truth
    BY <2>1 DEF TruthInv, DiskInv, Clean
  <2>3. store \subseteq done /\ done \subseteq Txns
    BY DEF IInv, EventInv, TypeOK
  <2>4. done \subseteq store
    BY <2>1, <2>3 DEF TruthInv, DiskInv, Clean
  <2> QED BY <2>2, <2>3, <2>4 DEF Settled
<1> QED BY <1>1, <1>2, <1>3, Inductive, PTL DEF Spec
=============================================================================
