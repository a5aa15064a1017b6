----------------------- MODULE WorkspaceDeleteProofs -----------------------
(* Proofs about WorkspaceDelete: its types, and that no deletion is        *)
(* forgotten half-way, for any programs, files, deletions and faults.      *)
EXTENDS WorkspaceDelete, TLAPS

\* All that was promised for a deletion is in the tombstones, or was and has
\* been undone.
Done(t) == FactsOf(t) \subseteq tomb \/ t \in lost

\* A journal of an old version, nobody has given it a plan yet.
Old(j) == j.phase = "pending" /\ ~j.planned

\* A journal that counts, with what was promised.
Planned(t) == journal[t].phase # "none" /\ ~Old(journal[t])

\* A journal holds what was promised until the tombstones do.
JournalInv(t) ==
  /\ journal[t].phase = "none" => promised[t] = {}
  /\ journal[t].phase = "pending" => journal[t].facts = promised[t]
  /\ journal[t].phase \in {"applied", "recorded", "cleared"} => Done(t)
  /\ Old(journal[t]) => journal[t].facts = {}

\* A program past the tombstones of its deletion has written all of them; one
\* that works on a journal does not work on an old one.
OpInv(p) ==
  /\ op[p].at = "planned" =>
       journal[op[p].tok].phase = "none" /\ op[p].planned
  /\ op[p].at \notin {"idle", "planned"} =>
       journal[op[p].tok].phase # "none" /\ ~Old(journal[op[p].tok])
  /\ op[p].at \in {"tombstoned", "marked", "logged", "closing"} =>
       Done(op[p].tok)
  /\ \A q \in Procs : op[p].at = "planned" /\ op[q].at = "planned" /\ p # q
                      => op[p].tok # op[q].tok

\* One program starts at a time, and an old journal stays as it read it.
TodoInv(p) ==
  /\ \A q \in Procs : mode[p] = "starting" /\ mode[q] = "starting" => p = q
  /\ \A r \in todo[p], s \in todo[p] : r.tok = s.tok => r = s
  /\ \A r \in todo[p] :
       /\ journal[r.tok].phase # "none"
       /\ Old(r.was) => journal[r.tok] = r.was
       /\ Old(journal[r.tok]) => Old(r.was)
       /\ r.was.phase \in {"applied", "recorded"} => Done(r.tok)

\* Tombstones are of deletions that were promised, and a program that has
\* all of a deletion's in its copy of the sync state has read them there.
CopyInv ==
  /\ \A f \in Files, t \in Tokens : <<f, t>> \in tomb => Planned(t)
  /\ \A p \in Procs, f \in Files, t \in Tokens :
       <<f, t>> \in copy[p].tombs => Planned(t)
  /\ \A p \in Procs, t \in Tokens : FactsOf(t) \subseteq copy[p].tombs => Done(t)

IInv ==
  /\ TypeOK
  /\ CopyInv
  /\ \A t \in Tokens : JournalInv(t)
  /\ \A p \in Procs : OpInv(p)
  /\ \A p \in Procs : TodoInv(p)

-----------------------------------------------------------------------------
(* Types.                                                                  *)

\* A program's deletion takes a step, ends, or begins with a journal it read.
LEMMA OpTypes ==
  ASSUME TypeOK, NEW p \in Procs
  PROVE  /\ NoOp \in Op
         /\ \A s \in Steps : Goto(p, s) => op' \in [Procs -> Op]
         /\ Leave(p) => op' \in [Procs -> Op]
         /\ \A r \in [tok : Tokens, was : Journal], s \in Steps :
              Resume(p, r, s) => op' \in [Procs -> Op]
<1>1. op \in [Procs -> Op]
  BY DEF TypeOK
<1>2. NoOp \in Op
  BY VolumeAssumption DEF NoOp, Op, Steps
<1>3. ASSUME NEW s \in Steps, Goto(p, s) PROVE op' \in [Procs -> Op]
  <2>1. [op[p] EXCEPT !.at = s] \in Op
    BY <1>1 DEF Op
  <2> QED
    BY <1>1, <1>3, <2>1 DEF Goto
<1>4. ASSUME NEW r \in [tok : Tokens, was : Journal], NEW s \in Steps,
             Resume(p, r, s)
      PROVE  op' \in [Procs -> Op]
  BY <1>1, <1>4 DEF Resume, Op, Journal
<1> QED
  BY <1>1, <1>2, <1>3, <1>4 DEF Leave

\* A journal that is written or cleared is a journal.
LEMMA JournalTypes ==
  ASSUME TypeOK, NEW p \in Procs
  PROVE  /\ \A phase \in Phases :
              Write(p, phase) => journal' \in [Tokens -> Journal]
         /\ \A t \in Tokens : Cleared(t) => journal' \in [Tokens -> Journal]
         /\ op[p].tok \in Tokens /\ op[p].facts \in SUBSET Files
<1>1. op[p] \in Op /\ journal \in [Tokens -> Journal]
  BY DEF TypeOK
<1>2. op[p].tok \in Tokens /\ op[p].facts \in SUBSET Files
      /\ op[p].planned \in BOOLEAN
  BY <1>1 DEF Op
<1>3. ASSUME NEW phase \in Phases, Write(p, phase)
      PROVE  journal' \in [Tokens -> Journal]
  BY <1>1, <1>2, <1>3 DEF Write, Journal
<1>4. ASSUME NEW t \in Tokens, Cleared(t)
      PROVE  journal' \in [Tokens -> Journal]
  <2>1. [journal[t] EXCEPT !.phase = "cleared"] \in Journal
    BY <1>1 DEF Journal, Phases
  <2> QED
    BY <1>1, <1>4, <2>1 DEF Cleared
<1> QED
  BY <1>2, <1>3, <1>4

\* A program reads the sync state, or is done with it.
LEMMA CopyTypes ==
  ASSUME TypeOK, NEW p \in Procs
  PROVE  /\ [copy EXCEPT ![p] = NoCopy] \in [Procs -> Copy]
         /\ [copy EXCEPT ![p] = [out |-> TRUE, tombs |-> tomb]]
              \in [Procs -> Copy]
         /\ copy[p].tombs \subseteq Files \X Tokens
<1>1. NoCopy \in Copy /\ [out |-> TRUE, tombs |-> tomb] \in Copy
  BY DEF TypeOK, NoCopy, Copy
<1>2. copy \in [Procs -> Copy] /\ copy[p] \in Copy
  BY DEF TypeOK
<1> QED
  BY <1>1, <1>2 DEF Copy

\* The initial states have their types.
LEMMA TypeInit == Init => TypeOK
<1> SUFFICES ASSUME Init PROVE TypeOK
  OBVIOUS
<1>1. NoOp \in Op /\ Idle(NoOp)
  BY VolumeAssumption DEF NoOp, Op, Steps, Idle
<1>2. NoJournal \in Journal
      /\ [NoJournal EXCEPT !.phase = "pending"] \in Journal
  BY DEF NoJournal, Journal, Phases
<1>3. dir \subseteq Files
  BY VolumeAssumption DEF Init
<1>4. NoCopy \in Copy
  BY DEF NoCopy, Copy
<1> QED
  BY <1>1, <1>2, <1>3, <1>4, VolumeAssumption DEF Init, TypeOK

\* Every step of every program keeps the types.
LEMMA TypeStep == TypeOK /\ [Next]_vars => TypeOK'
<1> SUFFICES ASSUME TypeOK, [Next]_vars PROVE TypeOK'
  OBVIOUS
<1> USE DEF diskVars, syncVars, procVars, pastVars
<1>a. \A s \in {"planned", "journaled", "moved", "loaded", "tombstoned", "marked",
                "logged", "closing"} : s \in Steps
  BY DEF Steps
<1>b. {"pending", "applied", "recorded"} \subseteq Phases
  BY DEF Phases
<1>c. Fault => faults' \in 0..MaxFaults
  BY VolumeAssumption DEF Fault, TypeOK
<1>d. Idle(NoOp)
  BY DEF Idle, NoOp
<1>1. ASSUME NEW p \in Procs, NEW t \in Tokens, Plan(p, t) PROVE TypeOK'
  BY <1>1, <1>a DEF Plan, TypeOK, Op, Idle
<1>2. ASSUME NEW p \in Procs, SavePending(p) PROVE TypeOK'
  BY <1>2, <1>a, <1>b, OpTypes, JournalTypes
     DEF SavePending, TypeOK, Is, Goto, Idle
<1>3. ASSUME NEW p \in Procs, Move(p) PROVE TypeOK'
  BY <1>3, <1>a, OpTypes, JournalTypes DEF Move, TypeOK, Is, Goto, Idle
<1>4. ASSUME NEW p \in Procs, CannotMove(p) PROVE TypeOK'
  BY <1>4, <1>d, OpTypes DEF CannotMove, TypeOK, Leave
<1>5. ASSUME NEW p \in Procs, LoadState(p) \/ AddTombstones(p) PROVE TypeOK'
  <2>1. op' \in [Procs -> Op] /\ \A q \in Procs : mode[q] = "off" => Idle(op'[q])
    BY <1>5, <1>a, OpTypes DEF LoadState, AddTombstones, TypeOK, Is, Goto, Idle
  <2>2. UNCHANGED <<dir, trash, tracked, journal, known, remote, mode, todo,
                    faults, promised>>
    BY <1>5 DEF LoadState, AddTombstones
  <2>3. CASE LoadState(p)
    <3>1. copy' \in [Procs -> Copy]
      BY <2>3, CopyTypes DEF LoadState
    <3> QED BY <2>1, <2>2, <2>3, <3>1 DEF LoadState, TypeOK
  <2>4. CASE AddTombstones(p)
    <3>1. copy' \in [Procs -> Copy]
      BY <2>4, CopyTypes DEF AddTombstones
    <3>2. tomb' \subseteq Files \X Tokens /\ lost' \subseteq Tokens
      BY <2>4, CopyTypes, JournalTypes
         DEF AddTombstones, SaveState, FactsOf, TypeOK
    <3> QED BY <2>1, <2>2, <3>1, <3>2 DEF TypeOK
  <2> QED BY <1>5, <2>3, <2>4
<1>6. ASSUME NEW p \in Procs, MarkApplied(p) PROVE TypeOK'
  BY <1>6, <1>a, <1>b, <1>c, OpTypes, JournalTypes
     DEF MarkApplied, TypeOK, Is, Goto, Idle
<1>7. ASSUME NEW p \in Procs, RecordHistory(p) PROVE TypeOK'
  BY <1>7, <1>a, OpTypes DEF RecordHistory, TypeOK, Is, Goto, Idle
<1>8. ASSUME NEW p \in Procs, MarkRecorded(p) PROVE TypeOK'
  BY <1>8, <1>a, <1>b, OpTypes, JournalTypes
     DEF MarkRecorded, TypeOK, Is, Goto, Idle
<1>9. ASSUME NEW p \in Procs, Clear(p) PROVE TypeOK'
  BY <1>9, <1>d, OpTypes, JournalTypes DEF Clear, TypeOK, Leave
<1>10. ASSUME NEW p \in Procs, StepFails(p) PROVE TypeOK'
  BY <1>10, <1>c, <1>d, OpTypes, CopyTypes DEF StepFails, TypeOK, Leave
<1>11. ASSUME NEW p \in Procs, Start(p) PROVE TypeOK'
  BY <1>11 DEF Start, TypeOK
<1>12. ASSUME NEW p \in Procs, Started(p) \/ Quit(p) PROVE TypeOK'
  BY <1>12 DEF Started, Quit, TypeOK
<1>13. ASSUME NEW p \in Procs, NEW r \in todo[p],
              \/ RecoverRecorded(p, r) \/ RecoverApplied(p, r)
              \/ RecoverPending(p, r)
       PROVE  TypeOK'
  <2>1. r \in [tok : Tokens, was : Journal] /\ mode[p] = "starting"
        /\ todo' = [todo EXCEPT ![p] = @ \ {r}]
    BY <1>13 DEF TypeOK, RecoverRecorded, RecoverApplied, RecoverPending,
                 Takes
  <2>2. todo'[p] = todo[p] \ {r}
        /\ \A q \in Procs : todo'[q] \subseteq todo[q]
    BY <2>1 DEF TypeOK
  <2>3. CASE RecoverRecorded(p, r)
    BY <2>1, <2>2, <2>3, JournalTypes DEF RecoverRecorded, TypeOK
  <2>4. CASE RecoverApplied(p, r)
    BY <2>1, <2>2, <2>4, <1>a, OpTypes
       DEF RecoverApplied, Resume, TypeOK, Idle
  <2>5. CASE RecoverPending(p, r)
    <3>1. op' \in [Procs -> Op]
          /\ \A q \in Procs : q # p => op'[q] = op[q]
      BY <2>1, <2>5, <1>a, OpTypes
         DEF RecoverPending, FinishMoved, Replay, Upgrade, Retain, Resume,
             TypeOK
    <3>2. journal' \in [Tokens -> Journal]
          /\ promised' \in [Tokens -> SUBSET Files]
      <4>1. [phase |-> "pending", facts |-> dir, planned |-> TRUE] \in Journal
        BY <1>b DEF TypeOK, Journal
      <4>2. CASE Upgrade(p, r)
        BY <2>1, <4>1, <4>2 DEF Upgrade, TypeOK
      <4>3. CASE UNCHANGED <<journal, promised>>
        BY <4>3 DEF TypeOK
      <4> QED
        BY <2>5, <4>2, <4>3 DEF RecoverPending, FinishMoved, Replay, Retain
    <3> QED
      BY <2>1, <2>2, <2>5, <3>1, <3>2 DEF RecoverPending, TypeOK
  <2> QED
    BY <1>13, <2>3, <2>4, <2>5
<1>14. ASSUME NEW p \in Procs, Crash(p) PROVE TypeOK'
  BY <1>14, <1>c, <1>d, OpTypes, CopyTypes DEF Crash, TypeOK, Leave
<1>15. ASSUME NEW p \in Procs, NEW f \in Files, Create(p, f) PROVE TypeOK'
  BY <1>15 DEF Create, TypeOK
<1>16. ASSUME NEW p \in Procs, Sync(p) PROVE TypeOK'
  BY <1>16, CopyTypes DEF Sync, Fetched, Gone, TypeOK
<1>19. ASSUME NEW p \in Procs, WriteState(p) PROVE TypeOK'
  BY <1>19, CopyTypes DEF WriteState, SaveState, TypeOK
<1>17. ASSUME NEW f \in Files, AddRemotely(f) PROVE TypeOK'
  BY <1>17 DEF AddRemotely, TypeOK
<1>18. CASE UNCHANGED vars
  BY <1>18 DEF vars, TypeOK
<1> QED
  BY <1>1, <1>2, <1>3, <1>4, <1>5, <1>6, <1>7, <1>8, <1>9, <1>10, <1>11,
     <1>12, <1>13, <1>14, <1>15, <1>16, <1>17, <1>18, <1>19
     DEF Next, Deletion, Recovery

\* The variables of the deletions keep their types in every behaviour, and a
\* closed program has nothing in memory.
THEOREM TypeCorrect == Spec => []TypeOK
<1>1. Init /\ [][Next]_vars => []TypeOK
  BY TypeInit, TypeStep, PTL
<1> QED
  BY <1>1, PTL DEF Spec

-----------------------------------------------------------------------------
(* No deletion is forgotten half-way.                                      *)

Late == {"tombstoned", "marked", "logged", "closing"}
Working(o) == o.at \notin {"idle", "planned"}

Invs == /\ \A t \in Tokens : JournalInv(t)
        /\ \A p \in Procs : OpInv(p)
        /\ \A p \in Procs : TodoInv(p)

\* A deletion goes on without a late step, or ends.
GoesOn(p) ==
  \/ op'[p] = op[p]
  \/ op'[p].at = "idle"
  \/ /\ op'[p].tok = op[p].tok
     /\ Working(op[p]) /\ Working(op'[p])
     /\ op'[p].at \in Late => op[p].at \in Late \/ Done(op[p].tok)'

\* Steps that leave journals and promises alone keep the invariant when they
\* undo no deletion and begin nothing.
LEMMA QuietStep ==
  ASSUME IInv, TypeOK', UNCHANGED <<journal, promised>>,
         \A t \in Tokens : Done(t) => Done(t)',
         \A p \in Procs : /\ GoesOn(p)
                          /\ todo'[p] \subseteq todo[p]
                          /\ mode'[p] = "starting" => mode[p] = "starting"
  PROVE  Invs'
<1>1. \A t \in Tokens : Done(t) => Done(t)'
  OBVIOUS
<1>2. ASSUME NEW t \in Tokens PROVE JournalInv(t)'
  BY <1>1 DEF IInv, JournalInv, Old
<1>3. ASSUME NEW p \in Procs PROVE OpInv(p)'
  <2>1. op[p].tok \in Tokens
    BY DEF IInv, TypeOK, Op
  <2>2. OpInv(p)
    BY DEF IInv
  <2>3. \A q \in Procs : op'[q].at = "planned" => op'[q] = op[q]
    BY DEF GoesOn, Working
  <2>4. op'[p].at = "planned" =>
          journal'[op'[p].tok].phase = "none" /\ op'[p].planned
    BY <2>2, <2>3 DEF OpInv
  <2>5. Working(op'[p]) => op'[p].tok = op[p].tok /\ Working(op[p])
    BY DEF GoesOn, Working
  <2>6. op'[p].at \notin {"idle", "planned"} =>
          journal'[op'[p].tok].phase # "none" /\ ~Old(journal'[op'[p].tok])
    BY <2>2, <2>5 DEF OpInv, Working
  <2>7. op'[p].at \in Late => Done(op[p].tok)'
    <3> SUFFICES ASSUME op'[p].at \in Late PROVE Done(op[p].tok)'
      OBVIOUS
    <3>1. CASE op[p].at \in Late
      <4>1. PICK u \in Tokens : u = op[p].tok
        BY <2>1
      <4>2. u = op'[p].tok
        BY <2>5, <4>1 DEF Working, Late
      <4>3. Done(u)
        BY <2>2, <3>1, <4>1 DEF OpInv, Late
      <4>4. Done(u)'
        BY <1>1, <4>3
      <4> QED
        BY <4>2, <4>4 DEF Done, FactsOf
    <3>2. CASE op[p].at \notin Late
      BY <3>2 DEF GoesOn, Late
    <3> QED
      BY <3>1, <3>2
  <2>8. \A q \in Procs : op'[p].at = "planned" /\ op'[q].at = "planned"
                         /\ p # q => op'[p].tok # op'[q].tok
    BY <2>2, <2>3 DEF OpInv
  <2> QED
    BY <2>4, <2>6, <2>7, <2>8 DEF OpInv, Late
<1>4. ASSUME NEW p \in Procs PROVE TodoInv(p)'
  <2>1. TodoInv(p) /\ \A r \in todo[p] : r.tok \in Tokens
    BY DEF IInv, TypeOK
  <2> QED
    BY <1>1, <2>1 DEF TodoInv
<1> QED
  BY <1>2, <1>3, <1>4 DEF Invs

\* A program works on journals it has taken up and no other holds old ones.
LEMMA WriteStep ==
  ASSUME IInv, TypeOK', NEW p \in Procs, NEW t \in Tokens,
         NEW phase \in {"applied", "recorded", "cleared"},
         journal[t].phase # "none", ~Old(journal[t]), Done(t),
         \A u \in Tokens : u # t => journal'[u] = journal[u],
         journal'[t].phase = phase, UNCHANGED <<promised, tomb, lost>>,
         \A q \in Procs : /\ GoesOn(q)
                          /\ todo'[q] \subseteq todo[q]
                          /\ mode'[q] = "starting" => mode[q] = "starting"
  PROVE  Invs'
<1>1. \A u \in Tokens : Done(u) = Done(u)'
  BY DEF Done, FactsOf
<1>2. ASSUME NEW u \in Tokens PROVE JournalInv(u)'
  BY <1>1 DEF IInv, JournalInv, Old
<1>3. ~Old(journal'[t]) /\ journal'[t].phase # "none"
  BY DEF Old
<1>4. ASSUME NEW q \in Procs PROVE OpInv(q)'
  <2>1. op[q].tok \in Tokens /\ OpInv(q)
    BY DEF IInv, TypeOK, Op
  <2>3. \A r \in Procs : op'[r].at = "planned" => op'[r] = op[r]
    BY DEF GoesOn, Working
  <2>4. op'[q].at = "planned" =>
          journal'[op'[q].tok].phase = "none" /\ op'[q].planned
    BY <2>1, <2>3 DEF OpInv
  <2>5. Working(op'[q]) => op'[q].tok = op[q].tok /\ Working(op[q])
    BY DEF GoesOn, Working
  <2>6. op'[q].at \notin {"idle", "planned"} =>
          journal'[op'[q].tok].phase # "none" /\ ~Old(journal'[op'[q].tok])
    BY <2>1, <2>5, <1>3 DEF OpInv, Working, Old
  <2>7. op'[q].at \in Late => Done(op[q].tok)'
    <3> SUFFICES ASSUME op'[q].at \in Late PROVE Done(op[q].tok)'
      OBVIOUS
    <3>1. CASE op[q].at \in Late
      <4>1. PICK u \in Tokens : u = op[q].tok
        BY <2>1
      <4>2. u = op'[q].tok
        BY <2>5, <4>1 DEF Working, Late
      <4>3. Done(u)
        BY <2>1, <3>1, <4>1 DEF OpInv, Late
      <4>4. Done(u)'
        BY <1>1, <4>3
      <4> QED
        BY <4>2, <4>4 DEF Done, FactsOf
    <3>2. CASE op[q].at \notin Late
      BY <3>2 DEF GoesOn, Late
    <3> QED
      BY <3>1, <3>2
  <2>8. \A r \in Procs : op'[q].at = "planned" /\ op'[r].at = "planned"
                         /\ q # r => op'[q].tok # op'[r].tok
    BY <2>1, <2>3 DEF OpInv
  <2> QED
    BY <2>4, <2>6, <2>7, <2>8 DEF OpInv, Late
<1>5. ASSUME NEW q \in Procs PROVE TodoInv(q)'
  <2>1. TodoInv(q) /\ \A r \in todo[q] : r.tok \in Tokens
    BY DEF IInv, TypeOK
  <2> QED
    BY <1>1, <1>3, <2>1 DEF TodoInv, Old
<1> QED
  BY <1>2, <1>4, <1>5 DEF Invs

\* A program that begins to work on a journal it read: nothing else changes.
LEMMA ResumeStep ==
  ASSUME IInv, TypeOK', NEW p \in Procs, NEW r \in todo[p], NEW step \in Steps,
         step \notin {"idle", "planned"}, Idle(op[p]), ~Old(r.was),
         step \in Late => r.was.phase \in {"applied", "recorded"},
         Resume(p, r, step), todo' = [todo EXCEPT ![p] = @ \ {r}],
         UNCHANGED <<journal, promised, tomb, lost, mode>>
  PROVE  Invs'
<1>1. \A u \in Tokens : Done(u) = Done(u)'
  BY DEF Done, FactsOf
<1>2. ASSUME NEW u \in Tokens PROVE JournalInv(u)'
  BY <1>1 DEF IInv, JournalInv, Old
<1>3. /\ op'[p].at = step /\ op'[p].tok = r.tok /\ r.tok \in Tokens
      /\ \A q \in Procs : q # p => op'[q] = op[q]
      /\ \A q \in Procs : todo'[q] \subseteq todo[q]
  BY DEF Resume, IInv, TypeOK
<1>4. /\ journal[r.tok].phase # "none" /\ ~Old(journal[r.tok])
      /\ step \in Late => Done(r.tok)
  BY DEF IInv, TodoInv
<1>5. ASSUME NEW q \in Procs PROVE OpInv(q)'
  <2>1. OpInv(q) /\ op[q].tok \in Tokens
    BY DEF IInv, TypeOK, Op
  <2>2. CASE q = p
    <3>1. Done(r.tok)' => Done(op[q].tok)'
      BY <1>3, <2>2 DEF Done, FactsOf
    <3> QED
      BY <1>1, <1>3, <1>4, <2>2, <3>1 DEF OpInv, Late
  <2>3. CASE q # p
    <3>1. Done(op[q].tok) => Done(op[q].tok)'
      BY <1>3, <2>3 DEF Done, FactsOf
    <3> QED
      BY <1>3, <2>1, <2>3, <3>1 DEF OpInv
  <2> QED
    BY <2>2, <2>3
<1>6. ASSUME NEW q \in Procs PROVE TodoInv(q)'
  <2>1. TodoInv(q) /\ \A s \in todo[q] : s.tok \in Tokens
    BY DEF IInv, TypeOK
  <2> QED
    BY <1>1, <1>3, <2>1 DEF TodoInv
<1> QED
  BY <1>2, <1>5, <1>6 DEF Invs

\* A new plan is saved with a journal nobody else works on.
LEMMA PromiseStep ==
  ASSUME IInv, TypeOK', NEW p \in Procs, NEW t \in Tokens,
         NEW facts \in SUBSET Files,
         journal[t].phase = "none" \/ Old(journal[t]),
         journal' = [journal EXCEPT ![t] =
                       [phase |-> "pending", facts |-> facts,
                        planned |-> TRUE]],
         promised' = [promised EXCEPT ![t] = facts],
         op'[p].at = "journaled", op'[p].tok = t,
         \A q \in Procs : q # p => /\ op'[q] = op[q]
                                   /\ ~(op[q].at = "planned" /\ op[q].tok = t),
         \A q \in Procs : /\ todo'[q] \subseteq todo[q]
                          /\ \A r \in todo'[q] : r.tok # t,
         UNCHANGED <<tomb, lost, mode>>
  PROVE  Invs'
<1>1. /\ journal'[t].phase = "pending" /\ journal'[t].facts = promised'[t]
      /\ ~Old(journal'[t])
      /\ \A u \in Tokens : u # t => /\ journal'[u] = journal[u]
                                    /\ promised'[u] = promised[u]
  BY DEF IInv, TypeOK, Old
<1>2. \A u \in Tokens : u # t => Done(u) = Done(u)'
  BY <1>1 DEF Done, FactsOf
<1>3. ASSUME NEW u \in Tokens PROVE JournalInv(u)'
  BY <1>1, <1>2 DEF IInv, JournalInv, Old
<1>4. ASSUME NEW q \in Procs PROVE OpInv(q)'
  <2>1. OpInv(q) /\ op[q].tok \in Tokens
    BY DEF IInv, TypeOK, Op
  <2>2. CASE q = p
    BY <1>1, <2>2 DEF OpInv, Old
  <2>3. CASE q # p
    <3>1. op[q].at # "idle" => op[q].tok # t
      BY <2>1, <2>3 DEF OpInv, Old
    <3>2. op[q].at # "idle" /\ Done(op[q].tok) => Done(op[q].tok)'
      BY <1>1, <2>1, <2>3, <3>1 DEF Done, FactsOf
    <3> QED
      BY <1>1, <2>1, <2>3, <3>1, <3>2 DEF OpInv, Old
  <2> QED
    BY <2>2, <2>3
<1>5. ASSUME NEW q \in Procs PROVE TodoInv(q)'
  <2>1. TodoInv(q) /\ \A r \in todo[q] : r.tok \in Tokens
    BY DEF IInv, TypeOK
  <2> QED
    BY <1>1, <1>2, <2>1 DEF TodoInv
<1> QED
  BY <1>3, <1>4, <1>5 DEF Invs

\* What is planned stays planned, with the same facts.
LEMMA PlansStay ==
  ASSUME IInv, [Next]_vars, NEW t \in Tokens, Planned(t)
  PROVE  Planned(t)' /\ promised'[t] = promised[t]
<1> USE DEF diskVars, syncVars, procVars, pastVars
<1>a. /\ TypeOK /\ \A q \in Procs : OpInv(q) /\ TodoInv(q)
      /\ \A q \in Procs : op[q].tok \in Tokens
  BY DEF IInv, TypeOK, Op
<1>1. CASE UNCHANGED <<journal, promised>>
  BY <1>1 DEF Planned
<1>2. ASSUME NEW p \in Procs, SavePending(p)
      PROVE  Planned(t)' /\ promised'[t] = promised[t]
  <2>1. op[p].tok # t
    BY <1>2, <1>a DEF SavePending, Is, OpInv, Planned
  <2> QED
    BY <1>2, <1>a, <2>1 DEF SavePending, Write, Planned, TypeOK
<1>3. ASSUME NEW p \in Procs, NEW phase \in {"applied", "recorded"},
             Write(p, phase), UNCHANGED promised
      PROVE  Planned(t)' /\ promised'[t] = promised[t]
  BY <1>3, <1>a DEF Write, Planned, Old, TypeOK
<1>4. ASSUME NEW u \in Tokens, Cleared(u), UNCHANGED promised
      PROVE  Planned(t)' /\ promised'[t] = promised[t]
  BY <1>4, <1>a DEF Cleared, Planned, Old, TypeOK, Journal
<1>5. ASSUME NEW p \in Procs, NEW r \in todo[p], RecoverPending(p, r)
      PROVE  Planned(t)' /\ promised'[t] = promised[t]
  <2>1. CASE Upgrade(p, r)
    <3>1. Old(journal[r.tok])
      BY <1>5, <1>a, <2>1 DEF RecoverPending, Takes, Upgrade, TodoInv, Old
    <3>2. r.tok # t
      BY <3>1 DEF Planned
    <3> QED
      BY <1>a, <2>1, <3>2 DEF Upgrade, Planned, TypeOK
  <2> QED
    BY <1>1, <1>5, <2>1 DEF RecoverPending, FinishMoved, Replay, Retain
<1>6. ASSUME NEW p \in Procs, NEW r \in todo[p], RecoverRecorded(p, r)
      PROVE  Planned(t)' /\ promised'[t] = promised[t]
  <2>1. r.tok \in Tokens
    BY <1>a DEF TypeOK
  <2> QED
    BY <1>4, <1>6, <2>1 DEF RecoverRecorded
<1>7. ASSUME NEW p \in Procs, MarkApplied(p) \/ MarkRecorded(p) \/ Clear(p)
      PROVE  Planned(t)' /\ promised'[t] = promised[t]
  BY <1>1, <1>3, <1>4, <1>7, <1>a DEF MarkApplied, MarkRecorded, Clear
<1>8. ASSUME NEW p \in Procs, NEW r \in todo[p], RecoverApplied(p, r)
      PROVE  Planned(t)' /\ promised'[t] = promised[t]
  BY <1>1, <1>8 DEF RecoverApplied
<1>9. ASSUME NEW p \in Procs,
             \/ \E u \in Tokens : Plan(p, u)
             \/ Move(p) \/ CannotMove(p) \/ LoadState(p) \/ AddTombstones(p)
             \/ RecordHistory(p) \/ StepFails(p)
      PROVE  UNCHANGED <<journal, promised>>
  BY <1>9 DEF Plan, Move, CannotMove, LoadState, AddTombstones, RecordHistory,
              StepFails
<1>10. ASSUME NEW p \in Procs,
              \/ Start(p) \/ Started(p) \/ Quit(p) \/ Crash(p)
              \/ \E f \in Files : Create(p, f)
              \/ Sync(p) \/ WriteState(p)
       PROVE  UNCHANGED <<journal, promised>>
  BY <1>10 DEF Start, Started, Quit, Crash, Create, Sync, WriteState
<1>11. CASE (\E f \in Files : AddRemotely(f)) \/ UNCHANGED vars
  BY <1>1, <1>11 DEF AddRemotely, vars
<1> QED
  BY <1>1, <1>2, <1>5, <1>6, <1>7, <1>8, <1>9, <1>10, <1>11
     DEF Next, Deletion, Recovery

\* What a saved state leaves out of a deletion that was done is lost.
LEMMA SavedState ==
  ASSUME NEW tombs, SaveState(tombs), NEW t \in Tokens, promised'[t] = promised[t],
         Done(t)
  PROVE  Done(t)'
BY DEF SaveState, Done, FactsOf

\* Copies are of what was there, so the tombstones in them are of the
\* deletions whose tombstones were there.
LEMMA CopiesKept ==
  ASSUME CopyInv,
         \A t \in Tokens : Planned(t) => Planned(t)' /\ promised'[t] = promised[t],
         \A t \in Tokens : promised'[t] = promised[t] /\ Done(t) => Done(t)',
         \A f \in Files, t \in Tokens : <<f, t>> \in tomb' => Planned(t)',
         \A p \in Procs : \/ copy'[p].tombs = {}
                          \/ copy'[p].tombs = copy[p].tombs
                          \/ copy'[p].tombs = tomb,
         promised' \in [Tokens -> SUBSET Files]
  PROVE  CopyInv'
<1>1. ASSUME NEW p \in Procs, NEW f \in Files, NEW t \in Tokens,
             <<f, t>> \in copy'[p].tombs
      PROVE  Planned(t)
  BY <1>1 DEF CopyInv
<1>2. ASSUME NEW p \in Procs, NEW t \in Tokens, FactsOf(t)' \subseteq copy'[p].tombs
      PROVE  Done(t)'
  <2>1. CASE promised'[t] = {}
    BY <2>1 DEF Done, FactsOf
  <2>2. CASE promised'[t] # {}
    <3>1. PICK f \in Files : f \in promised'[t]
      BY <2>2
    <3>2. <<f, t>> \in copy'[p].tombs
      BY <1>2, <3>1 DEF FactsOf
    <3>3. promised'[t] = promised[t]
      BY <1>1, <3>2
    <3>4. FactsOf(t)' = FactsOf(t)
      BY <3>3 DEF FactsOf
    <3>5. Done(t)
      BY <1>2, <3>2, <3>4 DEF CopyInv, Done
    <3> QED
      BY <3>3, <3>5
  <2> QED
    BY <2>1, <2>2
<1> QED
  BY <1>1, <1>2 DEF CopyInv

\* Every step keeps what is known of the copies.
LEMMA CopyStep == IInv /\ [Next]_vars => CopyInv'
<1> SUFFICES ASSUME IInv, [Next]_vars PROVE CopyInv'
  OBVIOUS
<1> USE DEF diskVars, syncVars, procVars, pastVars
<1>a. /\ TypeOK /\ CopyInv /\ \A q \in Procs : OpInv(q)
      /\ \A q \in Procs : op[q].tok \in Tokens /\ copy[q] \in Copy
  BY DEF IInv, TypeOK, Op
<1>b. promised' \in [Tokens -> SUBSET Files]
  BY TypeStep DEF IInv, TypeOK
<1>c. \A t \in Tokens : Planned(t) => Planned(t)' /\ promised'[t] = promised[t]
  BY PlansStay
<1>d. NoCopy.tombs = {}
  BY DEF NoCopy
<1>1. CASE /\ UNCHANGED <<tomb, lost>>
           /\ \A q \in Procs : \/ copy'[q].tombs = {}
                                \/ copy'[q].tombs = copy[q].tombs
                                \/ copy'[q].tombs = tomb
  <2>1. \A t \in Tokens : promised'[t] = promised[t] /\ Done(t) => Done(t)'
    BY <1>1 DEF Done, FactsOf
  <2>2. \A f \in Files, t \in Tokens : <<f, t>> \in tomb' => Planned(t)'
    BY <1>1, <1>a, <1>c DEF CopyInv
  <2> QED
    BY <1>1, <1>a, <1>b, <1>c, <2>1, <2>2, CopiesKept
<1>2. ASSUME NEW p \in Procs, NEW tombs, SaveState(tombs),
             copy' = [copy EXCEPT ![p] = NoCopy],
             \A f \in Files, t \in Tokens : <<f, t>> \in tombs => Planned(t)
      PROVE  CopyInv'
  <2>1. \A t \in Tokens : promised'[t] = promised[t] /\ Done(t) => Done(t)'
    BY <1>2, SavedState
  <2>2. \A f \in Files, t \in Tokens : <<f, t>> \in tomb' => Planned(t)'
    BY <1>2, <1>c DEF SaveState
  <2>3. \A q \in Procs : copy'[q].tombs = {} \/ copy'[q].tombs = copy[q].tombs
    BY <1>2, <1>a, <1>d DEF TypeOK
  <2> QED
    BY <1>a, <1>b, <1>c, <2>1, <2>2, <2>3, CopiesKept
<1>3. ASSUME NEW p \in Procs, AddTombstones(p) PROVE CopyInv'
  <2>1. CASE UNCHANGED <<tomb, lost>>
    BY <1>1, <1>3, <1>a, <1>d, <2>1 DEF AddTombstones, TypeOK
  <2>2. CASE SaveState(copy[p].tombs \union FactsOf(op[p].tok))
    <3>1. Planned(op[p].tok)
      BY <1>3, <1>a DEF AddTombstones, Is, OpInv, Planned
    <3>2. \A f \in Files, t \in Tokens :
            <<f, t>> \in copy[p].tombs \union FactsOf(op[p].tok) => Planned(t)
      BY <1>a, <3>1 DEF CopyInv, FactsOf
    <3> QED
      BY <1>2, <1>3, <2>2, <3>2 DEF AddTombstones
  <2> QED
    BY <1>3, <2>1, <2>2 DEF AddTombstones
<1>4. ASSUME NEW p \in Procs, WriteState(p) PROVE CopyInv'
  BY <1>2, <1>4, <1>a DEF WriteState, CopyInv
<1>5. ASSUME NEW p \in Procs, LoadState(p) \/ Sync(p) PROVE CopyInv'
  BY <1>1, <1>5, <1>a DEF LoadState, Sync, TypeOK
<1>6. ASSUME NEW p \in Procs, StepFails(p) \/ Crash(p) PROVE CopyInv'
  BY <1>1, <1>6, <1>a, <1>d DEF StepFails, Crash, TypeOK
<1>7. ASSUME NEW p \in Procs,
             \/ \E u \in Tokens : Plan(p, u)
             \/ SavePending(p) \/ Move(p) \/ CannotMove(p) \/ MarkApplied(p)
             \/ RecordHistory(p) \/ MarkRecorded(p) \/ Clear(p)
      PROVE  CopyInv'
  BY <1>1, <1>7 DEF Plan, SavePending, Move, CannotMove, MarkApplied,
                    RecordHistory, MarkRecorded, Clear
<1>8. ASSUME NEW p \in Procs,
             \/ Start(p) \/ Started(p) \/ Quit(p)
             \/ \E r \in todo[p] : \/ RecoverRecorded(p, r)
                                  \/ RecoverApplied(p, r)
                                  \/ RecoverPending(p, r)
             \/ \E f \in Files : Create(p, f)
      PROVE  CopyInv'
  BY <1>1, <1>8 DEF Start, Started, Quit, RecoverRecorded, RecoverApplied,
                    RecoverPending, Create
<1>9. CASE (\E f \in Files : AddRemotely(f)) \/ UNCHANGED vars
  BY <1>1, <1>9 DEF AddRemotely, vars
<1> QED
  BY <1>3, <1>4, <1>5, <1>6, <1>7, <1>8, <1>9 DEF Next, Deletion, Recovery

\* Initially only journals of an old version are there.
LEMMA InvInit == Init => IInv
<1> SUFFICES ASSUME Init PROVE IInv
  OBVIOUS
<1>1. \A t \in Tokens : /\ promised[t] = {} /\ journal[t].facts = {}
                        /\ journal[t].phase \in {"none", "pending"}
  BY DEF Init, NoJournal
<1>2. \A p \in Procs : op[p].at = "idle" /\ mode[p] = "off" /\ todo[p] = {}
  BY DEF Init, NoOp
<1>3. CopyInv
  <2>1. tomb = {} /\ \A p \in Procs : copy[p].tombs = {}
    BY DEF Init, NoCopy
  <2> QED
    BY <2>1 DEF CopyInv, Done, FactsOf
<1> QED
  BY <1>1, <1>2, <1>3, TypeInit
     DEF IInv, JournalInv, OpInv, TodoInv, Old

\* Every step of every program keeps the invariant.
LEMMA InvStep == IInv /\ [Next]_vars => IInv'
<1> SUFFICES ASSUME IInv, [Next]_vars PROVE IInv'
  OBVIOUS
<1> USE DEF diskVars, syncVars, procVars, pastVars
<1>a. TypeOK'
  BY TypeStep DEF IInv
<1>b. Invs' => IInv'
  BY <1>a, CopyStep DEF IInv, Invs
<1>j. \A t \in Tokens : JournalInv(t)
  BY DEF IInv
<1>i. UNCHANGED <<promised, tomb, lost>> => \A t \in Tokens : Done(t) => Done(t)'
  BY DEF Done, FactsOf
<1>c. TypeOK /\ \A q \in Procs : OpInv(q) /\ TodoInv(q)
  BY DEF IInv
<1>d. \A q \in Procs : op[q].tok \in Tokens /\ op[q].facts \in SUBSET Files
                       /\ op[q].planned \in BOOLEAN /\ op[q].at \in Steps
  BY <1>c DEF TypeOK, Op
<1>e. ASSUME NEW p \in Procs, Leave(p)
      PROVE  \A q \in Procs : GoesOn(q)
  BY <1>c, <1>e DEF Leave, GoesOn, TypeOK, NoOp
<1>f. ASSUME NEW p \in Procs, NEW s \in Steps, Goto(p, s)
      PROVE  /\ op'[p] = [op[p] EXCEPT !.at = s]
             /\ op'[p].at = s /\ op'[p].tok = op[p].tok
             /\ \A q \in Procs : q # p => op'[q] = op[q]
  <2>1. op'[p] = [op[p] EXCEPT !.at = s]
        /\ \A q \in Procs : q # p => op'[q] = op[q]
    BY <1>c, <1>f DEF Goto, TypeOK
  <2> QED
    BY <1>c, <2>1 DEF TypeOK, Op
<1>g. \A s \in {"planned", "journaled", "moved", "loaded", "tombstoned", "marked",
                "logged", "closing"} : s \in Steps
  BY DEF Steps
<1>1. ASSUME NEW p \in Procs, NEW t \in Tokens, Plan(p, t) PROVE IInv'
  <2>1. /\ op'[p].at = "planned" /\ op'[p].tok = t /\ op'[p].planned
        /\ \A q \in Procs : q # p => op'[q] = op[q]
        /\ journal[t].phase = "none"
        /\ \A q \in Procs : op[q].at = "idle" \/ op[q].tok # t
        /\ UNCHANGED <<journal, promised, tomb, lost, mode, todo>>
    BY <1>1, <1>c DEF Plan, TypeOK, NoJournal, Idle
  <2>2. \A u \in Tokens : (Done(u) = Done(u)') /\ (JournalInv(u) = JournalInv(u)')
    BY <2>1 DEF JournalInv, Done, FactsOf
  <2>3. ASSUME NEW q \in Procs PROVE OpInv(q)'
    <3>1. q # p /\ Done(op[q].tok) => Done(op[q].tok)'
      BY <2>1 DEF Done, FactsOf
    <3> QED
      BY <1>c, <2>1, <3>1 DEF OpInv
  <2>4. ASSUME NEW q \in Procs PROVE TodoInv(q)'
    BY <1>c, <2>1, <2>2 DEF TodoInv, TypeOK
  <2> QED
    BY <1>b, <1>j, <2>2, <2>3, <2>4 DEF Invs
<1>2. ASSUME NEW p \in Procs, SavePending(p) PROVE IInv'
  <2> DEFINE t == op[p].tok
  <2>1. /\ op[p].at = "planned" /\ op[p].planned
        /\ journal[t].phase = "none"
        /\ journal' = [journal EXCEPT ![t] =
             [phase |-> "pending", facts |-> op[p].facts, planned |-> TRUE]]
        /\ promised' = [promised EXCEPT ![t] = op[p].facts]
        /\ UNCHANGED <<tomb, lost, mode, todo>>
    BY <1>2, <1>c, <1>d DEF SavePending, Is, Write, OpInv
  <2>2. op'[p].at = "journaled" /\ op'[p].tok = t
        /\ \A q \in Procs : q # p => op'[q] = op[q]
    BY <1>2, <1>f, <1>g DEF SavePending
  <2>3. \A q \in Procs : q # p => ~(op[q].at = "planned" /\ op[q].tok = t)
    BY <1>c, <2>1 DEF OpInv
  <2>4. \A q \in Procs : \A r \in todo[q] : r.tok # t
    BY <1>c, <2>1 DEF TodoInv
  <2>5. t \in Tokens /\ op[p].facts \in SUBSET Files
    BY <1>d
  <2>6. PICK facts \in SUBSET Files : facts = op[p].facts
    BY <2>5
  <2>7. \A q \in Procs : /\ todo'[q] \subseteq todo[q]
                         /\ \A r \in todo'[q] : r.tok # t
    BY <2>1, <2>4
  <2>8. \A q \in Procs : q # p =>
          /\ op'[q] = op[q]
          /\ ~(op[q].at = "planned" /\ op[q].tok = t)
    BY <2>2, <2>3
  <2> HIDE DEF t
  <2> QED
    BY <1>a, <1>b, <2>1, <2>2, <2>5, <2>6, <2>7, <2>8, PromiseStep
<1>3. ASSUME NEW p \in Procs, Move(p) \/ RecordHistory(p) PROVE IInv'
  <2>1. \A q \in Procs : GoesOn(q)
    BY <1>3, <1>f, <1>g
       DEF Move, RecordHistory, Is, GoesOn, Working, Late
  <2> QED
    BY <1>3, <1>a, <1>b, <2>1, <1>i, QuietStep DEF Move, RecordHistory
<1>4. ASSUME NEW p \in Procs, CannotMove(p) \/ StepFails(p) PROVE IInv'
  BY <1>4, <1>a, <1>b, <1>e, <1>i, QuietStep DEF CannotMove, StepFails
<1>5. ASSUME NEW p \in Procs, LoadState(p) \/ WriteState(p) PROVE IInv'
  <2>1. \A q \in Procs : GoesOn(q)
    BY <1>5, <1>f, <1>g
       DEF LoadState, WriteState, Is, GoesOn, Working, Late
  <2>2. \A t \in Tokens : Done(t) => Done(t)'
    BY <1>5, <1>i, SavedState DEF LoadState, WriteState
  <2> QED
    BY <1>5, <1>a, <1>b, <2>1, <2>2, QuietStep DEF LoadState, WriteState
<1>15. ASSUME NEW p \in Procs, AddTombstones(p) PROVE IInv'
  <2>1. PICK t \in Tokens : t = op[p].tok
    BY <1>d
  <2>2. /\ op[p].at = "loaded" /\ op'[p].at = "tombstoned" /\ op'[p].tok = t
        /\ \A q \in Procs : q # p => op'[q] = op[q]
        /\ UNCHANGED <<journal, promised, mode, todo>>
    BY <1>15, <1>f, <1>g, <2>1 DEF AddTombstones, Is
  <2>3. \A u \in Tokens : Done(u) => Done(u)'
    BY <1>15, <1>i, <2>2, SavedState DEF AddTombstones
  <2>4. Done(t)'
    <3>1. CASE FactsOf(t) \subseteq copy[p].tombs
      <4>1. Done(t)
        BY <3>1 DEF IInv, CopyInv
      <4> QED
        BY <2>3, <4>1
    <3>2. CASE ~(FactsOf(t) \subseteq copy[p].tombs)
      <4>1. tomb' = copy[p].tombs \union FactsOf(t)
        BY <1>15, <2>1, <3>2 DEF AddTombstones, SaveState
      <4> QED
        BY <2>2, <4>1 DEF Done, FactsOf
    <3> QED
      BY <3>1, <3>2
  <2>5. Done(op[p].tok)'
    BY <2>1, <2>2, <2>4 DEF Done, FactsOf
  <2>6. \A q \in Procs : GoesOn(q)
    BY <2>1, <2>2, <2>5 DEF GoesOn, Working
  <2> QED
    BY <1>a, <1>b, <2>2, <2>3, <2>6, QuietStep
<1>6. ASSUME NEW p \in Procs, MarkApplied(p) \/ MarkRecorded(p) PROVE IInv'
  <2>1. \A q \in Procs : GoesOn(q)
    BY <1>6, <1>f, <1>g
       DEF MarkApplied, MarkRecorded, Is, GoesOn, Working, Late
  <2>2. CASE UNCHANGED journal
    BY <1>6, <1>a, <1>b, <2>1, <2>2, <1>i, QuietStep
       DEF MarkApplied, MarkRecorded
  <2>3. ASSUME NEW phase \in {"applied", "recorded"}, Write(p, phase)
        PROVE  IInv'
    <3>1. PICK t \in Tokens : t = op[p].tok
      BY <1>d
    <3>2. /\ journal[t].phase # "none" /\ ~Old(journal[t]) /\ Done(t)
      BY <1>6, <1>c, <3>1 DEF MarkApplied, MarkRecorded, Is, OpInv
    <3>3. /\ journal'[t].phase = phase
          /\ \A u \in Tokens : u # t => journal'[u] = journal[u]
      BY <1>c, <2>3, <3>1 DEF Write, TypeOK
    <3>4. UNCHANGED <<promised, tomb, lost, mode, todo>>
      BY <1>6 DEF MarkApplied, MarkRecorded
    <3> QED
      BY <1>a, <1>b, <2>1, <3>2, <3>3, <3>4, WriteStep
  <2> QED
    BY <1>6, <2>2, <2>3 DEF MarkApplied, MarkRecorded
<1>7. ASSUME NEW p \in Procs, Clear(p) PROVE IInv'
  <2>1. PICK t \in Tokens : t = op[p].tok
    BY <1>d
  <2>2. /\ journal[t].phase # "none" /\ ~Old(journal[t]) /\ Done(t)
    BY <1>7, <1>c, <2>1 DEF Clear, Is, OpInv
  <2>3. /\ journal'[t].phase = "cleared"
        /\ \A u \in Tokens : u # t => journal'[u] = journal[u]
    BY <1>7, <1>c, <2>1 DEF Clear, Cleared, TypeOK, Journal
  <2> QED
    BY <1>7, <1>a, <1>b, <1>e, <2>2, <2>3, WriteStep DEF Clear
<1>8. ASSUME NEW p \in Procs, Start(p) PROVE IInv'
  <2>1. /\ todo'[p] = {[tok |-> t, was |-> journal[t]] :
                         t \in {u \in Tokens : journal[u].phase \in Open}}
        /\ \A q \in Procs : q # p => todo'[q] = todo[q] /\ todo[q] = {}
        /\ mode'[p] = "starting"
        /\ \A q \in Procs : q # p => mode'[q] # "starting"
        /\ UNCHANGED <<journal, promised, tomb, lost, op>>
    BY <1>8, <1>c DEF Start, TypeOK
  <2>2. \A u \in Tokens : (Done(u) = Done(u)') /\ (JournalInv(u) = JournalInv(u)')
    BY <2>1 DEF JournalInv, Done, FactsOf
  <2>3. \A q \in Procs : OpInv(q)'
    BY <1>c, <2>1 DEF OpInv, Done, FactsOf
  <2>4. ASSUME NEW q \in Procs PROVE TodoInv(q)'
    <3>1. \A r \in todo'[q] : /\ r.tok \in Tokens /\ r.was = journal[r.tok]
                              /\ journal[r.tok].phase \in Open
      BY <2>1
    <3>2. \A r \in todo'[q] : r = [tok |-> r.tok, was |-> r.was]
      BY <2>1
    <3>3. \A r \in todo'[q], s \in todo'[q] : r.tok = s.tok => r = s
      BY <3>1, <3>2
    <3>4. \A t \in Tokens : journal[t].phase \in {"applied", "recorded"} => Done(t)
      BY DEF IInv, JournalInv
    <3> QED
      BY <2>1, <2>2, <3>1, <3>3, <3>4 DEF TodoInv, Open
  <2> QED
    BY <1>b, <1>j, <2>2, <2>3, <2>4 DEF Invs
<1>9. ASSUME NEW p \in Procs, Started(p) \/ Quit(p) PROVE IInv'
  BY <1>9, <1>a, <1>b, <1>c, <1>i, QuietStep DEF Started, Quit, GoesOn, TypeOK
<1>10. ASSUME NEW p \in Procs, NEW r \in todo[p], RecoverRecorded(p, r)
       PROVE  IInv'
  <2>1. PICK t \in Tokens : t = r.tok
    BY <1>c DEF TypeOK
  <2>2. /\ journal[t].phase # "none" /\ ~Old(journal[t]) /\ Done(t)
    BY <1>10, <1>c, <2>1 DEF RecoverRecorded, Takes, TodoInv, Old
  <2>3. /\ journal'[t].phase = "cleared"
        /\ \A u \in Tokens : u # t => journal'[u] = journal[u]
    BY <1>10, <1>c, <2>1 DEF RecoverRecorded, Cleared, TypeOK, Journal
  <2>4. \A q \in Procs : GoesOn(q) /\ todo'[q] \subseteq todo[q]
    BY <1>10, <1>c DEF RecoverRecorded, Takes, GoesOn, TypeOK
  <2> QED
    BY <1>10, <1>a, <1>b, <2>2, <2>3, <2>4, WriteStep DEF RecoverRecorded
<1>11. ASSUME NEW p \in Procs, NEW r \in todo[p], RecoverApplied(p, r)
       PROVE  IInv'
  <2>1. "marked" \in Steps /\ ~Old(r.was)
        /\ r.was.phase \in {"applied", "recorded"}
    BY <1>11, <1>g DEF RecoverApplied, Takes, Old
  <2> QED
    BY <1>11, <1>a, <1>b, <2>1, ResumeStep DEF RecoverApplied, Takes
<1>12. ASSUME NEW p \in Procs, NEW r \in todo[p], RecoverPending(p, r)
       PROVE  IInv'
  <2>1. /\ Idle(op[p]) /\ mode[p] = "starting" /\ r.was.phase = "pending"
        /\ todo' = [todo EXCEPT ![p] = @ \ {r}]
        /\ UNCHANGED <<tomb, lost, mode>>
        /\ r.tok \in Tokens /\ r.was \in Journal
    BY <1>12, <1>c DEF RecoverPending, Takes, TypeOK
  <2>2. /\ todo'[p] = todo[p] \ {r}
        /\ \A q \in Procs : todo'[q] \subseteq todo[q]
    BY <1>c, <2>1 DEF TypeOK
  <2>3. CASE FinishMoved(p, r)
    <3>1. ~Old(r.was)
      BY <1>c, <2>1, <2>3 DEF FinishMoved, TodoInv, IInv, JournalInv, Old
    <3>2. "moved" \notin Late
      BY DEF Late
    <3> QED
      BY <1>a, <1>b, <1>g, <2>1, <2>3, <3>1, <3>2, ResumeStep
         DEF FinishMoved
  <2>4. CASE Replay(p, r)
    <3>1. ~Old(r.was) /\ "journaled" \notin Late
      BY <2>4 DEF Replay, Old, Late
    <3> QED
      BY <1>a, <1>b, <1>g, <2>1, <2>4, <3>1, ResumeStep DEF Replay
  <2>5. CASE Upgrade(p, r)
    <3>1. Old(r.was) /\ Old(journal[r.tok])
      BY <1>c, <2>1, <2>5 DEF Upgrade, TodoInv, Old
    <3>2. op'[p].at = "journaled" /\ op'[p].tok = r.tok
          /\ \A q \in Procs : q # p => op'[q] = op[q]
      BY <1>c, <2>5 DEF Upgrade, Resume, TypeOK
    <3>3. \A q \in Procs : ~(op[q].at = "planned" /\ op[q].tok = r.tok)
      BY <1>c, <3>1 DEF OpInv, Old
    <3>4. \A q \in Procs : \A s \in todo'[q] : s.tok # r.tok
      <4>1. ASSUME NEW q \in Procs, NEW s \in todo'[q] PROVE s.tok # r.tok
        <5>1. CASE q = p
          BY <1>c, <2>2, <4>1, <5>1 DEF TodoInv
        <5>2. CASE q # p
          <6>1. mode[q] # "starting"
            BY <1>c, <2>1, <5>2 DEF TodoInv
          <6> QED
            BY <1>c, <2>2, <4>1, <6>1 DEF TypeOK
        <5> QED
          BY <5>1, <5>2
      <4> QED
        BY <4>1
    <3>5. dir \in SUBSET Files
      BY <1>c DEF TypeOK
    <3>6. \A q \in Procs : /\ todo'[q] \subseteq todo[q]
                           /\ \A s \in todo'[q] : s.tok # r.tok
      BY <2>2, <3>4
    <3>7. \A q \in Procs : q # p =>
            /\ op'[q] = op[q]
            /\ ~(op[q].at = "planned" /\ op[q].tok = r.tok)
      BY <3>2, <3>3
    <3>8. PICK t \in Tokens : t = r.tok
      BY <2>1
    <3>9. PICK facts \in SUBSET Files : facts = dir
      BY <3>5
    <3>10. /\ journal' = [journal EXCEPT ![t] =
                  [phase |-> "pending", facts |-> facts, planned |-> TRUE]]
           /\ promised' = [promised EXCEPT ![t] = facts]
           /\ UNCHANGED <<tomb, lost, mode>>
      BY <2>1, <2>5, <3>8, <3>9 DEF Upgrade
    <3> QED
      BY <1>a, <1>b, <3>1, <3>2, <3>6, <3>7, <3>8, <3>10, PromiseStep
  <2>6. CASE Retain(r)
    BY <1>a, <1>b, <2>1, <2>2, <2>6, <1>i, QuietStep DEF Retain, GoesOn
  <2> QED
    BY <1>12, <2>3, <2>4, <2>5, <2>6 DEF RecoverPending
<1>13. ASSUME NEW p \in Procs, Crash(p) PROVE IInv'
  <2>1. \A q \in Procs : todo'[q] \subseteq todo[q]
                         /\ (mode'[q] = "starting" => mode[q] = "starting")
    BY <1>13, <1>c DEF Crash, TypeOK
  <2> QED
    BY <1>13, <1>a, <1>b, <1>e, <2>1, <1>i, QuietStep DEF Crash
<1>14. CASE \/ \E p \in Procs : Sync(p) \/ \E f \in Files : Create(p, f)
            \/ \E f \in Files : AddRemotely(f)
            \/ UNCHANGED vars
  <2>1. UNCHANGED <<journal, promised, tomb, lost, op, todo, mode>>
    BY <1>14 DEF Sync, Create, AddRemotely, vars
  <2> QED
    BY <1>a, <1>b, <2>1, <1>i, QuietStep DEF GoesOn
<1> QED
  BY <1>1, <1>2, <1>3, <1>4, <1>5, <1>6, <1>7, <1>8, <1>9, <1>10, <1>11,
     <1>12, <1>13, <1>14, <1>15 DEF Next, Deletion, Recovery

\* Whichever program moved a directory to the trash, and whatever crashed or
\* failed since: its tombstones are there, or its journal is, or a program
\* has undone them with the state it had read before.
THEOREM NothingForgottenHolds == Spec => []NothingForgotten
<1>1. IInv => NothingForgotten
  <2> SUFFICES ASSUME IInv, NEW t \in Tokens
               PROVE  \/ promised[t] \X {t} \subseteq tomb \/ t \in lost
                      \/ /\ journal[t].phase = "pending"
                         /\ journal[t].facts = promised[t]
    BY DEF NothingForgotten
  <2>1. JournalInv(t) /\ journal[t].phase \in Phases
    BY DEF IInv, TypeOK, Journal
  <2> QED
    BY <2>1 DEF JournalInv, Done, FactsOf, Phases
<1>2. Init /\ [][Next]_vars => []IInv
  BY InvInit, InvStep, PTL
<1> QED
  BY <1>1, <1>2, PTL DEF Spec

-----------------------------------------------------------------------------
(* The history, for the two programs there are.                            *)

\* A deletion past the rename of its directory.
Past == {"moved", "loaded", "tombstoned", "marked", "logged", "closing"}

\* Nobody has finished, or is finishing, what the journal says is pending.
Untouched(t) ==
  /\ journal[t].phase = "pending"
  /\ \A p \in Procs : op[p].at \in Past => op[p].tok # t
  /\ \A p \in Procs : \A r \in todo[p] :
       r.tok = t => r.was.phase \notin {"applied", "recorded"}

\* The history must still be told of this deletion, and somebody will.
Owing(t) ==
  /\ trash[t] # {} /\ journal[t].phase \in {"pending", "applied"}
  /\ \A p \in Procs : op[p].at \in {"logged", "closing"} => op[p].tok # t
  /\ \A p \in Procs : \A r \in todo[p] : r.tok = t => r.was.phase # "recorded"

\* Who has a plan has the marker in it, and a directory in the trash has one;
\* a volume that is gone and was not there from the beginning is in the trash.
\* Nobody adds the marker to a remote that has none.
PlanInv ==
  /\ \A t \in Tokens : journal[t].phase # "none" /\ ~Old(journal[t])
                       => Marker \in promised[t]
  /\ \A t \in Tokens : trash[t] # {} => journal[t].phase # "none" /\ ~Old(journal[t])
  /\ \A p \in Procs : op[p].at = "planned" => Marker \in op[p].facts
  /\ Marker \in known \ dir => \E t \in Tokens : trash[t] # {}
  /\ Marker \in remote => Marker \in known

\* A program that has started is past the rename only by its own rename; one
\* that starts reads journals nobody is finishing, or of a directory that is
\* in the trash.
StartInv(p) ==
  /\ mode[p] = "on" /\ op[p].at \in Past => trash[op[p].tok] # {}
  /\ \A r \in todo[p] : r.was.phase = "pending" => trash[r.tok] # {} \/ Untouched(r.tok)

\* A rename that is still possible leaves a deletion the history is told of:
\* its own, or an earlier one that came to a stop.
MoveInv(p) ==
  op[p].at = "journaled" /\ MayMove(op[p].tok) =>
    Untouched(op[p].tok) \/ \E t \in Tokens : trash[t] # {} /\ Untouched(t)

HistoryInv == tracked \subseteq dir \/ \E t \in Tokens : Owing(t)

HInv == PlanInv /\ HistoryInv /\ \A p \in Procs : StartInv(p) /\ MoveInv(p)

\* Where a deletion gets to.
LEMMA OpSteps ==
  ASSUME TypeOK, NEW p \in Procs
  PROVE  /\ \A s \in Steps : Goto(p, s) =>
              /\ op'[p].at = s /\ op'[p].tok = op[p].tok /\ op'[p].facts = op[p].facts
              /\ \A q \in Procs : q # p => op'[q] = op[q]
         /\ Leave(p) => /\ op'[p].at = "idle"
                        /\ \A q \in Procs : q # p => op'[q] = op[q]
         /\ \A r \in [tok : Tokens, was : Journal], s \in Steps : Resume(p, r, s) =>
              /\ op'[p].at = s /\ op'[p].tok = r.tok
              /\ \A q \in Procs : q # p => op'[q] = op[q]
<1>1. op \in [Procs -> Op]
  BY DEF TypeOK
<1>2. ASSUME NEW s \in Steps, Goto(p, s)
      PROVE  /\ op'[p].at = s /\ op'[p].tok = op[p].tok /\ op'[p].facts = op[p].facts
             /\ \A q \in Procs : q # p => op'[q] = op[q]
  <2>1. /\ op'[p] = [op[p] EXCEPT !.at = s]
        /\ \A q \in Procs : q # p => op'[q] = op[q]
    BY <1>1, <1>2 DEF Goto
  <2>2. op[p] \in Op
    BY <1>1
  <2> QED BY <2>1, <2>2 DEF Op
<1>3. Leave(p) => /\ op'[p].at = "idle"
                  /\ \A q \in Procs : q # p => op'[q] = op[q]
  BY <1>1 DEF Leave, NoOp
<1>4. ASSUME NEW r \in [tok : Tokens, was : Journal], NEW s \in Steps, Resume(p, r, s)
      PROVE  /\ op'[p].at = s /\ op'[p].tok = r.tok
             /\ \A q \in Procs : q # p => op'[q] = op[q]
  BY <1>1, <1>4 DEF Resume
<1> QED BY <1>2, <1>3, <1>4

\* A step that keeps plans, the trash and what remotes have keeps the plans.
LEMMA PlansKept ==
  ASSUME IInv, PlanInv, UNCHANGED <<promised, trash>>,
         \A t \in Tokens : Planned(t)' <=> Planned(t),
         \A p \in Procs : op'[p].at = "planned" =>
           Marker \in op'[p].facts \/ op'[p] = op[p],
         Marker \in known' \ dir' => Marker \in (known \union remote) \ dir,
         Marker \in remote' => Marker \in known'
  PROVE  PlanInv'
<1>1. \A t \in Tokens : Planned(t)' => Marker \in promised'[t]
  BY DEF PlanInv, Planned
<1>2. \A t \in Tokens : trash'[t] # {} => Planned(t)'
  BY DEF PlanInv, Planned
<1>3. \A p \in Procs : op'[p].at = "planned" => Marker \in op'[p].facts
  BY DEF PlanInv
<1> QED BY <1>1, <1>2, <1>3 DEF PlanInv, Planned

\* A deletion nobody has touched stays so when nobody goes past it.
LEMMA UntouchedKept ==
  ASSUME NEW t \in Tokens, Untouched(t), journal'[t].phase = "pending",
         \A p \in Procs : op'[p].at \in Past /\ op'[p].tok = t =>
           op[p].at \in Past /\ op[p].tok = t,
         \A p \in Procs : \A r \in todo'[p] : r.tok = t =>
           r \in todo[p] \/ r.was.phase \notin {"applied", "recorded"}
  PROVE  Untouched(t)'
BY DEF Untouched

\* A deletion the history is owed stays so until somebody tells it.
LEMMA OwingKept ==
  ASSUME NEW t \in Tokens, Owing(t), journal'[t].phase \in {"pending", "applied"},
         trash'[t] # {},
         \A p \in Procs : op'[p].at \in {"logged", "closing"} /\ op'[p].tok = t =>
           op[p].at \in {"logged", "closing"} /\ op[p].tok = t,
         \A p \in Procs : \A r \in todo'[p] : r.tok = t =>
           r \in todo[p] \/ r.was.phase # "recorded"
  PROVE  Owing(t)'
BY DEF Owing

\* A step that begins no rename and brings nothing back keeps what programs
\* know of each other's deletions, and the history.
LEMMA NothingBegun ==
  ASSUME HInv, PlanInv', UNCHANGED trash,
         \A t \in Tokens : Untouched(t) => Untouched(t)',
         \A p \in Procs : op[p].tok \in Tokens /\ \A r \in todo[p] : r.tok \in Tokens,
         \A p \in Procs : op'[p].at = "journaled" => op'[p] = op[p],
         \A p \in Procs : mode'[p] = "on" /\ op'[p].at \in Past =>
           mode[p] = "on" /\ op[p].at \in Past /\ op'[p].tok = op[p].tok,
         \A p \in Procs : todo'[p] \subseteq todo[p],
         Marker \in dir' => Marker \in dir,
         HistoryInv'
  PROVE  HInv'
<1>1. ASSUME NEW p \in Procs PROVE StartInv(p)' /\ MoveInv(p)'
  <2>1. StartInv(p) /\ MoveInv(p)
    BY DEF HInv
  <2>2. StartInv(p)'
    BY <2>1 DEF StartInv
  <2>3. MoveInv(p)'
    <3> SUFFICES ASSUME op'[p].at = "journaled", MayMove(op[p].tok)'
                 PROVE  \/ Untouched(op[p].tok)'
                        \/ \E t \in Tokens : trash[t] # {} /\ Untouched(t)'
      BY DEF MoveInv, MayMove, Untouched
    <3>1. op[p].at = "journaled" /\ MayMove(op[p].tok)
      BY DEF MayMove
    <3>2. Untouched(op[p].tok) \/ \E t \in Tokens : trash[t] # {} /\ Untouched(t)
      BY <2>1, <3>1 DEF MoveInv
    <3> QED BY <3>2
  <2> QED BY <2>2, <2>3
<1> QED BY <1>1 DEF HInv

\* What a deletion does between its rename and its end, and a program that
\* takes up a journal that was applied.
Carries(p) ==
  \/ op'[p] = op[p]
  \/ op'[p].at = "idle"
  \/ op'[p].at = "planned" /\ Marker \in op'[p].facts
  \/ /\ op'[p].at \in Past /\ ~Untouched(op'[p].tok)
     /\ mode'[p] = "on" =>
          mode[p] = "on" /\ op[p].at \in Past /\ op'[p].tok = op[p].tok
     /\ op'[p].at \in {"logged", "closing"} =>
          \/ tracked' = {}
          \/ op[p].at \in {"logged", "closing"} /\ op'[p].tok = op[p].tok

\* Such steps keep the invariant when they write what nobody else goes by.
LEMMA CarriesOn ==
  ASSUME IInv, HInv, UNCHANGED <<promised, trash>>,
         \A p \in Procs : Carries(p),
         \A p \in Procs : todo'[p] \subseteq todo[p],
         \A p \in Procs : mode'[p] = "on" /\ op'[p] = op[p] /\ op[p].at # "idle"
                          => mode[p] = "on",
         \A t \in Tokens : Planned(t)' <=> Planned(t),
         \A t \in Tokens : Untouched(t) => journal'[t].phase = "pending",
         \A t \in Tokens : Owing(t) => journal'[t].phase \in {"pending", "applied"},
         Marker \in dir' <=> Marker \in dir,
         Marker \in known' => Marker \in known \union remote,
         Marker \in remote' => Marker \in known',
         tracked \subseteq dir => tracked' \subseteq dir',
         ~(tracked \subseteq dir) => tracked' = {} \/ tracked' = tracked
  PROVE  HInv'
<1>1. PlanInv'
  <2>1. PlanInv
    BY DEF HInv
  <2>2. \A p \in Procs : op'[p].at = "planned" =>
          Marker \in op'[p].facts \/ op'[p] = op[p]
    BY DEF Carries, Past
  <2> QED BY <2>1, <2>2, PlansKept
<1>2. ASSUME NEW t \in Tokens, Untouched(t) PROVE Untouched(t)'
  <2>1. \A p \in Procs : op'[p].at \in Past /\ op'[p].tok = t =>
          op[p].at \in Past /\ op[p].tok = t
    BY <1>2 DEF Carries, Past
  <2>2. journal'[t].phase = "pending"
    BY <1>2
  <2> QED BY <1>2, <2>1, <2>2, UntouchedKept
<1>3. HistoryInv'
  <2>1. CASE tracked \subseteq dir \/ tracked' = {}
    BY <2>1 DEF HistoryInv
  <2>2. CASE ~(tracked \subseteq dir) /\ tracked' # {}
    <3>1. PICK t \in Tokens : Owing(t)
      BY <2>2 DEF HInv, HistoryInv
    <3>2. \A p \in Procs : op'[p].at \in {"logged", "closing"} /\ op'[p].tok = t =>
            op[p].at \in {"logged", "closing"} /\ op[p].tok = t
      BY <2>2 DEF Carries
    <3>3. journal'[t].phase \in {"pending", "applied"} /\ trash'[t] # {}
      BY <3>1 DEF Owing
    <3>4. Owing(t)'
      BY <3>1, <3>2, <3>3, OwingKept
    <3> QED BY <3>4 DEF HistoryInv
  <2> QED BY <2>1, <2>2
<1>4. \A p \in Procs : op[p].tok \in Tokens /\ \A r \in todo[p] : r.tok \in Tokens
  BY DEF IInv, TypeOK, Op
<1>5. \A p \in Procs : op'[p].at = "journaled" => op'[p] = op[p]
  BY DEF Carries, Past
<1>6. \A p \in Procs : mode'[p] = "on" /\ op'[p].at \in Past =>
        mode[p] = "on" /\ op[p].at \in Past /\ op'[p].tok = op[p].tok
  BY DEF Carries, Past
<1> QED BY <1>1, <1>2, <1>3, <1>4, <1>5, <1>6, NothingBegun

\* A plan that is saved is nobody else's yet.
LEMMA PlanSaved ==
  ASSUME IInv, HInv, NEW p \in Procs, NEW t \in Tokens, NEW facts \in SUBSET Files,
         Marker \in facts,
         journal[t].phase = "none" \/ Old(journal[t]),
         journal' = [journal EXCEPT ![t] =
                       [phase |-> "pending", facts |-> facts, planned |-> TRUE]],
         promised' = [promised EXCEPT ![t] = facts],
         op'[p].at = "journaled", op'[p].tok = t,
         \A q \in Procs : q # p => op'[q] = op[q],
         \A q \in Procs : todo'[q] \subseteq todo[q],
         UNCHANGED <<dir, trash, tracked, known, remote, mode>>
  PROVE  HInv'
<1>1. /\ journal'[t].phase = "pending" /\ journal'[t].planned
      /\ promised'[t] = facts
      /\ \A u \in Tokens : u # t => /\ journal'[u] = journal[u]
                                    /\ promised'[u] = promised[u]
  BY DEF IInv, TypeOK
<1>2. /\ PlanInv /\ HistoryInv /\ \A q \in Procs : StartInv(q) /\ MoveInv(q)
      /\ \A q \in Procs : OpInv(q) /\ TodoInv(q)
      /\ \A q \in Procs : op[q].tok \in Tokens /\ \A r \in todo[q] : r.tok \in Tokens
  BY DEF HInv, IInv, TypeOK, Op
<1>3. trash[t] = {}
  BY <1>2 DEF PlanInv, Old
<1>4. PlanInv'
  <2>1. \A u \in Tokens : journal'[u].phase # "none" /\ ~Old(journal'[u])
                          => Marker \in promised'[u]
    BY <1>1, <1>2 DEF PlanInv
  <2>2. \A u \in Tokens : trash'[u] # {} =>
                            journal'[u].phase # "none" /\ ~Old(journal'[u])
    BY <1>1, <1>2, <1>3 DEF PlanInv
  <2> QED BY <1>2, <2>1, <2>2 DEF PlanInv
<1>5. Untouched(t)'
  <2>1. \A q \in Procs : op'[q].at \in Past => op'[q].tok # t
    BY <1>2 DEF OpInv, Past, Old
  <2>2. \A q \in Procs : \A r \in todo'[q] :
          r.tok = t => r.was.phase \notin {"applied", "recorded"}
    BY <1>2 DEF TodoInv, Old
  <2> QED BY <1>1, <2>1, <2>2 DEF Untouched
<1>6. ASSUME NEW u \in Tokens, Untouched(u) PROVE Untouched(u)'
  BY <1>1, <1>5, <1>6 DEF Untouched, Past
<1>7. HistoryInv'
  <2>1. ASSUME NEW u \in Tokens, Owing(u) PROVE Owing(u)'
    <3>1. u # t
      BY <1>3, <2>1 DEF Owing
    <3> QED BY <1>1, <2>1, <3>1 DEF Owing
  <2> QED BY <1>2, <2>1 DEF HistoryInv
<1>8. ASSUME NEW q \in Procs PROVE StartInv(q)'
  BY <1>2, <1>6 DEF StartInv, Past
<1>9. ASSUME NEW q \in Procs PROVE MoveInv(q)'
  <2>1. CASE q = p
    BY <1>5, <2>1 DEF MoveInv, Untouched
  <2>2. CASE q # p
    <3>1. PICK v \in Tokens : v = op[q].tok
      BY <1>2
    <3>2. op'[q].at = op[q].at /\ op'[q].tok = v
      BY <2>2, <3>1
    <3> SUFFICES ASSUME op[q].at = "journaled", MayMove(v)
                 PROVE  Untouched(v)' \/ \E u \in Tokens : trash'[u] # {} /\ Untouched(u)'
      BY <3>2 DEF MoveInv, MayMove, Untouched
    <3>3. Untouched(v) \/ \E u \in Tokens : trash[u] # {} /\ Untouched(u)
      BY <1>2, <3>1 DEF MoveInv
    <3> QED BY <1>6, <3>3
  <2> QED BY <2>1, <2>2
<1> QED BY <1>4, <1>7, <1>8, <1>9 DEF HInv

\* Any two of the programs are the same, or one of them is the third: the
\* application and the MCP server.
AtMostTwo == \A p, q, r \in Procs : p = q \/ q = r \/ p = r

\* The initial states: a history that has what the directory has.
LEMMA HistoryInit == Init => HInv
<1> SUFFICES ASSUME Init PROVE HInv
  OBVIOUS
<1>1. \A t \in Tokens : trash[t] = {} /\ (journal[t].phase = "none" \/ Old(journal[t]))
  BY DEF Init, NoJournal, Old
<1>2. \A p \in Procs : op[p].at = "idle" /\ todo[p] = {}
  BY DEF Init, NoOp
<1>3. tracked = dir /\ known = remote /\ known \subseteq dir
  BY DEF Init
<1> QED
  BY <1>1, <1>2, <1>3
     DEF HInv, PlanInv, HistoryInv, StartInv, MoveInv, Past

\* A rename: the history is told of it, or of the one that stopped before.
LEMMA MoveKeeps ==
  ASSUME IInv, HInv, NEW p \in Procs, Move(p)
  PROVE  HInv'
<1>1. PICK t \in Tokens : t = op[p].tok
  BY DEF IInv, TypeOK, Op
<1>2. /\ op[p].at = "journaled" /\ MayMove(t)
      /\ trash' = [trash EXCEPT ![t] = dir] /\ dir' = {}
      /\ UNCHANGED <<tracked, journal, known, remote, mode, todo, promised>>
  BY <1>1 DEF Move, Is, syncVars, pastVars
<1>3. /\ op'[p].at = "moved" /\ op'[p].tok = t
      /\ \A q \in Procs : q # p => op'[q] = op[q]
  <2>1. Goto(p, "moved") /\ "moved" \in Steps
    BY DEF Move, Steps
  <2> QED BY <1>1, <2>1, OpSteps DEF IInv
<1>4. /\ PlanInv /\ HistoryInv /\ \A q \in Procs : StartInv(q) /\ MoveInv(q)
      /\ \A q \in Procs : OpInv(q)
      /\ \A q \in Procs : op[q].tok \in Tokens /\ \A r \in todo[q] : r.tok \in Tokens
  BY DEF HInv, IInv, TypeOK, Op
<1>5. /\ trash'[t] = dir /\ trash'[t] # {} /\ trash[t] = {}
      /\ \A u \in Tokens : u # t => trash'[u] = trash[u]
  BY <1>2 DEF MayMove, IInv, TypeOK
<1>6. journal[t].phase # "none" /\ ~Old(journal[t])
  BY <1>1, <1>2, <1>4 DEF OpInv
<1>7. PlanInv'
  <2>1. \A u \in Tokens : trash'[u] # {} =>
                            journal'[u].phase # "none" /\ ~Old(journal'[u])
    BY <1>2, <1>4, <1>5, <1>6 DEF PlanInv
  <2>2. \A q \in Procs : op'[q].at = "planned" => Marker \in op'[q].facts
    BY <1>3, <1>4 DEF PlanInv
  <2>3. \A u \in Tokens : journal'[u].phase # "none" /\ ~Old(journal'[u])
                          => Marker \in promised'[u]
    BY <1>2, <1>4 DEF PlanInv
  <2>4. Marker \in remote' => Marker \in known'
    BY <1>2, <1>4 DEF PlanInv
  <2> QED BY <1>5, <2>1, <2>2, <2>3, <2>4 DEF PlanInv
<1>8. \A u \in Tokens : u # t /\ Untouched(u) => Untouched(u)'
  BY <1>2, <1>3 DEF Untouched
<1>9. HistoryInv'
  <2>1. CASE Untouched(t)
    <3>1. Owing(t)'
      BY <1>2, <1>3, <1>5, <2>1 DEF Owing, Untouched, Past
    <3> QED BY <3>1 DEF HistoryInv
  <2>2. CASE ~Untouched(t)
    <3>1. PICK u \in Tokens : trash[u] # {} /\ Untouched(u)
      BY <1>1, <1>2, <1>4, <2>2 DEF MoveInv
    <3>2. u # t
      BY <2>2, <3>1
    <3>3. Owing(u)'
      BY <1>2, <1>3, <1>5, <3>1, <3>2 DEF Owing, Untouched, Past
    <3> QED BY <3>3 DEF HistoryInv
  <2> QED BY <2>1, <2>2
<1>10. ASSUME NEW q \in Procs PROVE StartInv(q)'
  <2>1. mode'[q] = "on" /\ op'[q].at \in Past => trash'[op'[q].tok] # {}
    BY <1>2, <1>3, <1>4, <1>5 DEF StartInv
  <2>2. ASSUME NEW r \in todo'[q], r.was.phase = "pending"
        PROVE  trash'[r.tok] # {} \/ Untouched(r.tok)'
    <3>1. PICK u \in Tokens : u = r.tok
      BY <1>2, <1>4
    <3>2. trash[u] # {} \/ Untouched(u)
      BY <1>2, <1>4, <2>2, <3>1 DEF StartInv
    <3>3. trash'[u] # {} \/ Untouched(u)'
      BY <1>5, <1>8, <3>2
    <3> QED BY <3>1, <3>3 DEF Untouched
  <2> QED BY <2>1, <2>2 DEF StartInv, Untouched
<1>11. ASSUME NEW q \in Procs PROVE MoveInv(q)'
  BY <1>2 DEF MoveInv, MayMove
<1> QED BY <1>7, <1>9, <1>10, <1>11 DEF HInv

\* A starting program takes up a journal it read as pending: it goes on after
\* the rename, or before it.
LEMMA PendingKeeps ==
  ASSUME IInv, HInv, NEW p \in Procs, NEW r \in todo[p],
         NEW s \in {"moved", "journaled"},
         r.was.phase = "pending", mode[p] = "starting",
         Resume(p, r, s), todo' = [todo EXCEPT ![p] = @ \ {r}],
         s = "moved" => dir = {},
         UNCHANGED <<dir, trash, tracked, known, remote, journal, promised, mode>>
  PROVE  HInv'
<1>1. PICK t \in Tokens : t = r.tok
  BY DEF IInv, TypeOK
<1>2. /\ op'[p].at = s /\ op'[p].tok = t
      /\ \A q \in Procs : q # p => op'[q] = op[q]
  <2>1. r \in [tok : Tokens, was : Journal] /\ s \in Steps
    BY DEF IInv, TypeOK, Steps
  <2> QED BY <1>1, <2>1, OpSteps DEF IInv
<1>3. /\ todo'[p] = todo[p] \ {r}
      /\ \A q \in Procs : q # p => todo'[q] = {}
      /\ \A q \in Procs : todo'[q] \subseteq todo[q]
  <2>1. \A q \in Procs : q # p => todo[q] = {}
    BY DEF IInv, TodoInv, TypeOK
  <2> QED BY <2>1 DEF IInv, TypeOK
<1>4. /\ PlanInv /\ HistoryInv /\ \A q \in Procs : StartInv(q) /\ MoveInv(q)
      /\ \A q \in Procs : op[q].tok \in Tokens /\ \A x \in todo[q] : x.tok \in Tokens
      /\ \A x \in todo'[p] : x.tok # t
  BY <1>1, <1>3 DEF HInv, IInv, TypeOK, Op, TodoInv
<1>5. PlanInv'
  <2>1. \A u \in Tokens : Planned(u)' <=> Planned(u)
    BY DEF Planned, Old
  <2>2. \A q \in Procs : op'[q].at = "planned" => op'[q] = op[q]
    BY <1>2
  <2>3. Marker \in remote' => Marker \in known'
    BY <1>4 DEF PlanInv
  <2> QED BY <1>4, <2>1, <2>2, <2>3, PlansKept
<1>6. \A u \in Tokens : (u # t \/ s = "journaled") /\ Untouched(u) => Untouched(u)'
  BY <1>2, <1>3 DEF Untouched, Past
<1>7. HistoryInv'
  <2>1. ASSUME NEW u \in Tokens, Owing(u) PROVE Owing(u)'
    BY <1>2, <1>3, <2>1 DEF Owing
  <2> QED BY <1>4, <2>1 DEF HistoryInv
<1>8. ASSUME NEW q \in Procs PROVE StartInv(q)'
  <2>1. mode'[q] = "on" /\ op'[q].at \in Past => trash'[op'[q].tok] # {}
    BY <1>2, <1>4 DEF StartInv
  <2>2. ASSUME NEW x \in todo'[q], x.was.phase = "pending"
        PROVE  trash'[x.tok] # {} \/ Untouched(x.tok)'
    <3>1. PICK u \in Tokens : u = x.tok
      BY <1>3, <1>4
    <3>2. u # t
      BY <1>3, <1>4, <2>2, <3>1
    <3>3. trash[u] # {} \/ Untouched(u)
      BY <1>3, <1>4, <2>2, <3>1 DEF StartInv
    <3>4. trash'[u] # {} \/ Untouched(u)'
      BY <1>6, <3>2, <3>3
    <3> QED BY <3>1, <3>4 DEF Untouched
  <2> QED BY <2>1, <2>2 DEF StartInv, Untouched
<1>9. ASSUME NEW q \in Procs PROVE MoveInv(q)'
  <2>1. CASE s = "moved"
    BY <2>1 DEF MoveInv, MayMove
  <2>2. CASE s = "journaled" /\ q = p
    <3>1. trash[t] = {} => Untouched(t)
      BY <1>1, <1>4 DEF StartInv
    <3>2. trash[t] = {} => Untouched(t)'
      BY <1>6, <2>2, <3>1
    <3> QED BY <1>2, <2>2, <3>2 DEF MoveInv, MayMove, Untouched
  <2>3. CASE s = "journaled" /\ q # p
    <3>1. PICK v \in Tokens : v = op[q].tok
      BY <1>4
    <3>2. op'[q].at = op[q].at /\ op'[q].tok = v
      BY <1>2, <2>3, <3>1
    <3> SUFFICES ASSUME op[q].at = "journaled", MayMove(v)
                 PROVE  Untouched(v)' \/ \E u \in Tokens : trash'[u] # {} /\ Untouched(u)'
      BY <3>2 DEF MoveInv, MayMove, Untouched
    <3>3. Untouched(v) \/ \E u \in Tokens : trash[u] # {} /\ Untouched(u)
      BY <1>4, <3>1 DEF MoveInv
    <3> QED BY <1>6, <2>3, <3>3
  <2> QED BY <2>1, <2>2, <2>3
<1> QED BY <1>5, <1>7, <1>8, <1>9 DEF HInv

\* A program that starts reads what is pending: nobody is at it, or the
\* directory is in the trash.
LEMMA StartKeeps ==
  ASSUME IInv, HInv, NEW p \in Procs, Start(p)
  PROVE  HInv'
<1>1. /\ todo'[p] = {[tok |-> t, was |-> journal[t]] :
                       t \in {u \in Tokens : journal[u].phase \in Open}}
      /\ \A q \in Procs : q # p => todo'[q] = {}
      /\ \A q \in Procs : mode[q] # "starting"
      /\ \A q \in Procs : mode'[q] = "on" => mode[q] = "on"
      /\ UNCHANGED <<dir, trash, tracked, journal, known, remote, op, promised>>
  BY DEF Start, IInv, TypeOK, diskVars, syncVars, pastVars
<1>2. /\ PlanInv /\ HistoryInv /\ \A q \in Procs : StartInv(q) /\ MoveInv(q)
      /\ \A q \in Procs : op[q].tok \in Tokens /\ mode[q] \in {"off", "starting", "on"}
      /\ \A q \in Procs : mode[q] = "off" => op[q].at = "idle"
  BY DEF HInv, IInv, TypeOK, Op, Idle
<1>3. \A q \in Procs : \A r \in todo'[q] : r.tok \in Tokens /\ r.was = journal[r.tok]
  BY <1>1
<1>4. PlanInv'
  <2>1. \A u \in Tokens : Planned(u)' <=> Planned(u)
    BY <1>1 DEF Planned, Old
  <2>2. Marker \in remote' => Marker \in known'
    BY <1>1, <1>2 DEF PlanInv
  <2> QED BY <1>1, <1>2, <2>1, <2>2, PlansKept
<1>5. \A u \in Tokens : Untouched(u) => Untouched(u)'
  BY <1>1, <1>3 DEF Untouched
<1>6. HistoryInv'
  <2>1. ASSUME NEW u \in Tokens, Owing(u) PROVE Owing(u)'
    BY <1>1, <1>3, <2>1 DEF Owing
  <2> QED BY <1>1, <1>2, <2>1 DEF HistoryInv
<1>7. ASSUME NEW q \in Procs PROVE StartInv(q)'
  <2>1. mode'[q] = "on" /\ op'[q].at \in Past => trash'[op'[q].tok] # {}
    BY <1>1, <1>2 DEF StartInv
  <2>2. ASSUME NEW r \in todo'[q], r.was.phase = "pending"
        PROVE  trash'[r.tok] # {} \/ Untouched(r.tok)'
    <3>1. PICK u \in Tokens : u = r.tok
      BY <1>3
    <3>2. journal[u].phase = "pending"
      BY <1>3, <2>2, <3>1
    <3>3. CASE \E x \in Procs : op[x].at \in Past /\ op[x].tok = u
      BY <1>1, <1>2, <3>1, <3>3 DEF StartInv, Past
    <3>4. CASE \A x \in Procs : op[x].at \in Past => op[x].tok # u
      <4>1. Untouched(u)'
        BY <1>1, <1>3, <3>2, <3>4 DEF Untouched
      <4> QED BY <3>1, <4>1 DEF Untouched
    <3> QED BY <3>3, <3>4
  <2> QED BY <2>1, <2>2 DEF StartInv, Untouched
<1>8. ASSUME NEW q \in Procs PROVE MoveInv(q)'
  <2>1. PICK v \in Tokens : v = op[q].tok
    BY <1>2
  <2> SUFFICES ASSUME op[q].at = "journaled", MayMove(v)
               PROVE  Untouched(v)' \/ \E u \in Tokens : trash'[u] # {} /\ Untouched(u)'
    BY <1>1, <2>1 DEF MoveInv, MayMove, Untouched
  <2>2. Untouched(v) \/ \E u \in Tokens : trash[u] # {} /\ Untouched(u)
    BY <1>2, <2>1 DEF MoveInv
  <2> QED BY <1>1, <1>5, <2>2
<1> QED BY <1>4, <1>6, <1>7, <1>8 DEF HInv

\* A round that brings a volume back finds no tombstone of its marker: what
\* was planned is pending, and of the two programs only one, which is not in
\* the round, may be between a rename and its tombstones.
LEMMA SyncKeeps ==
  ASSUME IInv, HInv, lost = {}, AtMostTwo, NEW p \in Procs, Sync(p)
  PROVE  HInv'
<1>1. /\ dir' = dir \union Fetched /\ tracked' = tracked \union Fetched
      /\ remote' = (remote \union dir) \ Deleted /\ known' = remote'
      /\ UNCHANGED <<trash, tomb, journal, mode, todo, op, promised>>
  BY DEF Sync, pastVars
<1>2. /\ PlanInv /\ HistoryInv /\ \A q \in Procs : StartInv(q) /\ MoveInv(q)
      /\ \A q \in Procs : OpInv(q) /\ TodoInv(q)
      /\ \A t \in Tokens : JournalInv(t) /\ journal[t].phase \in Phases
      /\ \A q \in Procs : op[q].tok \in Tokens /\ op[q].at \in Steps
  BY DEF HInv, IInv, TypeOK, Op, Journal
<1>3. op[p].at \notin {"moved", "loaded"}
  BY DEF Sync, CoreFree
<1>4. \A u \in Tokens : (Untouched(u)' <=> Untouched(u)) /\ (Owing(u)' <=> Owing(u))
  BY <1>1 DEF Untouched, Owing
<1>5. PlanInv'
  <2>1. \A u \in Tokens : Planned(u)' <=> Planned(u)
    BY <1>1 DEF Planned, Old
  <2>2. Marker \in known' \ dir' => Marker \in (known \union remote) \ dir
    BY <1>1
  <2> QED BY <1>1, <1>2, <2>1, <2>2, PlansKept
<1>6. HistoryInv'
  BY <1>1, <1>2, <1>4 DEF HistoryInv
<1>7. \A q \in Procs : StartInv(q)'
  BY <1>1, <1>2 DEF StartInv, Untouched
<1>8. ASSUME NEW q \in Procs PROVE MoveInv(q)'
  <2>1. PICK v \in Tokens : v = op[q].tok
    BY <1>2
  <2> SUFFICES ASSUME op[q].at = "journaled", Marker \in dir', trash[v] = {}
               PROVE  Untouched(v) \/ \E u \in Tokens : trash[u] # {} /\ Untouched(u)
    BY <1>1, <1>4, <2>1 DEF MoveInv, MayMove, Untouched
  <2>2. CASE Marker \in dir
    BY <1>2, <2>1, <2>2 DEF MoveInv, MayMove
  <2>3. CASE Marker \notin dir
    <3>1. Marker \in known /\ \A u \in Tokens : <<Marker, u>> \notin tomb
      BY <1>1, <1>2, <2>3 DEF Fetched, Gone, Deleted, PlanInv
    <3>2. PICK w \in Tokens : trash[w] # {}
      BY <1>2, <2>3, <3>1 DEF PlanInv
    <3>3. Planned(v) /\ Planned(w)
      BY <1>2, <2>1, <3>2 DEF OpInv, PlanInv, Planned
    <3>4. \A u \in Tokens : Planned(u) => ~Done(u)
      BY <1>2, <3>1 DEF PlanInv, Planned, Done, FactsOf
    <3>5. ASSUME NEW u \in Tokens, Planned(u), ~Untouched(u)
          PROVE  \E x \in Procs : op[x].at \in {"moved", "loaded"} /\ op[x].tok = u
      <4>1. journal[u].phase = "pending"
        BY <1>2, <3>4, <3>5 DEF JournalInv, Planned, Phases
      <4>2. \A x \in Procs : \A r \in todo[x] :
              r.tok = u => r.was.phase \notin {"applied", "recorded"}
        BY <1>2, <3>4, <3>5 DEF TodoInv
      <4>3. PICK x \in Procs : op[x].at \in Past /\ op[x].tok = u
        BY <3>5, <4>1, <4>2 DEF Untouched
      <4>4. op[x].at \in {"moved", "loaded"}
        BY <1>2, <3>4, <3>5, <4>3 DEF OpInv, Past
      <4> QED BY <4>3, <4>4
    <3> SUFFICES ASSUME ~Untouched(v), ~Untouched(w) PROVE FALSE
      BY <3>2
    <3>6. PICK x \in Procs : op[x].at \in {"moved", "loaded"} /\ op[x].tok = v
      BY <3>3, <3>5
    <3>7. PICK y \in Procs : op[y].at \in {"moved", "loaded"} /\ op[y].tok = w
      BY <3>3, <3>5
    <3>8. x = y
      BY <1>3, <3>6, <3>7 DEF AtMostTwo
    <3> QED BY <3>2, <3>6, <3>7, <3>8
  <2> QED BY <2>2, <2>3
<1> QED BY <1>5, <1>6, <1>7, <1>8 DEF HInv

\* Every step of the two programs keeps what is known of the history.
LEMMA HistoryStep ==
  IInv /\ HInv /\ lost = {} /\ AtMostTwo /\ [Next]_vars => HInv'
<1> SUFFICES ASSUME IInv, HInv, lost = {}, AtMostTwo, [Next]_vars PROVE HInv'
  OBVIOUS
<1> USE DEF diskVars, syncVars, procVars, pastVars
<1>a. /\ TypeOK /\ PlanInv
      /\ \A q \in Procs : OpInv(q) /\ TodoInv(q)
      /\ \A q \in Procs : op[q].tok \in Tokens /\ op[q].facts \in SUBSET Files
                          /\ \A r \in todo[q] : r.tok \in Tokens
      /\ \A t \in Tokens : Done(t) \/ journal[t].phase \in {"none", "pending", "cleared",
                                                          "applied", "recorded"}
  BY DEF HInv, IInv, TypeOK, Op, Journal, Phases
<1>b. /\ \A s \in {"planned", "journaled", "moved", "loaded", "tombstoned", "marked",
                  "logged", "closing"} : s \in Steps
      /\ (Marker \in remote => Marker \in known)
  BY <1>a DEF Steps, PlanInv
<1>c. \A t \in Tokens : (Untouched(t) => journal[t].phase = "pending")
                        /\ (Owing(t) => journal[t].phase \in {"pending", "applied"})
  BY DEF Untouched, Owing
<1>d. journal' = journal => \A t \in Tokens : Planned(t)' <=> Planned(t)
  BY DEF Planned, Old
<1>e. \A q \in Procs : op[q].at \in Past => ~Untouched(op[q].tok)
  BY DEF Untouched
<1>1. ASSUME NEW p \in Procs, NEW t \in Tokens, Plan(p, t) PROVE HInv'
  <2>1. \A q \in Procs : Carries(q)
    BY <1>1, <1>a DEF Plan, Carries, TypeOK
  <2>2. op[p].at = "idle" /\ mode' = mode
    BY <1>1 DEF Plan, Idle
  <2> QED BY <1>1, <1>b, <1>c, <1>d, <2>1, <2>2, CarriesOn DEF Plan
<1>2. ASSUME NEW p \in Procs, SavePending(p) PROVE HInv'
  <2>1. PICK t \in Tokens, facts \in SUBSET Files : t = op[p].tok /\ facts = op[p].facts
    BY <1>a
  <2>2. /\ Marker \in facts /\ journal[t].phase = "none"
        /\ journal' = [journal EXCEPT ![t] =
             [phase |-> "pending", facts |-> facts, planned |-> TRUE]]
        /\ promised' = [promised EXCEPT ![t] = facts]
        /\ UNCHANGED <<dir, trash, tracked, known, remote, mode, todo>>
    BY <1>2, <1>a, <2>1 DEF SavePending, Is, Write, OpInv, PlanInv
  <2>3. /\ op'[p].at = "journaled" /\ op'[p].tok = t
        /\ \A q \in Procs : q # p => op'[q] = op[q]
    BY <1>2, <1>a, <1>b, <2>1, OpSteps DEF SavePending
  <2> QED BY <2>2, <2>3, PlanSaved
<1>3. ASSUME NEW p \in Procs, Move(p) PROVE HInv'
  BY <1>3, MoveKeeps
<1>4. ASSUME NEW p \in Procs, CannotMove(p) \/ StepFails(p) PROVE HInv'
  <2>1. \A q \in Procs : Carries(q)
    BY <1>4, <1>a, OpSteps DEF CannotMove, StepFails, Carries
  <2> QED BY <1>4, <1>b, <1>c, <1>d, <2>1, CarriesOn DEF CannotMove, StepFails
<1>5. ASSUME NEW p \in Procs, LoadState(p) \/ AddTombstones(p) \/ WriteState(p)
      PROVE  HInv'
  <2>1. \A q \in Procs : Carries(q)
    BY <1>5, <1>a, <1>b, <1>e, OpSteps
       DEF LoadState, AddTombstones, WriteState, Is, Carries, Past
  <2>2. UNCHANGED <<dir, trash, tracked, journal, known, remote, mode, todo,
                    promised>>
    BY <1>5 DEF LoadState, AddTombstones, WriteState
  <2> QED BY <1>b, <1>c, <1>d, <2>1, <2>2, CarriesOn
<1>6. ASSUME NEW p \in Procs, RecordHistory(p) PROVE HInv'
  <2>1. \A q \in Procs : Carries(q)
    BY <1>6, <1>a, <1>b, <1>e, OpSteps DEF RecordHistory, Is, Carries, Past
  <2> QED BY <1>6, <1>b, <1>c, <1>d, <2>1, CarriesOn DEF RecordHistory
<1>7. ASSUME NEW p \in Procs, NEW t \in Tokens,
             NEW phase \in {"applied", "recorded", "cleared"},
             ~Old(journal[t]), journal[t].phase # "none", ~Untouched(t),
             Owing(t) => phase = "applied",
             journal'[t].phase = phase,
             \A u \in Tokens : u # t => journal'[u] = journal[u],
             \A q \in Procs : Carries(q), \A q \in Procs : todo'[q] \subseteq todo[q],
             UNCHANGED <<dir, trash, tracked, known, remote, promised, mode>>
      PROVE  HInv'
  <2>1. \A u \in Tokens : Planned(u)' <=> Planned(u)
    BY <1>7 DEF Planned, Old
  <2>2. \A u \in Tokens : Untouched(u) => journal'[u].phase = "pending"
    BY <1>7, <1>c
  <2>3. \A u \in Tokens : Owing(u) => journal'[u].phase \in {"pending", "applied"}
    BY <1>7, <1>c
  <2> QED BY <1>7, <1>b, <2>1, <2>2, <2>3, CarriesOn
<1>8. ASSUME NEW p \in Procs, MarkApplied(p) PROVE HInv'
  <2>1. \A q \in Procs : Carries(q)
    BY <1>8, <1>a, <1>b, <1>e, OpSteps DEF MarkApplied, Is, Carries, Past
  <2>2. CASE journal' = journal
    BY <1>8, <1>b, <1>c, <1>d, <2>1, <2>2, CarriesOn DEF MarkApplied
  <2>3. CASE Write(p, "applied")
    <3>1. PICK t \in Tokens : t = op[p].tok
      BY <1>a
    <3>2. ~Old(journal[t]) /\ journal[t].phase # "none" /\ ~Untouched(t)
      BY <1>8, <1>a, <1>e, <3>1 DEF MarkApplied, Is, OpInv, Past
    <3>3. journal'[t].phase = "applied" /\ \A u \in Tokens : u # t => journal'[u] = journal[u]
      BY <1>a, <2>3, <3>1 DEF Write, TypeOK
    <3> QED BY <1>8, <1>7, <2>1, <3>2, <3>3 DEF MarkApplied
  <2> QED BY <1>8, <2>2, <2>3 DEF MarkApplied
<1>9. ASSUME NEW p \in Procs, MarkRecorded(p) PROVE HInv'
  <2>1. \A q \in Procs : Carries(q)
    BY <1>9, <1>a, <1>b, <1>e, OpSteps DEF MarkRecorded, Is, Carries, Past
  <2>2. PICK t \in Tokens : t = op[p].tok
    BY <1>a
  <2>3. ~Old(journal[t]) /\ journal[t].phase # "none" /\ ~Untouched(t) /\ ~Owing(t)
    BY <1>9, <1>a, <1>e, <2>2 DEF MarkRecorded, Is, OpInv, Past, Owing
  <2>4. journal'[t].phase = "recorded" /\ \A u \in Tokens : u # t => journal'[u] = journal[u]
    BY <1>9, <1>a, <2>2 DEF MarkRecorded, Write, TypeOK
  <2> QED BY <1>9, <1>7, <2>1, <2>3, <2>4 DEF MarkRecorded
<1>10. ASSUME NEW p \in Procs, Clear(p) PROVE HInv'
  <2>1. \A q \in Procs : Carries(q)
    BY <1>10, <1>a, OpSteps DEF Clear, Carries
  <2>2. PICK t \in Tokens : t = op[p].tok
    BY <1>a
  <2>3. ~Old(journal[t]) /\ journal[t].phase # "none" /\ ~Untouched(t) /\ ~Owing(t)
    BY <1>10, <1>a, <1>e, <2>2 DEF Clear, Is, OpInv, Past, Owing
  <2>4. journal'[t].phase = "cleared" /\ \A u \in Tokens : u # t => journal'[u] = journal[u]
    BY <1>10, <1>a, <2>2 DEF Clear, Cleared, TypeOK, Journal
  <2> QED BY <1>10, <1>7, <2>1, <2>3, <2>4 DEF Clear
<1>11. ASSUME NEW p \in Procs, Start(p) PROVE HInv'
  BY <1>11, StartKeeps
<1>12. ASSUME NEW p \in Procs, Started(p) \/ Quit(p) PROVE HInv'
  <2>1. /\ \A q \in Procs : Carries(q)
        /\ \A q \in Procs : mode'[q] = "on" /\ op[q].at # "idle" => mode[q] = "on"
    BY <1>12, <1>a DEF Started, Quit, Carries, Idle, TypeOK
  <2> QED BY <1>12, <1>b, <1>c, <1>d, <2>1, CarriesOn DEF Started, Quit
<1>13. ASSUME NEW p \in Procs, NEW r \in todo[p], RecoverRecorded(p, r)
       PROVE  HInv'
  <2>1. PICK t \in Tokens : t = r.tok
    BY <1>a
  <2>2. r.was.phase = "recorded" /\ todo' = [todo EXCEPT ![p] = @ \ {r}]
        /\ op' = op
    BY <1>13 DEF RecoverRecorded, Takes
  <2>3. ~Old(journal[t]) /\ journal[t].phase # "none" /\ ~Untouched(t) /\ ~Owing(t)
    BY <1>a, <2>1, <2>2 DEF TodoInv, Old, Untouched, Owing
  <2>4. journal'[t].phase = "cleared" /\ \A u \in Tokens : u # t => journal'[u] = journal[u]
    BY <1>13, <1>a, <2>1 DEF RecoverRecorded, Cleared, TypeOK, Journal
  <2>5. \A q \in Procs : Carries(q) /\ todo'[q] \subseteq todo[q]
    BY <1>a, <2>2 DEF Carries, TypeOK
  <2> QED BY <1>13, <1>7, <2>3, <2>4, <2>5 DEF RecoverRecorded
<1>14. ASSUME NEW p \in Procs, NEW r \in todo[p], RecoverApplied(p, r)
       PROVE  HInv'
  <2>1. /\ r.was.phase = "applied" /\ mode[p] = "starting"
        /\ todo' = [todo EXCEPT ![p] = @ \ {r}]
        /\ Resume(p, r, "marked")
        /\ UNCHANGED <<dir, trash, tracked, journal, known, remote, mode, promised>>
    BY <1>14 DEF RecoverApplied, Takes
  <2>2. /\ op'[p].at = "marked" /\ op'[p].tok = r.tok
        /\ \A q \in Procs : q # p => op'[q] = op[q]
    <3>1. r \in [tok : Tokens, was : Journal]
      BY <1>a DEF TypeOK
    <3> QED BY <1>a, <1>b, <2>1, <3>1, OpSteps
  <2>3. ~Untouched(r.tok)
    BY <2>1 DEF Untouched
  <2>4. \A q \in Procs : Carries(q) /\ todo'[q] \subseteq todo[q]
    BY <1>a, <2>1, <2>2, <2>3 DEF Carries, Past, TypeOK
  <2> QED BY <1>b, <1>c, <1>d, <2>1, <2>4, CarriesOn
<1>15. ASSUME NEW p \in Procs, NEW r \in todo[p], RecoverPending(p, r)
       PROVE  HInv'
  <2>1. /\ Idle(op[p]) /\ mode[p] = "starting" /\ r.was.phase = "pending"
        /\ todo' = [todo EXCEPT ![p] = @ \ {r}]
        /\ UNCHANGED <<dir, trash, tracked, known, remote, mode>>
    BY <1>15 DEF RecoverPending, Takes
  <2>2. \A q \in Procs : todo'[q] \subseteq todo[q]
    BY <1>a, <2>1 DEF TypeOK
  <2>3. CASE FinishMoved(p, r)
    BY <2>1, <2>3, PendingKeeps DEF FinishMoved
  <2>4. CASE Replay(p, r)
    BY <2>1, <2>4, PendingKeeps DEF Replay
  <2>5. CASE Upgrade(p, r)
    <3>1. PICK t \in Tokens, facts \in SUBSET Files : t = r.tok /\ facts = dir
      BY <1>a DEF TypeOK
    <3>2. Marker \in facts /\ Old(journal[t])
      BY <1>a, <2>1, <2>5, <3>1 DEF Upgrade, TodoInv, Old
    <3>3. op'[p].at = "journaled" /\ op'[p].tok = t
          /\ \A q \in Procs : q # p => op'[q] = op[q]
      <4>1. r \in [tok : Tokens, was : Journal] /\ Resume(p, r, "journaled")
        BY <1>a, <2>5 DEF TypeOK, Upgrade
      <4> QED BY <1>a, <1>b, <3>1, <4>1, OpSteps
    <3>4. /\ journal' = [journal EXCEPT ![t] =
               [phase |-> "pending", facts |-> facts, planned |-> TRUE]]
          /\ promised' = [promised EXCEPT ![t] = facts]
      BY <2>5, <3>1 DEF Upgrade
    <3> QED BY <2>1, <2>2, <3>2, <3>3, <3>4, PlanSaved
  <2>6. CASE Retain(r)
    <3>1. \A q \in Procs : Carries(q)
      BY <2>6 DEF Retain, Carries
    <3> QED BY <1>b, <1>c, <1>d, <2>1, <2>2, <2>6, <3>1, CarriesOn DEF Retain
  <2> QED
    BY <1>15, <2>3, <2>4, <2>5, <2>6 DEF RecoverPending
<1>16. ASSUME NEW p \in Procs, Crash(p) PROVE HInv'
  <2>1. /\ \A q \in Procs : Carries(q) /\ todo'[q] \subseteq todo[q]
        /\ \A q \in Procs : mode'[q] = "on" => mode[q] = "on"
    BY <1>16, <1>a, OpSteps DEF Crash, Carries, TypeOK
  <2> QED BY <1>16, <1>b, <1>c, <1>d, <2>1, CarriesOn DEF Crash
<1>17. ASSUME NEW p \in Procs, NEW f \in Files, Create(p, f) PROVE HInv'
  <2>1. \A q \in Procs : Carries(q)
    BY <1>17 DEF Create, Carries
  <2>2. UNCHANGED <<trash, journal, known, remote, mode, todo, op, promised>>
    BY <1>17 DEF Create
  <2>3. /\ Marker \in dir /\ dir' = dir \union {f} /\ tracked' = tracked \union {f}
    BY <1>17 DEF Create
  <2>4. CASE tracked \subseteq dir
    BY <1>b, <1>c, <1>d, <2>1, <2>2, <2>3, <2>4, CarriesOn
  <2>5. CASE ~(tracked \subseteq dir)
    <3>1. PICK t \in Tokens : Owing(t)
      BY <2>5 DEF HInv, HistoryInv
    <3>2. Owing(t)' /\ \A u \in Tokens : Untouched(u)' <=> Untouched(u)
      BY <2>2, <3>1 DEF Owing, Untouched
    <3>3. HistoryInv' /\ PlanInv'
      BY <1>a, <2>2, <2>3, <3>2 DEF HistoryInv, PlanInv
    <3>4. \A q \in Procs : op[q].tok \in Tokens /\ \A r \in todo[q] : r.tok \in Tokens
      BY <1>a
    <3> QED BY <2>2, <2>3, <3>2, <3>3, <3>4, NothingBegun
  <2> QED BY <2>4, <2>5
<1>18. ASSUME NEW p \in Procs, Sync(p) PROVE HInv'
  BY <1>18, SyncKeeps
<1>19. CASE (\E f \in Files : AddRemotely(f)) \/ UNCHANGED vars
  <2>1. /\ UNCHANGED <<dir, trash, tracked, journal, known, mode, todo, op, promised>>
        /\ Marker \in remote' => Marker \in remote
    BY <1>19 DEF AddRemotely, vars
  <2>2. \A q \in Procs : Carries(q)
    BY <2>1 DEF Carries
  <2> QED BY <1>b, <1>c, <1>d, <2>1, <2>2, CarriesOn
<1> QED
  BY <1>1, <1>2, <1>3, <1>4, <1>5, <1>6, <1>8, <1>9, <1>10, <1>11, <1>12,
     <1>13, <1>14, <1>15, <1>16, <1>17, <1>18, <1>19
     DEF Next, Deletion, Recovery

\* What is lost stays lost.
LEMMA LostStays == [Next]_vars => lost \subseteq lost'
<1> SUFFICES ASSUME [Next]_vars PROVE lost \subseteq lost'
  OBVIOUS
<1> USE DEF pastVars
<1>1. ASSUME NEW p \in Procs, Deletion(p) \/ StepFails(p) PROVE lost \subseteq lost'
  BY <1>1 DEF Deletion, StepFails, SavePending, Move, CannotMove, LoadState,
              AddTombstones, SaveState, MarkApplied, RecordHistory, MarkRecorded,
              Clear
<1>2. ASSUME NEW p \in Procs, Recovery(p) PROVE lost \subseteq lost'
  BY <1>2 DEF Recovery, Started, RecoverRecorded, RecoverApplied, RecoverPending
<1>3. ASSUME NEW p \in Procs,
             \/ \E t \in Tokens : Plan(p, t)
             \/ Start(p) \/ Quit(p) \/ Crash(p)
             \/ \E f \in Files : Create(p, f)
             \/ Sync(p) \/ WriteState(p)
      PROVE  lost \subseteq lost'
  BY <1>3 DEF Plan, Start, Quit, Crash, Create, Sync, WriteState, SaveState
<1>4. CASE (\E f \in Files : AddRemotely(f)) \/ UNCHANGED vars
  BY <1>4 DEF AddRemotely, vars
<1> QED
  BY <1>1, <1>2, <1>3, <1>4 DEF Next

\* Once no journal is left and nothing is under way, the history of the two
\* programs' workspace has no file that is not there: whenever it has, some
\* deletion whose directory is in the trash is yet to be recorded, by the
\* program at it or at the next start.  No tombstones may have been undone.
THEOREM HistoryInStepHolds ==
  ASSUME AtMostTwo PROVE Spec => []HistoryInStep
<1> DEFINE H == IInv /\ (lost = {} => HInv)
<1>1. H => HistoryInStep
  BY DEF HInv, HistoryInv, HistoryInStep, Owing, Open
<1>2. Init => H
  BY InvInit, HistoryInit
<1>3. H /\ [Next]_vars => H'
  BY InvStep, HistoryStep, LostStays
<1>4. Init /\ [][Next]_vars => []H
  <2> HIDE DEF H
  <2> QED BY <1>2, <1>3, PTL
<1> QED
  BY <1>1, <1>4, PTL DEF Spec

=============================================================================
