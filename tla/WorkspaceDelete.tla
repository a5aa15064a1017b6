-------------------------- MODULE WorkspaceDelete --------------------------
(***************************************************************************)
(* Deleting a volume (or a chapter) of a work with the workspace-change    *)
(* journal.  A deletion is planned: a place in the trash and one delete    *)
(* fact per file; the plan is saved as a Pending journal; the directory is *)
(* renamed into the trash and the facts become tombstones in the work's    *)
(* sync state; the journal says LocalApplied; the history of the workspace *)
(* records the change; the journal says HistoryRecorded and is removed.    *)
(* A program that starts finishes the journals it finds.  The desktop      *)
(* application and the MCP server work on the same files, each with its    *)
(* own lock on its core, so one may start while the other is deleting.     *)
(* The sync state is read, changed and written back as a whole, and nobody *)
(* locks it against the other program: a deletion and the commit of a      *)
(* round of two programs may each write back what it read before the other *)
(* wrote.                                                                  *)
(* Between the steps files are created and a sync round comes by, which    *)
(* fetches a known file that is gone without a tombstone.                  *)
(***************************************************************************)
EXTENDS Naturals, FiniteSets

CONSTANTS Procs,        \* programs that open the workspace
          Files,        \* files of the volume
          Marker,       \* volume.json, without which it is no volume
          Tokens,       \* deletions; bound on how many there are
          OldFormat,    \* deletions planned by a version that saved no facts
          MaxFaults,    \* bound on crashes and failed writes
          Syncing       \* programs that run sync rounds

ASSUME VolumeAssumption ==
  /\ Marker \in Files
  /\ Tokens # {}
  /\ OldFormat \subseteq Tokens
  /\ MaxFaults \in Nat /\ Syncing \subseteq Procs

Phases == {"none", "pending", "applied", "recorded", "cleared"}
Open == {"pending", "applied", "recorded"}

\* A journal: its phase, the facts it holds, whether it holds a plan at all.
Journal == [phase : Phases, facts : SUBSET Files, planned : BOOLEAN]

\* A deletion under way in a program: the step it is at, its token, the facts
\* and the plan of the journal the program has in memory.
Steps == {"idle", "planned", "journaled", "moved", "loaded", "tombstoned",
          "marked", "logged", "closing"}
Op == [at : Steps, tok : Tokens, facts : SUBSET Files, planned : BOOLEAN]
Idle(o) == o.at = "idle"

\* The sync state as a program has read it, to write it back.
Copy == [out : BOOLEAN, tombs : SUBSET (Files \X Tokens)]
NoCopy == [out |-> FALSE, tombs |-> {}]

VARIABLES
  dir,                  \* the files in the volume's directory
  trash,                \* the files a deletion moved to its place
  tomb,                 \* tombstones: a file and the deletion it is of
  tracked,              \* the volume's files in the head of the history
  journal,              \* the journals on disk
  known, remote,        \* files of the last sync; files on the remote
  mode,                 \* off, starting (it recovers) or on
  todo,                 \* journals a starting program has not looked at yet
  op,                   \* the deletion a program works on
  copy,                 \* the sync state it has read and will write back
  faults,
  promised,             \* history: the facts a deletion was planned with
  lost                  \* history: deletions whose tombstones were undone by
                        \* a program that wrote such a copy back

diskVars == <<dir, trash, tomb, tracked, journal>>
syncVars == <<known, remote>>
procVars == <<mode, todo, op, copy>>
pastVars == <<promised, lost>>
vars == <<diskVars, syncVars, procVars, faults, pastVars>>

NoJournal == [phase |-> "none", facts |-> {}, planned |-> FALSE]
NoOp == [at |-> "idle", tok |-> CHOOSE t \in Tokens : TRUE, facts |-> {},
         planned |-> FALSE]

\* An old version may have left a journal without facts, before or after it
\* moved the directory.
Init ==
  /\ dir \in {Files, {Marker}, {}}
  /\ trash = [t \in Tokens |-> {}]
  /\ tomb = {} /\ tracked = dir
  /\ journal = [t \in Tokens |->
                  IF t \in OldFormat THEN [NoJournal EXCEPT !.phase = "pending"]
                                     ELSE NoJournal]
  /\ dir = {} => OldFormat # {}
  /\ remote \in {{}, dir} /\ known = remote
  /\ mode = [p \in Procs |-> "off"]
  /\ todo = [p \in Procs |-> {}]
  /\ op = [p \in Procs |-> NoOp]
  /\ copy = [p \in Procs |-> NoCopy]
  /\ faults = 0
  /\ promised = [t \in Tokens |-> {}] /\ lost = {}

Fault == faults < MaxFaults /\ faults' = faults + 1

Is(p, step) == mode[p] # "off" /\ op[p].at = step
Goto(p, step) == op' = [op EXCEPT ![p].at = step]
Leave(p) == op' = [op EXCEPT ![p] = NoOp]

\* A round of the program is at its commit.
Committing(p) == copy[p].out /\ op[p].at # "loaded"

-----------------------------------------------------------------------------
(* The steps of a deletion.  A request that fails leaves its journal.      *)

\* plan_delete_volume: the facts are what the directory holds now.
Plan(p, t) ==
  /\ mode[p] = "on" /\ Idle(op[p]) /\ ~Committing(p)
  /\ Marker \in dir
  /\ journal[t] = NoJournal /\ \A q \in Procs : Idle(op[q]) \/ op[q].tok # t
  /\ op' = [op EXCEPT ![p] =
              [at |-> "planned", tok |-> t, facts |-> dir, planned |-> TRUE]]
  /\ UNCHANGED <<diskVars, syncVars, mode, todo, faults, copy, pastVars>>

\* write_journal: the whole journal is written from the copy in memory.
Write(p, phase) ==
  journal' = [journal EXCEPT ![op[p].tok] =
    [phase |-> phase, facts |-> op[p].facts, planned |-> op[p].planned]]

SavePending(p) ==
  /\ Is(p, "planned")
  /\ Write(p, "pending")
  /\ promised' = [promised EXCEPT ![op[p].tok] = op[p].facts]
  /\ Goto(p, "journaled")
  /\ UNCHANGED <<dir, trash, tomb, tracked, syncVars, mode, todo, faults,
                 copy, lost>>

\* The rename into the trash: the directory must still be a volume, and
\* nothing may lie in its place.
MayMove(t) == Marker \in dir /\ trash[t] = {}

Move(p) ==
  /\ Is(p, "journaled") /\ ~Committing(p) /\ MayMove(op[p].tok)
  /\ trash' = [trash EXCEPT ![op[p].tok] = dir]
  /\ dir' = {}
  /\ Goto(p, "moved")
  /\ UNCHANGED <<tomb, tracked, journal, syncVars, mode, todo, faults, copy,
                 pastVars>>

CannotMove(p) ==
  /\ Is(p, "journaled") /\ ~Committing(p) /\ ~MayMove(op[p].tok)
  /\ Leave(p)
  /\ UNCHANGED <<diskVars, syncVars, mode, todo, faults, copy, pastVars>>

\* ensure_sync_tombstones_for_target: the state is loaded, the facts it does
\* not have yet are added, and it is saved as a whole if there were any.
LoadState(p) ==
  /\ Is(p, "moved")
  /\ copy' = [copy EXCEPT ![p] = [out |-> TRUE, tombs |-> tomb]]
  /\ Goto(p, "loaded")
  /\ UNCHANGED <<diskVars, syncVars, mode, todo, faults, pastVars>>

FactsOf(t) == promised[t] \X {t}
SaveState(tombs) ==
  /\ tomb' = tombs
  /\ lost' = lost \union {t \in Tokens : /\ FactsOf(t) \subseteq tomb
                                         /\ ~(FactsOf(t) \subseteq tombs)}

AddTombstones(p) ==
  /\ Is(p, "loaded")
  /\ LET facts == FactsOf(op[p].tok) IN
       IF facts \subseteq copy[p].tombs
         THEN UNCHANGED <<tomb, lost>>
         ELSE SaveState(copy[p].tombs \union facts)
  /\ copy' = [copy EXCEPT ![p] = NoCopy]
  /\ Goto(p, "tombstoned")
  /\ UNCHANGED <<dir, trash, tracked, journal, syncVars, mode, todo, faults,
                 promised>>

MarkApplied(p) ==
  /\ Is(p, "tombstoned")
  /\ \/ Write(p, "applied") /\ UNCHANGED faults
     \/ Fault /\ UNCHANGED journal
  /\ Goto(p, "marked")
  /\ UNCHANGED <<dir, trash, tomb, tracked, syncVars, mode, todo, copy,
                 pastVars>>

\* The whole tree leaves the index, whatever the directory holds by now.
RecordHistory(p) ==
  /\ Is(p, "marked")
  /\ tracked' = {}
  /\ Goto(p, "logged")
  /\ UNCHANGED <<dir, trash, tomb, journal, syncVars, mode, todo, faults,
                 copy, pastVars>>

MarkRecorded(p) ==
  /\ Is(p, "logged")
  /\ Write(p, "recorded")
  /\ Goto(p, "closing")
  /\ UNCHANGED <<dir, trash, tomb, tracked, syncVars, mode, todo, faults,
                 copy, pastVars>>

Cleared(t) == journal' = [journal EXCEPT ![t].phase = "cleared"]

Clear(p) ==
  /\ Is(p, "closing")
  /\ Cleared(op[p].tok)
  /\ Leave(p)
  /\ UNCHANGED <<dir, trash, tomb, tracked, syncVars, mode, todo, faults,
                 copy, pastVars>>

\* An error at any step but MarkApplied, whose error is only logged.
StepFails(p) ==
  /\ mode[p] # "off" /\ op[p].at \notin {"idle", "tombstoned"}
  /\ Fault
  /\ Leave(p)
  /\ copy' = IF op[p].at = "loaded" THEN [copy EXCEPT ![p] = NoCopy] ELSE copy
  /\ UNCHANGED <<diskVars, syncVars, mode, todo, pastVars>>

-----------------------------------------------------------------------------
(* Start and recovery.  The workspace lock lets one program start at a     *)
(* time; it does not keep another from deleting.                           *)

\* Mutant: only what has not been applied yet is left to do.
StartPending(p) ==
  /\ mode[p] = "off" /\ ~copy[p].out /\ \A q \in Procs : mode[q] # "starting"
  /\ mode' = [mode EXCEPT ![p] = "starting"]
  /\ todo' = [todo EXCEPT ![p] =
       {[tok |-> t, was |-> journal[t]] :
          t \in {u \in Tokens : journal[u].phase = "pending"}}]
  /\ UNCHANGED <<diskVars, syncVars, op, faults, copy, pastVars>>

Start(p) ==
  /\ mode[p] = "off" /\ ~copy[p].out /\ \A q \in Procs : mode[q] # "starting"
  /\ mode' = [mode EXCEPT ![p] = "starting"]
  /\ todo' = [todo EXCEPT ![p] =
       {[tok |-> t, was |-> journal[t]] :
          t \in {u \in Tokens : journal[u].phase \in Open}}]
  /\ UNCHANGED <<diskVars, syncVars, op, faults, copy, pastVars>>

\* A starting program takes up the next journal, as it was when it read it.
Takes(p, r, phase) ==
  /\ mode[p] = "starting" /\ Idle(op[p])
  /\ r \in todo[p] /\ r.was.phase = phase
  /\ todo' = [todo EXCEPT ![p] = @ \ {r}]
Resume(p, r, step) ==
  op' = [op EXCEPT ![p] = [at |-> step, tok |-> r.tok, facts |-> r.was.facts,
                           planned |-> r.was.planned]]

RecoverRecorded(p, r) ==
  /\ Takes(p, r, "recorded")
  /\ Cleared(r.tok)
  /\ UNCHANGED <<dir, trash, tomb, tracked, syncVars, mode, op, faults, copy,
                 pastVars>>

\* Mutant: what was applied counts as recorded.
SkipHistory(p, r) ==
  /\ Takes(p, r, "applied")
  /\ Resume(p, r, "logged")
  /\ UNCHANGED <<diskVars, syncVars, mode, faults, copy, pastVars>>

RecoverApplied(p, r) ==
  /\ Takes(p, r, "applied")
  /\ Resume(p, r, "marked")
  /\ UNCHANGED <<diskVars, syncVars, mode, faults, copy, pastVars>>

\* Mutant: a directory that is gone has been deleted with all there is to it.
SkipWhenGone(p, r) ==
  /\ dir = {} /\ r.was.facts # {}
  /\ Resume(p, r, "tombstoned")
  /\ UNCHANGED <<journal, promised>>

\* The directory is gone: its facts must still become tombstones.
FinishMoved(p, r) ==
  /\ dir = {} /\ r.was.facts # {}
  /\ Resume(p, r, "moved")
  /\ UNCHANGED <<journal, promised>>

\* The directory is there: the planned deletion is replayed.
Replay(p, r) ==
  /\ dir # {} /\ r.was.planned
  /\ Resume(p, r, "journaled")
  /\ UNCHANGED <<journal, promised>>

\* A journal without a plan gets one first, with the facts of the directory
\* as it is.  The copy in memory stays as it was read.
Upgrade(p, r) ==
  /\ Marker \in dir /\ ~r.was.planned
  /\ journal' = [journal EXCEPT ![r.tok] =
                   [phase |-> "pending", facts |-> dir, planned |-> TRUE]]
  /\ promised' = [promised EXCEPT ![r.tok] = dir]
  /\ Resume(p, r, "journaled")

\* Nothing can be done: no facts for a directory that is gone, or no volume
\* to plan for.  The journal stays.
Retain(r) ==
  /\ ~r.was.planned /\ Marker \notin dir
  /\ UNCHANGED <<journal, op, promised>>

RecoverPending(p, r) ==
  /\ Takes(p, r, "pending")
  /\ FinishMoved(p, r) \/ Replay(p, r) \/ Upgrade(p, r) \/ Retain(r)
  /\ UNCHANGED <<dir, trash, tomb, tracked, syncVars, mode, faults, copy,
                 lost>>

Started(p) ==
  /\ mode[p] = "starting" /\ Idle(op[p]) /\ todo[p] = {}
  /\ mode' = [mode EXCEPT ![p] = "on"]
  /\ UNCHANGED <<diskVars, syncVars, todo, op, faults, copy, pastVars>>

Quit(p) ==
  /\ mode[p] = "on" /\ Idle(op[p]) /\ ~copy[p].out
  /\ mode' = [mode EXCEPT ![p] = "off"]
  /\ UNCHANGED <<diskVars, syncVars, todo, op, faults, copy, pastVars>>

\* A commit that was cut off is replayed by the next start, or not.
Crash(p) ==
  /\ mode[p] # "off" /\ ~(mode[p] = "on" /\ Idle(op[p]) /\ ~copy[p].out)
  /\ Fault
  /\ mode' = [mode EXCEPT ![p] = "off"]
  /\ todo' = [todo EXCEPT ![p] = {}]
  /\ Leave(p)
  /\ \/ copy' = [copy EXCEPT ![p] = NoCopy]
     \/ Committing(p) /\ UNCHANGED copy
  /\ UNCHANGED <<diskVars, syncVars, pastVars>>

-----------------------------------------------------------------------------
(* What else touches the volume.  A program's core is locked from the      *)
(* rename to the tombstones of its own deletions, and while a round        *)
(* commits.                                                                *)

CoreFree(p) ==
  mode[p] = "on" /\ op[p].at \notin {"moved", "loaded"} /\ ~copy[p].out

\* A chapter is created; its history is recorded at once.
Create(p, f) ==
  /\ CoreFree(p) /\ Marker \in dir /\ f \notin dir
  /\ dir' = dir \union {f}
  /\ tracked' = tracked \union {f}
  /\ UNCHANGED <<trash, tomb, journal, syncVars, procVars, faults, pastVars>>

\* Another device adds a file to a volume it still has.
AddRemotely(f) ==
  /\ Syncing # {} /\ Marker \in remote /\ f \notin remote
  /\ remote' = remote \union {f}
  /\ UNCHANGED <<diskVars, known, procVars, faults, pastVars>>

\* A round: a known file that is gone is deleted on the remote if it has a
\* tombstone and fetched again if it has none; all else is exchanged.
Gone == known \ dir
Deleted == {f \in Gone : \E t \in Tokens : <<f, t>> \in tomb}
Fetched == ((Gone \ Deleted) \intersect remote) \union (remote \ known)

\* Its commit reads the sync state, merges the round's into it and writes it
\* with the files (merge_sync_state_three_way, then the transaction); what is
\* known of the last sync the manifest says too.
Sync(p) ==
  /\ p \in Syncing /\ CoreFree(p)
  /\ Gone \ Deleted \subseteq remote
  /\ dir' = dir \union Fetched
  /\ tracked' = tracked \union Fetched
  /\ remote' = (remote \union dir) \ Deleted
  /\ known' = remote'
  /\ copy' = [copy EXCEPT ![p] = [out |-> TRUE, tombs |-> tomb]]
  /\ UNCHANGED <<trash, tomb, journal, mode, todo, op, faults, pastVars>>

WriteState(p) ==
  /\ Committing(p)
  /\ SaveState(copy[p].tombs)
  /\ copy' = [copy EXCEPT ![p] = NoCopy]
  /\ UNCHANGED <<dir, trash, tracked, journal, syncVars, mode, todo, op, faults,
                 promised>>

-----------------------------------------------------------------------------
Deletion(p) ==
  \/ SavePending(p) \/ Move(p) \/ CannotMove(p) \/ LoadState(p)
  \/ AddTombstones(p) \/ MarkApplied(p) \/ RecordHistory(p) \/ MarkRecorded(p) \/ Clear(p)

Recovery(p) ==
  \/ Started(p)
  \/ \E r \in todo[p] : \/ RecoverRecorded(p, r) \/ RecoverApplied(p, r)
                       \/ RecoverPending(p, r)

Next ==
  \/ \E p \in Procs :
       \/ \E t \in Tokens : Plan(p, t)
       \/ Deletion(p) \/ StepFails(p)
       \/ Start(p) \/ Recovery(p) \/ Quit(p) \/ Crash(p)
       \/ \E f \in Files : Create(p, f)
       \/ Sync(p) \/ WriteState(p)
  \/ \E f \in Files : AddRemotely(f)

\* A program that runs goes on; one that is closed is opened again, and
\* closed again, some time.  A deletion gets the core in its turn.
Fairness ==
  \A p \in Procs : SF_vars(Deletion(p)) /\ WF_vars(Recovery(p))
                   /\ WF_vars(WriteState(p))
                   /\ WF_vars(Start(p)) /\ SF_vars(Quit(p))

Spec == Init /\ [][Next]_vars /\ Fairness

-----------------------------------------------------------------------------
\* The variables stay in their types, and a program that is closed has nothing
\* in memory (the journals on disk are all that bootstrap.rs has to go by).
TypeOK ==
  /\ dir \subseteq Files
  /\ trash \in [Tokens -> SUBSET Files]
  /\ tomb \subseteq Files \X Tokens
  /\ tracked \subseteq Files
  /\ journal \in [Tokens -> Journal]
  /\ known \subseteq Files /\ remote \subseteq Files
  /\ mode \in [Procs -> {"off", "starting", "on"}]
  /\ todo \in [Procs -> SUBSET [tok : Tokens, was : Journal]]
  /\ op \in [Procs -> Op]
  /\ copy \in [Procs -> Copy]
  /\ \A p \in Procs : /\ mode[p] = "off" => Idle(op[p])
                      /\ mode[p] # "starting" => todo[p] = {}
  /\ faults \in 0..MaxFaults
  /\ promised \in [Tokens -> SUBSET Files]
  /\ lost \subseteq Tokens

\* No deletion is forgotten half-way: as long as a directory moved to the
\* trash has not all the tombstones that were planned for it, its journal is
\* on disk, so that a start finishes it (delete_volume, delete_chapter and
\* the recovery of a Pending journal, whichever of them moved it).  Excepted
\* are deletions whose tombstones had all been written when a program wrote
\* back the sync state it had read before them: nothing in the code prevents
\* that, or notices it.
NothingForgotten ==
  \A t \in Tokens :
    \/ trash[t] = {}
    \/ promised[t] \X {t} \subseteq tomb
    \/ journal[t].phase = "pending" /\ journal[t].facts = promised[t]
    \/ t \in lost

\* Once no journal is left and nothing is under way, the history has no file
\* that is not there (record_workspace_change_set before clear_journal).  A
\* round that fetches back a volume whose tombstones were undone lets a
\* deletion move it whose journal is finished already, so this is said of
\* behaviours without such a loss.
HistoryInStep ==
  lost = {}
    /\ (\A t \in Tokens : journal[t].phase \notin Open)
    /\ (\A p \in Procs : Idle(op[p]))
  => tracked \subseteq dir

\* A journal stays only for the reasons the code names: the volume is there
\* again, or is no volume, or an old journal has no facts.
Blocked(t) ==
  /\ journal[t].phase = "pending"
  /\ \/ dir # {} /\ ~MayMove(t)
     \/ dir = {} /\ journal[t].facts = {}

\* Every journal is finished in the end, unless something named above stands
\* in its way (recover_workspace_change_transactions at every start).
JournalsFinish ==
  \A t \in Tokens : journal[t].phase \in Open
                    ~> (journal[t].phase = "cleared" \/ Blocked(t))
=============================================================================
