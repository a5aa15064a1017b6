---------------------------- MODULE ProjectDelete ----------------------------
(***************************************************************************)
(* Deleting a whole work with its durable journal.  The user asks for it,  *)
(* or a sync round does because another device deleted the work.  The      *)
(* journal goes from Prepared (with the star maps bound to the work) to    *)
(* WorktreeMoved, TombstoneWritten and StarMapsUnbound; the caller records *)
(* the history of the workspace and acknowledges it: HistoryRecorded, then *)
(* for a user's deletion an entry in the list of deletions the remote must *)
(* still learn of (RemoteDeleteQueued), Completed, and the journal goes.   *)
(* An error at any step leaves the journal to the next start.  A round     *)
(* answers the list: the remote deletes too, or gives the work back.       *)
(*                                                                         *)
(* The actors are the user's request and the round that finishes, threads  *)
(* of one program, and the recovery of a program that starts.  Neither the *)
(* history nor the list is under a lock.                                   *)
(***************************************************************************)
EXTENDS Naturals, Sequences, FiniteSets

CONSTANTS Asked,        \* deletions the user asks for (tokens)
          Told,         \* deletions the remote asks for (tokens)
          Maps,         \* star maps
          MaxFaults,    \* bound on errors and crashes
          MaxAnswers,   \* bound on rounds that answer the list
          Racing        \* whether two actors may write the list at a time

Tokens == Asked \union Told

ASSUME WorkAssumption ==
  /\ Asked \intersect Told = {} /\ Tokens # {}
  /\ MaxFaults \in Nat /\ MaxAnswers \in Nat /\ Racing \in BOOLEAN

Actors == {"request", "round", "start"}

Open == {"prepared", "moved", "git", "tombstoned", "unbound", "recorded",
         "queued", "completed"}
Phases == Open \union {"none", "cleared"}
Journal == [phase : Phases, maps : SUBSET Maps]

\* What an actor does next.  "move", "unbind" and "read" act; a phase stands
\* for the write of the journal with that phase.
Steps == Open \union {"idle", "move", "unbind", "history", "ack", "read",
                      "write", "clear", "unlist", "cleanup"}
Op == [at : Steps, tok : Tokens, maps : SUBSET Maps, list : Seq(Tokens)]

VARIABLES
  work, trash,          \* the work's directory is there; was moved, by which
  bound,                \* star maps bound to the work
  tracked,              \* the head of the history has the work's tree
  queue,                \* pending_deleted_targets.json
  journal,              \* the journals on disk
  op,                   \* what an actor is doing
  mode,                 \* off, starting (it recovers) or on
  todo,                 \* journals a start has not looked at yet
  recovered,            \* journals it brought to StarMapsUnbound
  faults, answers,
  answered              \* history: deletions a round has answered

diskVars == <<work, trash, bound, tracked, queue, journal>>
startVars == <<mode, todo, recovered>>
boundVars == <<faults, answers, answered>>
vars == <<diskVars, op, startVars, boundVars>>

AnyToken == CHOOSE t \in Tokens : TRUE
NoOp == [at |-> "idle", tok |-> AnyToken, maps |-> {}, list |-> <<>>]
NoJournal == [phase |-> "none", maps |-> {}]

Init ==
  /\ work = TRUE /\ trash = {}
  /\ bound \in SUBSET Maps
  /\ tracked = TRUE
  /\ queue = <<>>
  /\ journal = [t \in Tokens |-> NoJournal]
  /\ op = [a \in Actors |-> NoOp]
  /\ mode = "on" /\ todo = {} /\ recovered = {}
  /\ faults = 0 /\ answers = 0 /\ answered = {}

Listed(list) == {list[i] : i \in DOMAIN list}
Is(a, step) == op[a].at = step
Goto(a, step) == op' = [op EXCEPT ![a].at = step]
Leave(a) == op' = [op EXCEPT ![a] = NoOp]
Fault == faults < MaxFaults /\ faults' = faults + 1 /\ UNCHANGED <<answers, answered>>

-----------------------------------------------------------------------------
(* The steps of a deletion.                                                *)

\* validate_delete_target, list_starmaps_bound_to_project.
Request(a, t) ==
  /\ mode = "on" /\ Is(a, "idle") /\ work
  /\ <<a, t>> \in ({"request"} \X Asked) \union ({"round"} \X Told)
  /\ journal[t].phase = "none" /\ \A b \in Actors : op[b].at # "idle" => op[b].tok # t
  /\ op' = [op EXCEPT ![a] = [NoOp EXCEPT !.at = "prepared", !.tok = t,
                                          !.maps = bound]]
  /\ UNCHANGED <<diskVars, startVars, boundVars>>

\* Mutant: whoever asked for the deletion, the remote is told.
AfterQueues(a, phase) ==
  CASE phase = "prepared" -> "move"
    [] phase = "moved" -> IF a = "start" THEN "git" ELSE "tombstoned"
    [] phase = "git" -> "tombstoned"
    [] phase = "tombstoned" -> "unbind"
    [] phase = "unbound" -> "history"
    [] phase = "recorded" -> "read"
    [] phase = "queued" -> "completed"
    [] phase = "completed" -> "clear"

\* What follows the write of a phase.  A start also marks the step of a
\* private repository, which a work no longer has.
After(a, phase) ==
  CASE phase = "prepared" -> "move"
    [] phase = "moved" -> IF a = "start" THEN "git" ELSE "tombstoned"
    [] phase = "git" -> "tombstoned"
    [] phase = "tombstoned" -> "unbind"
    [] phase = "unbound" -> "history"
    [] phase = "recorded" -> IF op[a].tok \in Asked THEN "read" ELSE "completed"
    [] phase = "queued" -> "completed"
    [] phase = "completed" -> "clear"

\* advance_phase: the journal in memory is written whole, whatever is on disk.
Mark(a) ==
  /\ op[a].at \in Open
  /\ journal' = [journal EXCEPT ![op[a].tok] =
                   [phase |-> op[a].at, maps |-> op[a].maps]]
  /\ IF a = "start" /\ Is(a, "unbound")
     THEN Leave(a) /\ recovered' = recovered \union {op[a].tok}
     ELSE Goto(a, After(a, op[a].at)) /\ UNCHANGED recovered
  /\ UNCHANGED <<work, trash, bound, tracked, queue, mode, todo, boundVars>>

\* move_worktree: whatever stands at the work's place goes, unless nothing
\* does.
MoveWorktree(a) ==
  /\ Is(a, "move")
  /\ \/ ~work /\ UNCHANGED <<work, trash>>
     \/ work /\ op[a].tok \notin trash
        /\ work' = FALSE /\ trash' = trash \union {op[a].tok}
  /\ Goto(a, "moved")
  /\ UNCHANGED <<bound, tracked, queue, journal, startVars, boundVars>>

\* The place in the trash is taken already: the rename is an error.
CannotMove(a) ==
  /\ Is(a, "move") /\ work /\ op[a].tok \in trash
  /\ Leave(a)
  /\ UNCHANGED <<diskVars, startVars, boundVars>>

UnbindStarmaps(a) ==
  /\ Is(a, "unbind")
  /\ bound' = bound \ op[a].maps
  /\ Goto(a, "unbound")
  /\ UNCHANGED <<work, trash, tracked, queue, journal, startVars, boundVars>>

\* Mutant: a star map that cannot be unbound is skipped.
UnbindGoesOn(a) ==
  /\ Is(a, "unbind")
  /\ \E done \in SUBSET op[a].maps :
       done # op[a].maps /\ bound' = bound \ done
  /\ Fault
  /\ Goto(a, "unbound")
  /\ UNCHANGED <<work, trash, tracked, queue, journal, startVars>>

\* One map cannot be unbound after others were.
UnbindFails(a) ==
  /\ Is(a, "unbind")
  /\ \E done \in SUBSET op[a].maps :
       done # op[a].maps /\ bound' = bound \ done
  /\ Fault
  /\ Leave(a)
  /\ UNCHANGED <<work, trash, tracked, queue, journal, startVars>>

\* record_workspace_change_set: the tree leaves the index.
RecordHistory(a) ==
  /\ Is(a, "history")
  /\ tracked' = FALSE
  /\ Goto(a, "ack")
  /\ UNCHANGED <<work, trash, bound, queue, journal, startVars, boundVars>>

\* ack_project_delete_history: the journal is read again; if it is gone there
\* is nothing to do.
Acknowledge(a) ==
  /\ Is(a, "ack")
  /\ IF journal[op[a].tok].phase = "cleared" THEN Leave(a)
                                             ELSE Goto(a, "recorded")
  /\ UNCHANGED <<diskVars, startVars, boundVars>>

\* The list is read, changed and written back.
ListFree == Racing \/ \A b \in Actors : op[b].at \notin {"write", "unlist"}

RecordRead(a) ==
  /\ Is(a, "read") /\ ListFree
  /\ op' = IF op[a].tok \in Listed(queue)
           THEN [op EXCEPT ![a].at = "queued"]
           ELSE [op EXCEPT ![a].at = "write", ![a].list = queue]
  /\ UNCHANGED <<diskVars, startVars, boundVars>>

RecordPending(a) ==
  /\ Is(a, "write")
  /\ queue' = Append(op[a].list, op[a].tok)
  /\ op' = [op EXCEPT ![a].at = "queued", ![a].list = <<>>]
  /\ UNCHANGED <<work, trash, bound, tracked, journal, startVars, boundVars>>

CleanupJournal(a) ==
  /\ Is(a, "clear")
  /\ journal' = [journal EXCEPT ![op[a].tok].phase = "cleared"]
  /\ Leave(a)
  /\ UNCHANGED <<work, trash, bound, tracked, queue, startVars, boundVars>>

\* An error: the journal stays as it is.  A failed write of the list leaves it.
StepFails(a) ==
  /\ ~Is(a, "idle") /\ Fault
  /\ Leave(a)
  /\ UNCHANGED <<diskVars, startVars>>

-----------------------------------------------------------------------------
(* A start finishes the journals it finds.                                 *)

\* Mutant: a journal whose deletion is complete is left alone.
StartUnfinished ==
  /\ mode = "off"
  /\ mode' = "starting"
  /\ todo' = {t \in Tokens : journal[t].phase \in Open \ {"completed"}}
  /\ UNCHANGED <<diskVars, op, recovered, boundVars>>

Start ==
  /\ mode = "off"
  /\ mode' = "starting"
  /\ todo' = {t \in Tokens : journal[t].phase \in Open}
  /\ UNCHANGED <<diskVars, op, recovered, boundVars>>

\* Mutant: a deletion whose history is recorded counts as done.
ResumedDone(t) ==
  CASE journal[t].phase = "prepared" -> "move"
    [] journal[t].phase = "moved" -> "git"
    [] journal[t].phase = "git" -> "tombstoned"
    [] journal[t].phase = "tombstoned" -> "unbind"
    [] journal[t].phase \in {"recorded", "queued"} -> "completed"
    [] journal[t].phase = "completed" -> "clear"

\* recover_single_journal: on from the phase the journal is in now.
Resumed(t) ==
  CASE journal[t].phase = "prepared" -> "move"
    [] journal[t].phase = "moved" -> "git"
    [] journal[t].phase = "git" -> "tombstoned"
    [] journal[t].phase = "tombstoned" -> "unbind"
    [] journal[t].phase = "recorded" -> IF t \in Asked THEN "read" ELSE "completed"
    [] journal[t].phase = "queued" -> "completed"
    [] journal[t].phase = "completed" -> "clear"

TakeUp(t) ==
  /\ mode = "starting" /\ Is("start", "idle") /\ t \in todo
  /\ todo' = todo \ {t}
  /\ \/ /\ journal[t].phase \notin {"cleared", "unbound"}
        /\ op' = [op EXCEPT !["start"] =
             [NoOp EXCEPT !.at = Resumed(t), !.tok = t, !.maps = journal[t].maps]]
        /\ UNCHANGED recovered
     \/ /\ journal[t].phase = "unbound"
        /\ recovered' = recovered \union {t}
        /\ UNCHANGED op
     \/ /\ journal[t].phase = "cleared"
        /\ UNCHANGED <<op, recovered>>
  /\ UNCHANGED <<diskVars, mode, boundVars>>

\* Once all journals have been looked at, the history of the recovered ones
\* is recorded and acknowledged.
Catch(t) ==
  /\ mode = "starting" /\ Is("start", "idle") /\ todo = {} /\ t \in recovered
  /\ recovered' = recovered \ {t}
  /\ op' = [op EXCEPT !["start"] =
       [NoOp EXCEPT !.at = "history", !.tok = t, !.maps = journal[t].maps]]
  /\ UNCHANGED <<diskVars, mode, todo, boundVars>>

Started ==
  /\ mode = "starting" /\ Is("start", "idle") /\ todo = {} /\ recovered = {}
  /\ mode' = "on"
  /\ UNCHANGED <<diskVars, op, todo, recovered, boundVars>>

Quit ==
  /\ mode = "on" /\ \A a \in Actors : Is(a, "idle")
  /\ mode' = "off"
  /\ UNCHANGED <<diskVars, op, todo, recovered, boundVars>>

Crash ==
  /\ mode # "off" /\ Fault
  /\ mode' = "off" /\ todo' = {} /\ recovered' = {}
  /\ op' = [a \in Actors |-> NoOp]
  /\ UNCHANGED diskVars

-----------------------------------------------------------------------------
(* What else touches the work: a round that answers the list, and star     *)
(* maps that are bound while no deletion is open.                          *)

\* The remote deletes the work too, or has a later one and gives it back.
Answer ==
  /\ mode = "on" /\ Is("round", "idle") /\ queue # <<>> /\ answers < MaxAnswers
  /\ answers' = answers + 1
  /\ answered' = answered \union Listed(queue)
  /\ \/ UNCHANGED <<work, tracked>>
     \/ ~work /\ work' = TRUE /\ tracked' = TRUE
  /\ op' = [op EXCEPT !["round"] = [NoOp EXCEPT !.at = "cleanup"]]
  /\ UNCHANGED <<trash, bound, queue, journal, startVars, faults>>

\* remove_pending_deleted_by_prefix: the first entry of the work goes.
CleanupRead ==
  /\ Is("round", "cleanup") /\ ListFree
  /\ IF queue = <<>> THEN Leave("round")
     ELSE op' = [op EXCEPT !["round"].at = "unlist", !["round"].list = queue]
  /\ UNCHANGED <<diskVars, startVars, boundVars>>

CleanupWrite ==
  /\ Is("round", "unlist")
  /\ queue' = Tail(op["round"].list)
  /\ Leave("round")
  /\ UNCHANGED <<work, trash, bound, tracked, journal, startVars, boundVars>>

Bind(m) ==
  /\ mode = "on" /\ work /\ m \notin bound
  /\ \A t \in Tokens : journal[t].phase \notin Open
  /\ \A a \in Actors : op[a].at \in {"idle", "cleanup", "unlist"}
  /\ bound' = bound \union {m}
  /\ UNCHANGED <<work, trash, tracked, queue, journal, op, startVars, boundVars>>

-----------------------------------------------------------------------------
Deletion(a) ==
  \/ Mark(a) \/ MoveWorktree(a) \/ CannotMove(a) \/ UnbindStarmaps(a)
  \/ RecordHistory(a) \/ Acknowledge(a) \/ RecordRead(a) \/ RecordPending(a)
  \/ CleanupJournal(a)

Recovery == Started \/ \E t \in Tokens : TakeUp(t) \/ Catch(t)
Cleanup == CleanupRead \/ CleanupWrite

Next ==
  \/ \E a \in Actors : Deletion(a) \/ UnbindFails(a) \/ StepFails(a)
  \/ \E a \in Actors, t \in Tokens : Request(a, t)
  \/ Start \/ Recovery \/ Quit \/ Crash
  \/ Answer \/ Cleanup
  \/ \E m \in Maps : Bind(m)

\* What is under way goes on, and a program is closed and started again some
\* time.
Fairness ==
  /\ \A a \in Actors : WF_vars(Deletion(a))
  /\ WF_vars(Recovery) /\ WF_vars(Cleanup)
  /\ WF_vars(Start) /\ SF_vars(Quit)

Spec == Init /\ [][Next]_vars /\ Fairness

-----------------------------------------------------------------------------
\* The variables stay in their types; the list has no deletion twice, none of
\* another device's (ProjectDeleteOrigin: a remote deletion is never queued
\* back), and a start that is over has nothing in memory.
TypeOK ==
  /\ work \in BOOLEAN /\ tracked \in BOOLEAN
  /\ trash \subseteq Tokens /\ bound \subseteq Maps
  /\ queue \in Seq(Asked)
  /\ \A i, j \in DOMAIN queue : queue[i] = queue[j] => i = j
  /\ journal \in [Tokens -> Journal]
  /\ op \in [Actors -> Op]
  /\ mode \in {"off", "starting", "on"} /\ todo \subseteq Tokens /\ recovered \subseteq Tokens
  /\ mode # "starting" => Is("start", "idle") /\ todo = {} /\ recovered = {}
  /\ faults \in 0..MaxFaults /\ answers \in 0..MaxAnswers
  /\ answered \subseteq Asked

Quiet ==
  /\ \A t \in Tokens : journal[t].phase \notin Open
  /\ \A a \in Actors : Is(a, "idle")

\* A deletion the user asked for and that was carried out reaches the remote:
\* once its journal is gone it is in the list, or a round has answered it
\* (ack_project_delete_history: a pending target is not lost).  A
\* deletion another device asked for is never told back (ProjectDeleteOrigin).
DeletionQueued ==
  /\ \A t \in Asked :
       journal[t].phase = "cleared" => t \in Listed(queue) \union answered
  /\ Listed(queue) \subseteq Asked

\* A work that is gone leaves no star map bound to it and no tree in the
\* history, once nothing is under way and no journal is left (unbind_starmaps
\* and the history come before the journal may go).
NothingDangles == Quiet /\ ~work => bound = {} /\ ~tracked

\* The one reason for a journal to stay: the work was moved, the journal does
\* not say so, and a round gave the work back before the next start.
Blocked(t) == journal[t].phase = "prepared" /\ t \in trash /\ work

\* Every deletion is finished in the end (recovery at every start).
DeletionsFinish ==
  \A t \in Tokens :
    journal[t].phase \in Open ~> (journal[t].phase = "cleared" \/ Blocked(t))
=============================================================================
