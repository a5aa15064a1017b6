------------------------------ MODULE ProofChain ------------------------------
(***************************************************************************)
(* The proof events of synchronised chapters of one work.  A sync round    *)
(* that replaces chapters first writes an intent for each (with the text   *)
(* before and after), commits the files in a transaction that links the    *)
(* events, and appends the events to the chapters' proof chains.  What a   *)
(* crash or an error leaves is recovered from the intents and the          *)
(* transactions' own material: at the start when the marker .pending is    *)
(* there, by the editor now and then, and by every round before it         *)
(* commits; a work with an event still open is not committed to.           *)
(*                                                                         *)
(* A chain takes an event only if its last text is the event's text        *)
(* before.  Saving a chapter writes the file, appends the editor's own     *)
(* event and then brings the chain to the saved text, in three calls that  *)
(* each take the core lock, as a recovery and a commit do.                 *)
(***************************************************************************)
EXTENDS Naturals, FiniteSets

CONSTANTS Chapters, Texts, None,
          Recorded,             \* chapters that have a chain in the beginning
          MaxRounds,            \* bound on the commits of sync rounds
          MaxFaults,            \* bound on errors, crashes and intents deleted
                                \* from outside
          MaxSaves              \* bound on the user's saves and resolutions

ASSUME ChainAssumption ==
  /\ Texts # {}
  /\ None \notin Texts \union [from : Texts, to : Texts]
  /\ Recorded \subseteq Chapters
  /\ {MaxRounds, MaxFaults, MaxSaves} \subseteq Nat

Rounds == 1 .. MaxRounds
Events == Rounds \X Chapters
Change == [from : Texts, to : Texts]
Stages == {"free", "down", "scan", "work", "intend", "apply", "record", "clean",
           "remove", "mark"}
Jobs == {"try", "round", "commit"}     \* for whom the lock is held
NoSave == [at |-> "none", chapter |-> None, from |-> None, to |-> None]

VARIABLES
  live,                 \* the chapters' files
  head,                 \* the last text of a chapter's chain, None: no events
  base,                 \* the baseline checkpoint, None: none
  done,                 \* events in the chains
  intent,               \* stats/proof-intents
  marker, mem,          \* the marker on disk, and its copy in memory
  tx, edit,             \* the rounds' transactions, and what they change
  landed,               \* history: events whose file has been replaced
  lost,                 \* history: intents deleted from outside
  pc, job,              \* where the holder of the core lock is, and its job
  todo, drop, tried,    \* events to append; intents to remove; what was tried
  round,                \* none, or waiting to commit: ready or blocked
  save,                 \* the user's save between its calls
  count                 \* rounds committed, faults, saves

disk == <<live, head, base, done, intent, marker, tx, edit, landed, lost>>
lock == <<pc, job, todo, drop, tried>>
vars == <<disk, mem, lock, round, save, count>>

\* Texts are compared within a chapter only: all may begin with the same.
AnyText == CHOOSE t \in Texts : TRUE
NoCount == [rounds |-> 0, faults |-> 0, saves |-> 0]

Init ==
  /\ live = [c \in Chapters |-> AnyText]
  /\ head = [c \in Chapters |-> IF c \in Recorded THEN AnyText ELSE None]
  /\ base = [c \in Chapters |-> None]
  /\ done = {} /\ intent = {} /\ marker = FALSE /\ mem = FALSE
  /\ tx = [r \in Rounds |-> "none"]
  /\ edit = [r \in Rounds |-> [c \in Chapters |-> None]]
  /\ landed = {} /\ lost = {}
  /\ pc = "free" /\ job = "try" /\ todo = {} /\ drop = {} /\ tried = {}
  /\ round = "none" /\ save = NoSave /\ count = NoCount

Bump(what) == count' = [count EXCEPT ![what] = @ + 1]
Fault == count.faults < MaxFaults /\ Bump("faults")

Of(r) == {e \in Events : e[1] = r /\ edit[r][e[2]] # None}
What(e) == edit[e[1]][e[2]]
Linked == {r \in Rounds : tx[r] \in {"prepared", "committed"}}
\* A transaction is committed, and its events are not all in the chains.
Open == {e \in UNION {Of(r) : r \in Linked} : e \notin done}

-----------------------------------------------------------------------------
(* The chain of a chapter.                                                 *)

\* record_sync_content_change_at, record_proof_event: the text before an event
\* is the chain's last one, or the baseline of a chain that has no event yet.
Takes(c, from) ==
  IF head[c] # None THEN head[c] = from ELSE base[c] \in {None, from}

AppendTo(c, from, to) ==
  /\ head' = [head EXCEPT ![c] = to]
  /\ base' = IF head[c] = None THEN [base EXCEPT ![c] = from] ELSE base

\* record_chapter_checkpoints: an external change brings the chain to the
\* saved text.
Checkpointed(c, text) ==
  IF head[c] = None /\ base[c] \in {None, text}
    THEN base' = [base EXCEPT ![c] = text] /\ UNCHANGED head
    ELSE head' = [head EXCEPT ![c] = text] /\ UNCHANGED base

-----------------------------------------------------------------------------
(* The user.                                                               *)

SaveWrite(c, text) ==
  /\ pc = "free" /\ save = NoSave
  /\ count.saves < MaxSaves /\ Bump("saves")
  /\ text # live[c]
  /\ save' = [at |-> "event", chapter |-> c, from |-> live[c], to |-> text]
  /\ live' = [live EXCEPT ![c] = text]
  /\ UNCHANGED <<head, base, done, intent, marker, tx, edit, landed, lost, mem,
                 lock, round>>

SaveEvent ==
  /\ pc = "free" /\ save.at = "event" /\ Takes(save.chapter, save.from)
  /\ AppendTo(save.chapter, save.from, save.to)
  /\ save' = [save EXCEPT !.at = "checkpoint"]
  /\ UNCHANGED <<live, done, intent, marker, tx, edit, landed, lost, mem, lock,
                 round, count>>

\* An event the chain does not take: the save returns an error, and the caller
\* keeps the event.
SaveRefused ==
  /\ pc = "free" /\ save.at = "event" /\ ~Takes(save.chapter, save.from)
  /\ save' = NoSave
  /\ UNCHANGED <<disk, mem, lock, round, count>>

\* A client that sends no changes.
SavePlain ==
  /\ pc = "free" /\ save.at = "event"
  /\ save' = [save EXCEPT !.at = "checkpoint"]
  /\ UNCHANGED <<disk, mem, lock, round, count>>

SaveCheckpoint ==
  /\ pc = "free" /\ save.at = "checkpoint"
  /\ Checkpointed(save.chapter, save.to)
  /\ save' = NoSave
  /\ UNCHANGED <<live, done, intent, marker, tx, edit, landed, lost, mem, lock,
                 round, count>>

\* take_remote: a conflict is resolved with the other text, outside the chain.
Resolve(c, text) ==
  /\ pc = "free" /\ text # live[c]
  /\ count.saves < MaxSaves /\ Bump("saves")
  /\ live' = [live EXCEPT ![c] = text]
  /\ UNCHANGED <<head, base, done, intent, marker, tx, edit, landed, lost, mem,
                 lock, round, save>>

\* A file of stats/proof-intents is deleted from outside.
LoseIntent(e) ==
  /\ e \in intent
  /\ Fault
  /\ intent' = intent \ {e} /\ lost' = lost \union {e}
  /\ UNCHANGED <<live, head, base, done, marker, tx, edit, landed, mem, lock,
                 round, save>>

-----------------------------------------------------------------------------
(* Recovery: recover_pending_state.                                        *)

Take(stage, who) == pc' = stage /\ job' = who

\* The start of a round, and the editor's calls, recover if one is pending.
TryRecover ==
  /\ pc = "free" /\ mem
  /\ Take("scan", "try")
  /\ UNCHANGED <<disk, mem, todo, drop, tried, round, save, count>>

\* Mutant: a round recovers only if an intent is pending.
RoundRecoverPending ==
  /\ pc = "free" /\ round = "none"
  /\ IF mem THEN Take("scan", "round") /\ UNCHANGED round
            ELSE round' = "ready" /\ UNCHANGED <<pc, job>>
  /\ UNCHANGED <<disk, mem, todo, drop, tried, save, count>>

\* The remote is published: before the commits, a round always recovers.
RoundRecover ==
  /\ pc = "free" /\ round = "none"
  /\ Take("scan", "round")
  /\ UNCHANGED <<disk, mem, todo, drop, tried, round, save, count>>

\* scan_pending_transactions, as it is called twice in a recovery: here, and
\* when the completed transactions are cleaned up.
Scanning == pc = "scan" \/ pc = "clean"
Scanned == \A r \in Rounds : /\ tx[r] # "staged"
                             /\ tx[r] = "prepared" => r \in tried

Discard(r) ==
  /\ Scanning /\ tx[r] = "staged"
  /\ tx' = [tx EXCEPT ![r] = "none"]
  /\ UNCHANGED <<live, head, base, done, intent, marker, edit, landed, lost, mem,
                 lock, round, save, count>>

Replay(r) ==
  /\ Scanning /\ tx[r] = "prepared" /\ r \notin tried
  /\ live' = [c \in Chapters |->
                IF edit[r][c] = None THEN live[c] ELSE edit[r][c].to]
  /\ landed' = landed \union Of(r)
  /\ tx' = [tx EXCEPT ![r] = "committed"]
  /\ UNCHANGED <<head, base, done, intent, marker, edit, lost, mem, lock, round,
                 save, count>>

ReplayFails(r) ==
  /\ Scanning /\ tx[r] = "prepared" /\ r \notin tried
  /\ Fault
  /\ tried' = tried \union {r}
  /\ UNCHANGED <<disk, mem, pc, job, todo, drop, round, save>>

\* The first of some events: actions and work items are sorted, and the events
\* of a chapter go by their time.
IsFirst(e, S) ==
  LET c == CHOOSE x \in {f[2] : f \in S} : TRUE
  IN e \in S /\ e[2] = c /\ \A f \in S : f[2] = c => e[1] <= f[1]

\* What there is to do: append the events of committed transactions that are
\* not in the chains, and remove the intents of recorded events and of commits
\* that never were.
Collect ==
  /\ pc = "scan" /\ Scanned
  /\ todo' = {e \in Open : tx[e[1]] = "committed"}
  /\ drop' = {e \in intent : e \in done \/ e[1] \notin Linked}
  /\ pc' = "work" /\ tried' = {}
  /\ UNCHANGED <<disk, mem, job, round, save, count>>

Working == pc \in {"work", "record"}

Record(e) ==
  /\ Working /\ IsFirst(e, todo)
  /\ pc = "record" => e \in intent
  /\ Takes(e[2], What(e).from)
  /\ AppendTo(e[2], What(e).from, What(e).to)
  /\ done' = done \union {e}
  /\ todo' = todo \ {e}
  /\ UNCHANGED <<live, intent, marker, tx, edit, landed, lost, mem, pc, job, drop,
                 tried, round, save, count>>

\* Refused by the chain, or, in the commit itself, without its intent.
Refuse(e) ==
  /\ Working /\ IsFirst(e, todo)
  /\ ~Takes(e[2], What(e).from) \/ (pc = "record" /\ e \notin intent)
  /\ todo' = todo \ {e}
  /\ UNCHANGED <<disk, mem, pc, job, drop, tried, round, save, count>>

\* An error of the store, before or after the baseline of the import.
RecordFails(e) ==
  /\ Working /\ IsFirst(e, todo) /\ Takes(e[2], What(e).from)
  /\ Fault
  /\ \/ UNCHANGED base
     \/ /\ head[e[2]] = None
        /\ base' = [base EXCEPT ![e[2]] = What(e).from]
  /\ todo' = todo \ {e}
  /\ UNCHANGED <<live, head, done, intent, marker, tx, edit, landed, lost, mem, pc,
                 job, drop, tried, round, save>>

Worked ==
  /\ Working /\ todo = {}
  /\ drop' = IF job = "commit" THEN Of(count.rounds) \intersect done ELSE drop
  /\ pc' = "clean"
  /\ UNCHANGED <<disk, mem, job, todo, tried, round, save, count>>

\* The events a caller of cleanup_completed_transactions knows as done.
Completed == IF job = "commit" THEN Of(count.rounds) \intersect done ELSE done

Cleanable(r) == tx[r] = "committed" /\ Of(r) \subseteq Completed

Clean(r) ==
  /\ pc = "clean" /\ Cleanable(r) /\ r \notin tried
  /\ tx' = [tx EXCEPT ![r] = "none"]
  /\ UNCHANGED <<live, head, base, done, intent, marker, edit, landed, lost, mem,
                 lock, round, save, count>>

CleanFails(r) ==
  /\ pc = "clean" /\ Cleanable(r) /\ r \notin tried
  /\ Fault
  /\ tried' = tried \union {r}
  /\ UNCHANGED <<disk, mem, pc, job, todo, drop, round, save>>

\* Intents of transactions that are still there are retained.
Cleaned ==
  /\ pc = "clean" /\ Scanned
  /\ \A r \in Rounds : Cleanable(r) => r \in tried
  /\ drop' = {e \in drop : tx[e[1]] = "none"}
  /\ pc' = "remove" /\ tried' = {}
  /\ UNCHANGED <<disk, mem, job, todo, round, save, count>>

Remove(e) ==
  /\ pc = "remove" /\ e \in drop
  /\ intent' = intent \ {e}
  /\ drop' = drop \ {e}
  /\ UNCHANGED <<live, head, base, done, marker, tx, edit, landed, lost, mem, pc,
                 job, todo, tried, round, save, count>>

RemoveFails(e) ==
  /\ pc = "remove" /\ e \in drop
  /\ Fault
  /\ drop' = drop \ {e}
  /\ UNCHANGED <<disk, mem, pc, job, todo, tried, round, save>>

\* What is left for the marker, and for the round that waits.
Marked(pending) ==
  /\ marker' = pending /\ mem' = pending
  /\ round' = CASE job = "round" -> IF Open = {} THEN "ready" ELSE "blocked"
                [] job = "commit" -> "none"
                [] OTHER -> round
  \* What an event changes is kept by its intent and its transaction.
  /\ edit' = [r \in Rounds |->
       IF tx[r] = "none" /\ Of(r) \intersect intent = {}
         THEN [c \in Chapters |-> None] ELSE edit[r]]

\* Mutant: after a recovery nothing is pending.
RefreshCleared ==
  /\ (pc = "remove" /\ drop = {}) \/ pc = "mark"
  /\ Marked(FALSE)
  /\ Take("free", "try")
  /\ UNCHANGED <<live, head, base, done, intent, tx, landed, lost, todo, drop,
                 tried, save, count>>

\* refresh_sync_proof_intents_pending.
Refresh ==
  /\ (pc = "remove" /\ drop = {}) \/ pc = "mark"
  /\ Marked(intent # {})
  /\ Take("free", "try")
  /\ UNCHANGED <<live, head, base, done, intent, tx, landed, lost, todo, drop,
                 tried, save, count>>

\* The recovery as a whole fails: no events can be read.
RecoverFails ==
  /\ pc = "scan" /\ Scanned
  /\ Fault
  /\ Take("free", "try") /\ tried' = {}
  /\ round' = IF job = "round" THEN "blocked" ELSE round
  /\ UNCHANGED <<disk, mem, todo, drop, save>>

-----------------------------------------------------------------------------
(* The commit of a round.                                                  *)

\* Mutant: a work with an open event is committed to.
MayCommitAlways == round \in {"ready", "blocked"}

MayCommit == round = "ready"

EndRound ==
  /\ pc = "free" /\ round # "none"
  /\ round' = "none"
  /\ UNCHANGED <<disk, mem, lock, save, count>>

\* The actions of the commit, with the chapters' texts as they are now.
Commit(S, text) ==
  LET r == count.rounds + 1 IN
  /\ pc = "free" /\ MayCommit /\ r \in Rounds
  /\ \A c \in S : text[c] # live[c]
  /\ Bump("rounds")
  /\ edit' = [edit EXCEPT ![r] = [c \in Chapters |->
                IF c \in S THEN [from |-> live[c], to |-> text[c]] ELSE None]]
  /\ Take("intend", "commit")
  /\ todo' = {r} \X S
  /\ UNCHANGED <<live, head, base, done, intent, marker, tx, landed, lost, mem, drop,
                 tried, round, save>>

\* ProofIntentSink::prepare: the marker, then the intents.
WriteIntent(e) ==
  /\ pc = "intend" /\ IsFirst(e, todo)
  /\ IF marker THEN intent' = intent \union {e} /\ todo' = todo \ {e}
               ELSE UNCHANGED <<intent, todo>>
  /\ marker' = TRUE
  /\ UNCHANGED <<live, head, base, done, tx, edit, landed, lost, mem, pc, job, drop,
                 tried, round, save, count>>

PrepareFails ==
  /\ pc = "intend"
  /\ Fault
  /\ intent' = intent \ Of(count.rounds)
  /\ todo' = {} /\ pc' = "mark"
  /\ UNCHANGED <<live, head, base, done, marker, tx, edit, landed, lost, mem, job,
                 drop, tried, round, save>>

\* SaveTransaction: staging with the recovery material, then Prepared.
StageFiles ==
  /\ pc = "intend" /\ todo = {}
  /\ tx' = [tx EXCEPT ![count.rounds] = "staged"]
  /\ pc' = "apply"
  /\ UNCHANGED <<live, head, base, done, intent, marker, edit, landed, lost, mem, job,
                 todo, drop, tried, round, save, count>>

WritePrepared ==
  /\ pc = "apply" /\ tx[count.rounds] = "staged"
  /\ tx' = [tx EXCEPT ![count.rounds] = "prepared"]
  /\ todo' = Of(count.rounds)
  /\ UNCHANGED <<live, head, base, done, intent, marker, edit, landed, lost, mem, pc,
                 job, drop, tried, round, save, count>>

ApplyFile(e) ==
  /\ pc = "apply" /\ tx[count.rounds] = "prepared" /\ IsFirst(e, todo)
  /\ live' = [live EXCEPT ![e[2]] = What(e).to]
  /\ landed' = landed \union {e}
  /\ todo' = todo \ {e}
  /\ UNCHANGED <<head, base, done, intent, marker, tx, edit, lost, mem, pc, job, drop,
                 tried, round, save, count>>

MarkFilesCommitted ==
  /\ pc = "apply" /\ tx[count.rounds] = "prepared" /\ todo = {}
  /\ tx' = [tx EXCEPT ![count.rounds] = "committed"]
  /\ todo' = Of(count.rounds)
  /\ pc' = "record"
  /\ UNCHANGED <<live, head, base, done, intent, marker, edit, landed, lost, mem, job,
                 drop, tried, round, save, count>>

\* An error before the manifest lets the handle drop its directory; after it,
\* the transaction stays Prepared.
CommitFails ==
  /\ pc = "apply"
  /\ Fault
  /\ tx' = IF tx[count.rounds] = "staged"
             THEN [tx EXCEPT ![count.rounds] = "none"] ELSE tx
  /\ todo' = {} /\ pc' = "mark"
  /\ UNCHANGED <<live, head, base, done, intent, marker, edit, landed, lost, mem, job,
                 drop, tried, round, save>>

-----------------------------------------------------------------------------
(* Crash and start.                                                        *)

Crash ==
  /\ pc # "down"
  /\ Fault
  /\ Take("down", "try")
  /\ todo' = {} /\ drop' = {} /\ tried' = {}
  /\ round' = "none" /\ save' = NoSave /\ mem' = FALSE
  /\ UNCHANGED disk

\* set_platform_identity: the first thing a start does, if the marker is there.
Start ==
  /\ pc = "down"
  /\ mem' = marker
  /\ Take(IF marker THEN "scan" ELSE "free", "try")
  /\ UNCHANGED <<disk, todo, drop, tried, round, save, count>>

-----------------------------------------------------------------------------

User ==
  \/ \E c \in Chapters, t \in Texts : SaveWrite(c, t) \/ Resolve(c, t)
  \/ SaveEvent \/ SaveRefused \/ SavePlain \/ SaveCheckpoint

\* What the holder of the lock does next, without an error.
Step ==
  \/ \E r \in Rounds : Discard(r) \/ Replay(r) \/ Clean(r)
  \/ \E e \in todo : Record(e) \/ Refuse(e) \/ WriteIntent(e) \/ ApplyFile(e)
  \/ \E e \in drop : Remove(e)
  \/ Collect \/ Worked \/ Cleaned \/ Refresh
  \/ StageFiles \/ WritePrepared \/ MarkFilesCommitted
  \/ Start

Failure ==
  \/ \E r \in Rounds : ReplayFails(r) \/ CleanFails(r)
  \/ \E e \in todo : RecordFails(e)
  \/ \E e \in drop : RemoveFails(e)
  \/ RecoverFails \/ PrepareFails \/ CommitFails \/ Crash

Triggers == TryRecover \/ RoundRecover \/ EndRound

Next ==
  \/ User \/ Step \/ Failure \/ Triggers
  \/ \E S \in SUBSET Chapters : S # {} /\ \E text \in [S -> Texts] : Commit(S, text)
  \/ \E e \in intent : LoseIntent(e)

Spec == Init /\ [][Next]_vars

-----------------------------------------------------------------------------

\* The variables stay in their types.
TypeOK ==
  /\ live \in [Chapters -> Texts]
  /\ head \in [Chapters -> {None} \union Texts]
  /\ base \in [Chapters -> {None} \union Texts]
  /\ done \subseteq Events /\ intent \subseteq Events
  /\ landed \subseteq Events /\ lost \subseteq Events
  /\ marker \in BOOLEAN /\ mem \in BOOLEAN
  /\ tx \in [Rounds -> {"none", "staged", "prepared", "committed"}]
  /\ edit \in [Rounds -> [Chapters -> {None} \union Change]]
  /\ pc \in Stages /\ job \in Jobs
  /\ todo \subseteq Events /\ drop \subseteq Events /\ tried \subseteq Rounds
  /\ round \in {"none", "ready", "blocked"}
  /\ save \in [at : {"none", "event", "checkpoint"}, chapter : {None} \union Chapters,
               from : {None} \union Texts, to : {None} \union Texts]
  /\ save # NoSave => save.chapter \in Chapters /\ {save.from, save.to} \subseteq Texts
  /\ count \in [rounds : 0 .. MaxRounds, faults : Nat, saves : Nat]

\* A chapter a sync round has replaced has its event in the chain, or a
\* transaction on the disk from which a recovery will append it
\* (cleanup_completed_transactions).
EventsRecoverable ==
  \A e \in landed : e \in done \/ tx[e[1]] \in {"prepared", "committed"}

\* As long as such an event is open, the marker is on the disk, without which
\* the start and the editor do not recover; unless somebody deleted its intent.
PendingMarked ==
  \A e \in landed : e \in done \/ e \in lost \/ marker

\* The events of a chapter are appended in the order in which its texts were
\* replaced: no later one overtakes an open one.
InOrder ==
  \A e, f \in landed :
    (e[2] = f[2] /\ e[1] < f[1] /\ f \in done) => e \in done
=============================================================================
