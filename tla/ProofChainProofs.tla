--------------------------- MODULE ProofChainProofs ---------------------------
(***************************************************************************)
(* Proofs about ProofChain.  Events are recoverable and in order because   *)
(* of what the lock's holder has at each stage (StageInv), because nothing *)
(* is known of a round before its manifest (FreshInv), because a           *)
(* transaction is kept until its events are in the chains (KeptInv) and an *)
(* intent until its transaction is gone (IntentInv), and because no round  *)
(* commits while an event is open (OrderInv).                              *)
(***************************************************************************)
EXTENDS ProofChainHistory, TLAPS

\* What the stages leave to do.
StageInv ==
  /\ pc \notin {"work", "record", "intend", "apply"} => todo = {}
  /\ pc \notin {"work", "clean", "remove"} => drop = {}
  /\ pc \in {"intend", "apply", "record", "mark"} => job = "commit"
  /\ pc \in {"free", "down", "scan", "work"} => job # "commit"
  /\ \A e \in todo : What(e) # None
  /\ job = "commit" => count.rounds \in Rounds
  /\ pc \in {"intend", "apply"} => \A e \in todo : e[1] = count.rounds

\* Nothing has been done for the events of a round.
Untouched(r) == \A c \in Chapters : <<r, c>> \notin landed \union done

\* Before the manifest of a round nothing has been done for it.
FreshInv ==
  /\ \A r \in Rounds : r > count.rounds => tx[r] = "none"
  /\ \A r \in Rounds : r > count.rounds \/ tx[r] = "staged" => Untouched(r)
  /\ pc = "intend" => tx[count.rounds] = "none" /\ Untouched(count.rounds)
  /\ pc = "apply" => tx[count.rounds] \in {"staged", "prepared"}
  /\ pc \in {"work", "record"} => \A e \in todo : tx[e[1]] = "committed"

\* A replaced chapter has its event, or a transaction that names it.
KeptInv == \A e \in landed : e \in done \/ (e[1] \in Linked /\ What(e) # None)

\* Events of a transaction have their intents, unless they are in the chains.
IntentInv ==
  /\ intent # {} => marker
  /\ \A e \in Events :
       tx[e[1]] # "none" /\ What(e) # None => e \in intent \union lost \union done
  /\ pc = "intend" =>
       \A e \in Of(count.rounds) : e \in todo \union intent \union lost
  /\ \A e \in drop : e \in done \/ tx[e[1]] = "none"

\* Events that are replaced or about to be.
Known == landed \union {e \in Events : e[1] \in Linked /\ What(e) # None}

\* A round knows of no open event of an earlier one.
OrderInv ==
  /\ \A e, f \in Known : e[1] < f[1] => e \in done
  /\ round = "ready" /\ job # "commit" => Open = {}
  /\ pc \in {"intend", "apply"} =>
       \A e \in Known : e[1] < count.rounds => e \in done

IInv == TypeOK /\ StageInv /\ FreshInv /\ KeptInv /\ IntentInv /\ OrderInv

-----------------------------------------------------------------------------
(* Types.                                                                  *)

CountType == [rounds : 0 .. MaxRounds, faults : Nat, saves : Nat]

\* A bump of a fault or a save is no new round (Fault, the guards of the user).
LEMMA BumpOther ==
  ASSUME TypeOK, NEW what \in {"faults", "saves"}, Bump(what)
  PROVE  count' \in CountType /\ count'.rounds = count.rounds
<1>1. count \in CountType
  BY DEF TypeOK, CountType
<1>2. CASE what = "faults"
  BY <1>1, <1>2 DEF Bump, CountType
<1>3. CASE what = "saves"
  BY <1>1, <1>3 DEF Bump, CountType
<1>. QED BY <1>2, <1>3

\* A new round is the next one (Commit).
LEMMA BumpRounds ==
  ASSUME TypeOK, count.rounds + 1 \in Rounds, Bump("rounds")
  PROVE  count' \in CountType /\ count'.rounds = count.rounds + 1
<1>1. count \in CountType /\ count.rounds \in 0 .. MaxRounds
  BY DEF TypeOK, CountType
<1>2. MaxRounds \in Nat
  BY ChainAssumption
<1>3. count.rounds + 1 \in 0 .. MaxRounds
  BY <1>1, <1>2 DEF Rounds
<1>. QED BY <1>1, <1>3 DEF Bump, CountType

\* What an event does is a change of text, once it is known.
LEMMA ChangeType ==
  ASSUME TypeOK, NEW e \in Events, What(e) # None
  PROVE  What(e).from \in Texts /\ What(e).to \in Texts
BY DEF TypeOK, What, Events, Change

\* The user's saves keep the types.
LEMMA UserType == TypeOK /\ User => TypeOK'
<1> SUFFICES ASSUME TypeOK, User PROVE TypeOK'
  OBVIOUS
<1>1. ASSUME NEW c \in Chapters, NEW t \in Texts, SaveWrite(c, t) \/ Resolve(c, t)
      PROVE  TypeOK'
  <2>1. count' \in CountType
    BY <1>1, BumpOther DEF SaveWrite, Resolve
  <2>2. CASE SaveWrite(c, t)
    BY <2>1, <2>2, ChainAssumption
    DEF TypeOK, SaveWrite, NoSave, lock, CountType
  <2>3. CASE Resolve(c, t)
    BY <2>1, <2>3 DEF TypeOK, Resolve, lock, CountType
  <2>. QED BY <1>1, <2>2, <2>3
<1>2. CASE SaveEvent
  BY <1>2 DEF TypeOK, SaveEvent, AppendTo, lock, NoSave
<1>3. CASE SaveRefused
  BY <1>3 DEF TypeOK, SaveRefused, disk, lock, NoSave
<1>4. CASE SavePlain
  BY <1>4 DEF TypeOK, SavePlain, disk, lock, NoSave
<1>5. CASE SaveCheckpoint
  BY <1>5 DEF TypeOK, SaveCheckpoint, Checkpointed, lock, NoSave
<1>. QED BY <1>1, <1>2, <1>3, <1>4, <1>5 DEF User

\* The text an event to be done replaces, and the one it brings.
LEMMA TodoTexts ==
  ASSUME TypeOK, StageInv, NEW e \in todo
  PROVE  e \in Events /\ e[2] \in Chapters /\ {What(e).from, What(e).to} \subseteq Texts
BY ChangeType DEF TypeOK, StageInv, Events

\* The lock's holder keeps the types.
LEMMA StepType == TypeOK /\ StageInv /\ Step => TypeOK'
<1> SUFFICES ASSUME TypeOK, StageInv, Step PROVE TypeOK'
  OBVIOUS
<1> USE DEF Take, Stages, Jobs
<1>1. ASSUME NEW r \in Rounds, Discard(r) \/ Clean(r)
      PROVE  TypeOK'
  BY <1>1 DEF TypeOK, Discard, Clean, lock
<1>2. ASSUME NEW r \in Rounds, Replay(r)
      PROVE  TypeOK'
  <2>1. live' \in [Chapters -> Texts]
    BY <1>2, ChainAssumption DEF TypeOK, Replay, Change
  <2>. QED BY <1>2, <2>1 DEF TypeOK, Replay, lock, Of
<1>3. ASSUME NEW e \in todo, Record(e) \/ Refuse(e) \/ ApplyFile(e) \/ WriteIntent(e)
      PROVE  TypeOK'
  <2>1. e \in Events /\ e[2] \in Chapters /\ {What(e).from, What(e).to} \subseteq Texts
    BY TodoTexts
  <2>2. CASE Record(e)
    BY <2>1, <2>2 DEF TypeOK, Record, AppendTo
  <2>3. CASE Refuse(e)
    BY <2>3 DEF TypeOK, Refuse, disk
  <2>4. CASE ApplyFile(e)
    BY <2>1, <2>4 DEF TypeOK, ApplyFile
  <2>5. CASE WriteIntent(e)
    BY <2>1, <2>5 DEF TypeOK, WriteIntent
  <2>. QED BY <1>3, <2>2, <2>3, <2>4, <2>5
<1>4. ASSUME NEW e \in drop, Remove(e)
      PROVE  TypeOK'
  BY <1>4 DEF TypeOK, Remove
<1>5. CASE Collect
  BY <1>5 DEF TypeOK, Collect, disk, Open, Of
<1>6. CASE Worked
  BY <1>6 DEF TypeOK, Worked, disk, Of
<1>7. CASE Cleaned
  BY <1>7 DEF TypeOK, Cleaned, disk
<1>8. CASE Refresh
  BY <1>8 DEF TypeOK, Refresh, Marked
<1>9. CASE StageFiles
  BY <1>9 DEF TypeOK, StageFiles
<1>10. CASE WritePrepared
  BY <1>10 DEF TypeOK, WritePrepared, Of
<1>11. CASE MarkFilesCommitted
  BY <1>11 DEF TypeOK, MarkFilesCommitted, Of
<1>12. CASE Start
  BY <1>12 DEF TypeOK, Start, disk
<1>. QED
  BY <1>1, <1>2, <1>3, <1>4, <1>5, <1>6, <1>7, <1>8, <1>9, <1>10, <1>11, <1>12
  DEF Step

\* What fails keeps the types.
LEMMA FailureType == TypeOK /\ StageInv /\ Failure => TypeOK'
<1> SUFFICES ASSUME TypeOK, StageInv, Failure PROVE TypeOK'
  OBVIOUS
<1> USE DEF Take, Stages, Jobs, CountType
<1>1. Fault => count' \in CountType
  BY BumpOther DEF Fault
<1>2. ASSUME NEW r \in Rounds, ReplayFails(r) \/ CleanFails(r)
      PROVE  TypeOK'
  BY <1>1, <1>2 DEF TypeOK, ReplayFails, CleanFails, disk
<1>3. ASSUME NEW e \in todo, RecordFails(e)
      PROVE  TypeOK'
  <2>1. e[2] \in Chapters /\ {What(e).from, What(e).to} \subseteq Texts
    BY TodoTexts
  <2>2. base' \in [Chapters -> {None} \union Texts]
    BY <1>3, <2>1 DEF TypeOK, RecordFails
  <2>. QED BY <1>1, <1>3, <2>2 DEF TypeOK, RecordFails
<1>4. ASSUME NEW e \in drop, RemoveFails(e)
      PROVE  TypeOK'
  BY <1>1, <1>4 DEF TypeOK, RemoveFails, disk
<1>5. CASE RecoverFails
  BY <1>1, <1>5 DEF TypeOK, RecoverFails, disk
<1>6. CASE PrepareFails
  BY <1>1, <1>6 DEF TypeOK, PrepareFails
<1>7. CASE CommitFails
  BY <1>1, <1>7 DEF TypeOK, CommitFails
<1>8. CASE Crash
  BY <1>1, <1>8 DEF TypeOK, Crash, disk, NoSave
<1>. QED
  BY <1>2, <1>3, <1>4, <1>5, <1>6, <1>7, <1>8 DEF Failure

\* The triggers, a round's commit and a lost intent keep the types.
LEMMA OtherType ==
  ASSUME TypeOK,
         \/ Triggers
         \/ \E S \in SUBSET Chapters : \E text \in [S -> Texts] : Commit(S, text)
         \/ \E e \in intent : LoseIntent(e)
  PROVE  TypeOK'
<1> USE DEF Take, Stages, Jobs
<1>1. CASE Triggers
  BY <1>1 DEF TypeOK, Triggers, TryRecover, RoundRecover, EndRound, disk, lock
<1>2. ASSUME NEW S \in SUBSET Chapters, NEW text \in [S -> Texts], Commit(S, text)
      PROVE  TypeOK'
  <2> DEFINE r == count.rounds + 1
  <2>1. r \in Rounds /\ count' \in CountType
    BY <1>2, BumpRounds DEF Commit
  <2>2. [c \in Chapters |-> IF c \in S THEN [from |-> live[c], to |-> text[c]] ELSE None]
          \in [Chapters -> {None} \union Change]
    BY DEF TypeOK, Change
  <2>3. edit' \in [Rounds -> [Chapters -> {None} \union Change]]
    BY <1>2, <2>1, <2>2 DEF TypeOK, Commit
  <2>4. todo' \subseteq Events
    BY <1>2, <2>1 DEF Commit, Events
  <2>. QED BY <1>2, <2>1, <2>3, <2>4 DEF TypeOK, Commit, CountType
<1>3. ASSUME NEW e \in intent, LoseIntent(e)
      PROVE  TypeOK'
  <2>1. count' \in CountType
    BY <1>3, BumpOther DEF LoseIntent, Fault
  <2>. QED BY <1>3, <2>1 DEF TypeOK, LoseIntent, lock, CountType
<1>. QED BY <1>1, <1>2, <1>3

\* Type correctness is a matter of one step.
LEMMA TypeStep == TypeOK /\ StageInv /\ [Next]_vars => TypeOK'
<1> SUFFICES ASSUME TypeOK, StageInv, [Next]_vars PROVE TypeOK'
  OBVIOUS
<1>1. CASE UNCHANGED vars
  BY <1>1 DEF TypeOK, vars, disk, lock
<1>2. CASE Next
  BY <1>2, UserType, StepType, FailureType, OtherType DEF Next
<1>. QED BY <1>1, <1>2

-----------------------------------------------------------------------------
(* Steps that change nothing the invariant is about.                       *)

\* Every action but Commit stays in its round.
LEMMA SameRound ==
  ASSUME TypeOK, User \/ Step \/ Failure \/ Triggers \/ \E e \in intent : LoseIntent(e)
  PROVE  count'.rounds = count.rounds
<1>1. Fault => count'.rounds = count.rounds
  BY BumpOther DEF Fault
<1>2. User => count'.rounds = count.rounds
  BY BumpOther
  DEF User, SaveWrite, Resolve, SaveEvent, SaveRefused, SavePlain, SaveCheckpoint
<1>3. Step => count'.rounds = count.rounds
  BY DEF Step, Discard, Replay, Clean, Record, Refuse, WriteIntent, ApplyFile, Remove,
         Collect, Worked, Cleaned, Refresh, StageFiles, WritePrepared,
         MarkFilesCommitted, Start
<1>4. Failure => count'.rounds = count.rounds
  BY <1>1
  DEF Failure, ReplayFails, CleanFails, RecordFails, RemoveFails, RecoverFails,
      PrepareFails, CommitFails, Crash
<1>5. Triggers => count'.rounds = count.rounds
  BY DEF Triggers, TryRecover, RoundRecover, EndRound
<1>. QED BY <1>1, <1>2, <1>3, <1>4, <1>5 DEF LoseIntent

\* What the invariant is about.
Core == <<done, intent, marker, tx, edit, landed, lost, pc, job, todo, drop, round>>

\* A step that leaves it alone keeps the invariant.
LEMMA QuietStep ==
  ASSUME IInv, TypeOK', UNCHANGED Core, count'.rounds = count.rounds
  PROVE  IInv'
<1> USE DEF Core, What, Linked, Of, Untouched, Known, Open
<1>1. StageInv'
  BY DEF IInv, StageInv
<1>2. FreshInv'
  BY DEF IInv, FreshInv
<1>3. KeptInv'
  BY DEF IInv, KeptInv
<1>4. IntentInv'
  BY DEF IInv, IntentInv
<1>5. OrderInv'
  BY DEF IInv, OrderInv
<1>. QED BY <1>1, <1>2, <1>3, <1>4, <1>5 DEF IInv

\* The user's saves and the failures that change no file are such steps.
LEMMA UserStep == IInv /\ User => IInv'
<1> SUFFICES ASSUME IInv, User PROVE IInv'
  OBVIOUS
<1>1. UNCHANGED Core
  BY DEF User, SaveWrite, Resolve, SaveEvent, SaveRefused, SavePlain, SaveCheckpoint,
         Core, disk, lock
<1>. QED BY <1>1, QuietStep, UserType, SameRound DEF IInv

-----------------------------------------------------------------------------
(* What the stages leave to do.                                            *)

\* The lock's holder, without an error.
LEMMA StageOfStep == IInv /\ Step => StageInv'
<1> SUFFICES ASSUME IInv, Step PROVE StageInv'
  OBVIOUS
<1>0. TypeOK /\ StageInv /\ count'.rounds = count.rounds
  BY SameRound DEF IInv
<1> USE <1>0 DEF StageInv, What
<1>1. ASSUME NEW r \in Rounds, Discard(r) \/ Replay(r) \/ Clean(r)
      PROVE  StageInv'
  BY <1>1 DEF Discard, Replay, Clean, lock
<1>2. ASSUME NEW e \in todo, Record(e) \/ Refuse(e) \/ WriteIntent(e) \/ ApplyFile(e)
      PROVE  StageInv'
  BY <1>2 DEF Record, Refuse, WriteIntent, ApplyFile, Working, disk
<1>3. ASSUME NEW e \in drop, Remove(e)
      PROVE  StageInv'
  BY <1>3 DEF Remove
<1>4. CASE Collect
  BY <1>4 DEF Collect, Open, Of, disk
<1>5. CASE Worked
  BY <1>5 DEF Worked, Working, disk
<1>6. CASE Cleaned
  BY <1>6 DEF Cleaned, disk
<1>7. CASE Refresh
  BY <1>7 DEF Refresh, Take
<1>8. CASE StageFiles
  BY <1>8 DEF StageFiles
<1>9. CASE WritePrepared
  BY <1>9 DEF WritePrepared, Of
<1>10. CASE MarkFilesCommitted
  BY <1>10 DEF MarkFilesCommitted, Of
<1>11. CASE Start
  BY <1>11 DEF Start, Take, disk
<1>. QED
  BY <1>1, <1>2, <1>3, <1>4, <1>5, <1>6, <1>7, <1>8, <1>9, <1>10, <1>11 DEF Step

\* Failures, triggers and lost intents.
LEMMA StageOfOther ==
  ASSUME IInv, Failure \/ Triggers \/ \E e \in intent : LoseIntent(e)
  PROVE  StageInv'
<1>0. TypeOK /\ StageInv /\ count'.rounds = count.rounds
  BY SameRound DEF IInv
<1> USE <1>0 DEF StageInv, What
<1>1. ASSUME NEW r \in Rounds, ReplayFails(r) \/ CleanFails(r)
      PROVE  StageInv'
  BY <1>1 DEF ReplayFails, CleanFails, disk
<1>2. ASSUME NEW e \in todo, RecordFails(e)
      PROVE  StageInv'
  BY <1>2 DEF RecordFails, Working
<1>3. ASSUME NEW e \in drop, RemoveFails(e)
      PROVE  StageInv'
  BY <1>3 DEF RemoveFails, disk
<1>4. CASE RecoverFails
  BY <1>4 DEF RecoverFails, Take, disk
<1>5. CASE PrepareFails
  BY <1>5 DEF PrepareFails
<1>6. CASE CommitFails
  BY <1>6 DEF CommitFails
<1>7. CASE Crash
  BY <1>7 DEF Crash, Take, disk
<1>8. CASE Triggers
  BY <1>8 DEF Triggers, TryRecover, RoundRecover, EndRound, Take, disk, lock
<1>9. ASSUME NEW e \in intent, LoseIntent(e)
      PROVE  StageInv'
  BY <1>9 DEF LoseIntent, lock
<1>. QED
  BY <1>1, <1>2, <1>3, <1>4, <1>5, <1>6, <1>7, <1>8, <1>9 DEF Failure

\* A round that begins its commit.
LEMMA StageOfCommit ==
  ASSUME IInv, NEW S \in SUBSET Chapters, NEW text \in [S -> Texts], Commit(S, text)
  PROVE  StageInv'
<1> DEFINE r == count.rounds + 1
<1>1. r \in Rounds /\ count'.rounds = r /\ TypeOK /\ StageInv
  BY BumpRounds DEF Commit, IInv
<1>2. todo' = {r} \X S /\ pc' = "intend" /\ job' = "commit" /\ drop' = drop /\ pc = "free"
  BY DEF Commit, Take
<1>3. \A c \in S : edit'[r][c] # None
  <2>1. \A c \in S : edit'[r][c] = [from |-> live[c], to |-> text[c]]
    BY <1>1 DEF Commit, TypeOK
  <2>2. \A c \in S : [from |-> live[c], to |-> text[c]] # None
    BY <1>1, ChainAssumption DEF TypeOK
  <2>. QED BY <2>1, <2>2
<1>4. \A e \in todo' : e[1] = count'.rounds /\ edit'[e[1]][e[2]] # None
  BY <1>1, <1>2, <1>3
<1>. QED BY <1>1, <1>2, <1>4 DEF StageInv, What

-----------------------------------------------------------------------------
(* Nothing happens to a round's events before its manifest.                *)

\* An event is the pair of its round and its chapter.
LEMMA EventPair ==
  ASSUME NEW e \in Events
  PROVE  e = <<e[1], e[2]>> /\ e[1] \in Rounds /\ e[2] \in Chapters
BY DEF Events

\* No event of an untouched round is replaced or recorded.
LEMMA UntouchedEvent ==
  ASSUME NEW e \in Events, Untouched(e[1])
  PROVE  e \notin landed /\ e \notin done
BY EventPair DEF Untouched

\* The lock's holder, without an error.
LEMMA FreshOfStep == IInv /\ Step => FreshInv'
<1> SUFFICES ASSUME IInv, Step PROVE FreshInv'
  OBVIOUS
<1>0. TypeOK /\ StageInv /\ FreshInv /\ count'.rounds = count.rounds
  BY SameRound DEF IInv
<1>a. /\ count.rounds \in Nat
      /\ tx \in [Rounds -> {"none", "staged", "prepared", "committed"}]
  <2>1. count \in CountType
    BY <1>0 DEF TypeOK, CountType
  <2>2. count.rounds \in Nat
    BY <2>1 DEF CountType
  <2>. QED BY <1>0, <2>2 DEF TypeOK
<1>b. Rounds \subseteq Nat
  BY DEF Rounds
<1> USE <1>0, <1>a, <1>b DEF FreshInv, Untouched
<1>1. ASSUME NEW r \in Rounds, Discard(r) \/ Clean(r)
      PROVE  FreshInv'
  BY <1>1 DEF Discard, Clean, lock, Scanning
<1>2. ASSUME NEW r \in Rounds, Replay(r)
      PROVE  FreshInv'
  <2>1. ~(r > count.rounds) /\ tx[r] = "prepared" /\ pc \in {"scan", "clean"}
    BY <1>2 DEF Replay, Scanning
  <2>2. \A e \in Of(r) : e[1] = r
    BY DEF Of
  <2>. QED BY <1>2, <2>1, <2>2 DEF Replay, lock
<1>3. ASSUME NEW e \in todo, Record(e)
      PROVE  FreshInv'
  <2>1. e \in Events /\ tx[e[1]] = "committed" /\ ~(e[1] > count.rounds)
    BY <1>3, EventPair DEF Record, Working, TypeOK
  <2>. QED BY <1>3, <2>1 DEF Record, Working
<1>4. ASSUME NEW e \in todo, ApplyFile(e)
      PROVE  FreshInv'
  BY <1>4 DEF ApplyFile, StageInv
<1>5. ASSUME NEW e \in todo, Refuse(e) \/ WriteIntent(e)
      PROVE  FreshInv'
  BY <1>5 DEF Refuse, WriteIntent, disk
<1>6. ASSUME NEW e \in drop, Remove(e)
      PROVE  FreshInv'
  BY <1>6 DEF Remove
<1>7. CASE Collect
  BY <1>7 DEF Collect, disk
<1>8. CASE Worked
  BY <1>8 DEF Worked, disk
<1>9. CASE Cleaned
  BY <1>9 DEF Cleaned, disk
<1>10. CASE Refresh
  BY <1>10 DEF Refresh, Take
<1>11. CASE StageFiles
  BY <1>11 DEF StageFiles, StageInv
<1>12. CASE WritePrepared
  BY <1>12 DEF WritePrepared, StageInv
<1>13. CASE MarkFilesCommitted
  BY <1>13 DEF MarkFilesCommitted, StageInv, Of
<1>14. CASE Start
  BY <1>14 DEF Start, Take, disk
<1>. QED
  BY <1>1, <1>2, <1>3, <1>4, <1>5, <1>6, <1>7, <1>8, <1>9, <1>10, <1>11, <1>12, <1>13,
     <1>14 DEF Step

\* Failures, triggers and lost intents.
LEMMA FreshOfOther ==
  ASSUME IInv, Failure \/ Triggers \/ \E e \in intent : LoseIntent(e)
  PROVE  FreshInv'
<1>0. TypeOK /\ StageInv /\ FreshInv /\ count'.rounds = count.rounds
  BY SameRound DEF IInv
<1>a. tx \in [Rounds -> {"none", "staged", "prepared", "committed"}]
  BY <1>0 DEF TypeOK
<1> USE <1>0, <1>a DEF FreshInv, Untouched
<1>1. ASSUME NEW r \in Rounds, ReplayFails(r) \/ CleanFails(r)
      PROVE  FreshInv'
  BY <1>1 DEF ReplayFails, CleanFails, disk
<1>2. ASSUME NEW e \in todo, RecordFails(e)
      PROVE  FreshInv'
  BY <1>2 DEF RecordFails
<1>3. ASSUME NEW e \in drop, RemoveFails(e)
      PROVE  FreshInv'
  BY <1>3 DEF RemoveFails, disk
<1>4. CASE RecoverFails
  BY <1>4 DEF RecoverFails, Take, disk
<1>5. CASE PrepareFails
  BY <1>5 DEF PrepareFails
<1>6. CASE CommitFails
  BY <1>6 DEF CommitFails, StageInv
<1>7. CASE Crash
  BY <1>7 DEF Crash, Take, disk
<1>8. CASE Triggers
  BY <1>8 DEF Triggers, TryRecover, RoundRecover, EndRound, Take, disk, lock
<1>9. ASSUME NEW e \in intent, LoseIntent(e)
      PROVE  FreshInv'
  BY <1>9 DEF LoseIntent, lock
<1>. QED
  BY <1>1, <1>2, <1>3, <1>4, <1>5, <1>6, <1>7, <1>8, <1>9 DEF Failure

\* The round that begins its commit is a fresh one.
LEMMA FreshOfCommit ==
  ASSUME IInv, NEW S \in SUBSET Chapters, NEW text \in [S -> Texts], Commit(S, text)
  PROVE  FreshInv'
<1> DEFINE r == count.rounds + 1
<1>1. r \in Rounds /\ count'.rounds = r /\ FreshInv /\ count.rounds \in Nat
  BY BumpRounds DEF Commit, IInv, TypeOK
<1>2. Rounds \subseteq Nat
  BY DEF Rounds
<1>3. UNCHANGED <<tx, landed, done>> /\ pc' = "intend"
  BY DEF Commit, Take
<1>4. tx[r] = "none" /\ Untouched(r)
  BY <1>1 DEF FreshInv
<1>. QED BY <1>1, <1>2, <1>3, <1>4 DEF FreshInv, Untouched

-----------------------------------------------------------------------------
(* A transaction is kept until its events are in the chains.               *)

\* The lock's holder, without an error.
LEMMA KeptOfStep == IInv /\ Step => KeptInv'
<1> SUFFICES ASSUME IInv, Step PROVE KeptInv'
  OBVIOUS
<1>0. TypeOK /\ StageInv /\ FreshInv /\ KeptInv /\ landed \subseteq Events
  BY DEF IInv, TypeOK
<1>a. tx \in [Rounds -> {"none", "staged", "prepared", "committed"}]
  BY <1>0 DEF TypeOK
<1>b. \A e \in landed : e[1] \in Rounds /\ e[2] \in Chapters
  BY <1>0, EventPair
<1> USE <1>0, <1>a, <1>b DEF KeptInv, Linked, What
<1>1. ASSUME NEW r \in Rounds, Discard(r)
      PROVE  KeptInv'
  BY <1>1 DEF Discard, lock
<1>2. ASSUME NEW r \in Rounds, Replay(r)
      PROVE  KeptInv'
  <2>1. \A e \in Of(r) : e[1] = r /\ edit[e[1]][e[2]] # None
    BY DEF Of
  <2>. QED BY <1>2, <2>1 DEF Replay, lock
<1>3. ASSUME NEW r \in Rounds, Clean(r)
      PROVE  KeptInv'
  <2>1. \A e \in landed : e[1] = r => e \in done
    BY <1>3 DEF Clean, Cleanable, Completed, Of
  <2>. QED BY <1>3, <2>1 DEF Clean, lock
<1>4. ASSUME NEW e \in todo, Record(e)
      PROVE  KeptInv'
  BY <1>4 DEF Record
<1>5. ASSUME NEW e \in todo, ApplyFile(e)
      PROVE  KeptInv'
  BY <1>5 DEF ApplyFile, StageInv
<1>6. ASSUME NEW e \in todo, Refuse(e) \/ WriteIntent(e)
      PROVE  KeptInv'
  BY <1>6 DEF Refuse, WriteIntent, disk
<1>7. ASSUME NEW e \in drop, Remove(e)
      PROVE  KeptInv'
  BY <1>7 DEF Remove
<1>8. CASE Collect \/ Worked \/ Cleaned
  BY <1>8 DEF Collect, Worked, Cleaned, disk
<1>9. CASE Refresh
  BY <1>9 DEF Refresh, Marked
<1>10. CASE StageFiles
  <2>1. tx[count.rounds] = "none" /\ count.rounds \in Rounds
    BY <1>10 DEF StageFiles, FreshInv, StageInv
  <2>. QED BY <1>10, <2>1 DEF StageFiles
<1>11. CASE WritePrepared \/ MarkFilesCommitted
  BY <1>11 DEF WritePrepared, MarkFilesCommitted
<1>12. CASE Start
  BY <1>12 DEF Start, disk
<1>. QED
  BY <1>1, <1>2, <1>3, <1>4, <1>5, <1>6, <1>7, <1>8, <1>9, <1>10, <1>11, <1>12
  DEF Step

\* Failures, triggers and lost intents.
LEMMA KeptOfOther ==
  ASSUME IInv, Failure \/ Triggers \/ \E e \in intent : LoseIntent(e)
  PROVE  KeptInv'
<1>0. KeptInv /\ tx \in [Rounds -> {"none", "staged", "prepared", "committed"}]
  BY DEF IInv, TypeOK
<1>1. UNCHANGED <<done, edit, landed>>
  BY DEF Failure, ReplayFails, CleanFails, RecordFails, RemoveFails, RecoverFails,
         PrepareFails, CommitFails, Crash, Triggers, TryRecover, RoundRecover, EndRound,
         LoseIntent, disk
<1>2. tx' = tx \/ \E r \in Rounds : tx[r] = "staged" /\ tx' = [tx EXCEPT ![r] = "none"]
  <2>1. CASE CommitFails
    BY <2>1 DEF CommitFails, IInv, StageInv
  <2>2. CASE ~CommitFails
    BY <2>2
    DEF Failure, ReplayFails, CleanFails, RecordFails, RemoveFails, RecoverFails,
        PrepareFails, Crash, Triggers, TryRecover, RoundRecover, EndRound, LoseIntent, disk
  <2>. QED BY <2>1, <2>2
<1>3. Linked \subseteq Linked'
  BY <1>0, <1>2 DEF Linked
<1>. QED BY <1>0, <1>1, <1>3 DEF KeptInv, What

\* The round that begins its commit has replaced nothing.
LEMMA KeptOfCommit ==
  ASSUME IInv, NEW S \in SUBSET Chapters, NEW text \in [S -> Texts], Commit(S, text)
  PROVE  KeptInv'
<1> DEFINE r == count.rounds + 1
<1>1. r \in Rounds /\ KeptInv /\ landed \subseteq Events /\ FreshInv /\ count.rounds \in Nat
  BY DEF Commit, IInv, TypeOK
<1>2. UNCHANGED <<tx, landed, done>>
  BY DEF Commit
<1>3. Untouched(r)
  BY <1>1 DEF FreshInv
<1>4. \A e \in landed : e[1] # r
  BY <1>1, <1>3, UntouchedEvent
<1>5. edit \in [Rounds -> [Chapters -> {None} \union Change]]
  BY DEF IInv, TypeOK
<1>6. \A e \in landed : edit'[e[1]] = edit[e[1]]
  <2>1. \A q \in Rounds : q # r => edit'[q] = edit[q]
    BY <1>1, <1>5 DEF Commit
  <2>. QED BY <1>1, <1>4, <2>1, EventPair
<1>. QED BY <1>1, <1>2, <1>6 DEF KeptInv, What, Linked

-----------------------------------------------------------------------------
(* An intent is kept until its transaction is gone.                        *)

\* The lock's holder, without an error.
LEMMA IntentOfStep == IInv /\ Step => IntentInv'
<1> SUFFICES ASSUME IInv, Step PROVE IntentInv'
  OBVIOUS
<1>0. TypeOK /\ StageInv /\ FreshInv /\ IntentInv /\ count'.rounds = count.rounds
  BY SameRound DEF IInv
<1>a. /\ tx \in [Rounds -> {"none", "staged", "prepared", "committed"}]
      /\ intent \subseteq Events
  BY <1>0 DEF TypeOK
<1>b. \A e \in Events : e[1] \in Rounds /\ e[2] \in Chapters
  BY EventPair
<1> USE <1>0, <1>a, <1>b DEF IntentInv, What
<1>1. ASSUME NEW r \in Rounds, Discard(r) \/ Clean(r)
      PROVE  IntentInv'
  BY <1>1 DEF Discard, Clean, lock, Scanning, Of, TypeOK
<1>2. ASSUME NEW r \in Rounds, Replay(r)
      PROVE  IntentInv'
  BY <1>2 DEF Replay, lock, Scanning, TypeOK
<1>3. ASSUME NEW e \in todo, Record(e)
      PROVE  IntentInv'
  BY <1>3 DEF Record, Working
<1>4. ASSUME NEW e \in todo, ApplyFile(e)
      PROVE  IntentInv'
  BY <1>4 DEF ApplyFile
<1>5. ASSUME NEW e \in todo, Refuse(e)
      PROVE  IntentInv'
  BY <1>5 DEF Refuse, Working, disk
<1>6. ASSUME NEW e \in todo, WriteIntent(e)
      PROVE  IntentInv'
  BY <1>6 DEF WriteIntent, Of
<1>7. ASSUME NEW e \in drop, Remove(e)
      PROVE  IntentInv'
  BY <1>7 DEF Remove
<1>8. CASE Collect
  <2>1. \A e \in drop' : e \in done \/ tx[e[1]] = "none"
    BY <1>8 DEF Collect, Scanned, Linked, TypeOK
  <2>. QED BY <1>8, <2>1 DEF Collect, disk
<1>9. CASE Worked \/ Cleaned
  BY <1>9 DEF Worked, Cleaned, disk
<1>10. CASE Refresh
  BY <1>10 DEF Refresh, Marked, Take, StageInv
<1>11. CASE StageFiles
  <2>1. \A e \in Events : e[1] = count.rounds /\ What(e) # None => e \in intent \union lost
    BY <1>11 DEF StageFiles, Of
  <2>2. drop = {}
    BY <1>11 DEF StageFiles, StageInv
  <2>. QED BY <1>11, <2>1, <2>2 DEF StageFiles
<1>12. CASE WritePrepared
  BY <1>12 DEF WritePrepared, StageInv
<1>13. CASE MarkFilesCommitted
  BY <1>13 DEF MarkFilesCommitted, StageInv
<1>14. CASE Start
  BY <1>14 DEF Start, Take, disk
<1>. QED
  BY <1>1, <1>2, <1>3, <1>4, <1>5, <1>6, <1>7, <1>8, <1>9, <1>10, <1>11, <1>12, <1>13,
     <1>14 DEF Step

\* Failures, triggers and lost intents.
LEMMA IntentOfOther ==
  ASSUME IInv, Failure \/ Triggers \/ \E e \in intent : LoseIntent(e)
  PROVE  IntentInv'
<1>0. TypeOK /\ StageInv /\ FreshInv /\ IntentInv /\ count'.rounds = count.rounds
  BY SameRound DEF IInv
<1>a. tx \in [Rounds -> {"none", "staged", "prepared", "committed"}]
  BY <1>0 DEF TypeOK
<1>b. \A e \in Events : e[1] \in Rounds /\ e[2] \in Chapters
  BY EventPair
<1> USE <1>0, <1>a, <1>b DEF IntentInv, What, Of
<1>1. ASSUME NEW r \in Rounds, ReplayFails(r) \/ CleanFails(r)
      PROVE  IntentInv'
  BY <1>1 DEF ReplayFails, CleanFails, disk
<1>2. ASSUME NEW e \in todo, RecordFails(e)
      PROVE  IntentInv'
  BY <1>2 DEF RecordFails, Working
<1>3. ASSUME NEW e \in drop, RemoveFails(e)
      PROVE  IntentInv'
  BY <1>3 DEF RemoveFails, disk
<1>4. CASE RecoverFails
  BY <1>4 DEF RecoverFails, Take, disk
<1>5. CASE PrepareFails
  <2>1. tx[count.rounds] = "none"
    BY <1>5 DEF PrepareFails, FreshInv
  <2>. QED BY <1>5, <2>1 DEF PrepareFails
<1>6. CASE CommitFails
  BY <1>6 DEF CommitFails, StageInv, TypeOK
<1>7. CASE Crash
  BY <1>7 DEF Crash, Take, disk
<1>8. CASE Triggers
  BY <1>8 DEF Triggers, TryRecover, RoundRecover, EndRound, Take, disk, lock
<1>9. ASSUME NEW e \in intent, LoseIntent(e)
      PROVE  IntentInv'
  BY <1>9 DEF LoseIntent, lock
<1>. QED
  BY <1>1, <1>2, <1>3, <1>4, <1>5, <1>6, <1>7, <1>8, <1>9 DEF Failure

\* The round that begins its commit has all its intents to write.
LEMMA IntentOfCommit ==
  ASSUME IInv, NEW S \in SUBSET Chapters, NEW text \in [S -> Texts], Commit(S, text)
  PROVE  IntentInv'
<1> DEFINE r == count.rounds + 1
<1>1. r \in Rounds /\ IntentInv /\ FreshInv /\ count'.rounds = r /\ count.rounds \in Nat
  BY BumpRounds DEF Commit, IInv, TypeOK
<1>2. UNCHANGED <<tx, intent, marker, done, lost, drop>>
  BY DEF Commit
<1>3. tx[r] = "none"
  BY <1>1 DEF FreshInv
<1>4. edit \in [Rounds -> [Chapters -> {None} \union Change]]
  BY DEF IInv, TypeOK
<1>5. \A q \in Rounds : q # r => edit'[q] = edit[q]
  BY <1>1, <1>4 DEF Commit
<1>6. \A e \in Events : tx'[e[1]] # "none" => What(e)' = What(e)
  BY <1>2, <1>3, <1>5, EventPair DEF What
<1>7. \A c \in Chapters : edit'[r][c] # None => <<r, c>> \in todo'
  <2>1. todo' = {r} \X S
    BY DEF Commit
  <2>2. \A c \in Chapters : edit'[r][c] # None => c \in S
    BY <1>1, <1>4 DEF Commit
  <2>. QED BY <2>1, <2>2
<1>8. \A e \in Of(count.rounds)' : e \in todo'
  <2>1. \A e \in Events : e[1] = r /\ edit'[r][e[2]] # None => e \in todo'
    BY <1>7, EventPair
  <2>. QED BY <1>1, <2>1 DEF Of
<1>. QED BY <1>1, <1>2, <1>6, <1>8 DEF IntentInv

-----------------------------------------------------------------------------
(* No round commits while an event is open.                                *)

\* The open events are the linked ones that are not in the chains.
LEMMA OpenEvents ==
  /\ Open = {e \in Events : e[1] \in Linked /\ What(e) # None /\ e \notin done}
  /\ Open' = {e \in Events : e[1] \in Linked' /\ What(e)' # None /\ e \notin done'}
<1>1. Linked \subseteq Rounds /\ Linked' \subseteq Rounds
  BY DEF Linked
<1>. QED BY <1>1, EventPair DEF Open, Of, What

\* A step that makes no more events known keeps the order.
LEMMA OrderKept ==
  ASSUME IInv, Known' \subseteq Known, done \subseteq done', count'.rounds = count.rounds,
         pc' \in {"intend", "apply"} => pc \in {"intend", "apply"},
         round' = "ready" /\ job' # "commit" => Open' = {}
  PROVE  OrderInv'
BY DEF IInv, OrderInv

\* The lock's holder, without an error.
LEMMA OrderOfStep == IInv /\ Step => OrderInv'
<1> SUFFICES ASSUME IInv, Step PROVE OrderInv'
  OBVIOUS
<1>0. /\ TypeOK /\ TypeOK' /\ StageInv /\ FreshInv /\ OrderInv
      /\ count'.rounds = count.rounds
  BY SameRound, StepType DEF IInv
<1>a. /\ tx \in [Rounds -> {"none", "staged", "prepared", "committed"}]
      /\ Open = {e \in Events : e[1] \in Linked /\ What(e) # None /\ e \notin done}
      /\ Open' = {e \in Events : e[1] \in Linked' /\ What(e)' # None /\ e \notin done'}
  BY <1>0, OpenEvents DEF TypeOK
<1>b. \A e \in Events : e[1] \in Rounds /\ e[2] \in Chapters
  BY EventPair
<1> DEFINE Kept == Known' \subseteq Known /\ Open' \subseteq Open /\ done \subseteq done'
<1>c. OrderInv /\ Open' \subseteq Open /\ round' = round /\ job' = job
        => (round' = "ready" /\ job' # "commit" => Open' = {})
  BY DEF OrderInv
<1> USE <1>0, <1>a, <1>b DEF Known, Linked, What
<1>1. ASSUME NEW r \in Rounds, Discard(r) \/ Clean(r)
      PROVE  OrderInv'
  <2>1. Kept
    BY <1>1 DEF Discard, Clean
  <2>. QED BY <1>1, <2>1, <1>c, OrderKept DEF Discard, Clean, lock
<1>2. ASSUME NEW r \in Rounds, Replay(r)
      PROVE  OrderInv'
  <2>1. \A e \in Of(r) : e \in Known
    BY <1>2 DEF Replay, Of
  <2>2. Kept
    BY <1>2, <2>1 DEF Replay
  <2>. QED BY <1>2, <2>2, <1>c, OrderKept DEF Replay, lock
<1>3. ASSUME NEW e \in todo, Record(e)
      PROVE  OrderInv'
  <2>1. Kept
    BY <1>3 DEF Record
  <2>. QED BY <1>3, <2>1, <1>c, OrderKept DEF Record
<1>4. ASSUME NEW e \in todo, ApplyFile(e)
      PROVE  OrderInv'
  <2>1. e \in Known
    BY <1>4 DEF ApplyFile, StageInv, TypeOK
  <2>2. Kept
    BY <1>4, <2>1 DEF ApplyFile
  <2>. QED BY <1>4, <2>2, <1>c, OrderKept DEF ApplyFile
<1>5. ASSUME NEW e \in todo, Refuse(e) \/ WriteIntent(e)
      PROVE  OrderInv'
  <2>1. Kept
    BY <1>5 DEF Refuse, WriteIntent, disk
  <2>. QED BY <1>5, <2>1, <1>c, OrderKept DEF Refuse, WriteIntent
<1>6. ASSUME NEW e \in drop, Remove(e)
      PROVE  OrderInv'
  <2>1. Kept
    BY <1>6 DEF Remove
  <2>. QED BY <1>6, <2>1, <1>c, OrderKept DEF Remove
<1>7. CASE Collect \/ Worked \/ Cleaned
  <2>1. Kept
    BY <1>7 DEF Collect, Worked, Cleaned, disk
  <2>. QED BY <1>7, <2>1, <1>c, OrderKept DEF Collect, Worked, Cleaned
<1>8. CASE Refresh
  <2>1. Kept
    BY <1>8 DEF Refresh, Marked
  <2>2. round' = "ready" => Open = {}
    BY <1>8 DEF Refresh, Marked, OrderInv
  <2>. QED BY <1>8, <2>1, <2>2, OrderKept DEF Refresh, Take
<1>9. CASE StageFiles
  <2>1. tx[count.rounds] = "none"
    BY <1>9 DEF StageFiles, FreshInv
  <2>2. Kept
    BY <1>9, <2>1 DEF StageFiles
  <2>. QED BY <1>9, <2>2, <1>c, OrderKept DEF StageFiles
<1>10. CASE WritePrepared
  <2> DEFINE r == count.rounds
  <2>1. /\ tx[r] = "staged" /\ r \in Rounds /\ pc = "apply" /\ pc' = pc
        /\ UNCHANGED <<landed, done, edit, round, job>> /\ job = "commit"
        /\ tx' = [tx EXCEPT ![r] = "prepared"]
    BY <1>10 DEF WritePrepared, StageInv
  <2>2. \A e \in Known' : e \in Known \/ e[1] = r
    BY <2>1
  <2>3. \A e \in Known : ~(e[1] > r)
    <3>1. \A e \in landed : e \in Events
      BY DEF TypeOK
    <3>2. \A e \in Known : e \in Events
      BY <3>1
    <3>3. ASSUME NEW e \in Known, e[1] > r PROVE FALSE
      BY <3>2, <3>3, UntouchedEvent DEF FreshInv
    <3>. QED BY <3>3
  <2>4. \A e \in Known : e[1] < r => e \in done
    BY <2>1 DEF OrderInv
  <2>5. \A e, f \in Known' : e[1] < f[1] => e \in done'
    <3> SUFFICES ASSUME NEW e \in Known', NEW f \in Known', e[1] < f[1]
                 PROVE  e \in done
      BY <2>1
    <3>1. CASE e \in Known /\ f \in Known
      BY <3>1 DEF OrderInv
    <3>2. CASE f[1] = r
      BY <2>2, <2>4, <3>2, <1>0 DEF TypeOK, Rounds
    <3>3. CASE e[1] = r /\ f \in Known
      BY <2>3, <3>3
    <3>. QED BY <2>2, <3>1, <3>2, <3>3
  <2>. QED BY <2>1, <2>2, <2>4, <2>5 DEF OrderInv
<1>11. CASE MarkFilesCommitted
  <2>1. Kept
    BY <1>11 DEF MarkFilesCommitted, StageInv
  <2>. QED BY <1>11, <2>1, <1>c, OrderKept DEF MarkFilesCommitted
<1>12. CASE Start
  <2>1. Kept
    BY <1>12 DEF Start, disk
  <2>2. job # "commit"
    BY <1>12 DEF Start, StageInv
  <2>. QED BY <1>12, <2>1, <2>2, OrderKept DEF Start, Take, OrderInv
<1>. QED
  BY <1>1, <1>2, <1>3, <1>4, <1>5, <1>6, <1>7, <1>8, <1>9, <1>10, <1>11, <1>12
  DEF Step

\* Failures, triggers and lost intents.
LEMMA OrderOfOther ==
  ASSUME IInv, Failure \/ Triggers \/ \E e \in intent : LoseIntent(e)
  PROVE  OrderInv'
<1>0. /\ TypeOK /\ StageInv /\ OrderInv /\ count'.rounds = count.rounds
      /\ tx \in [Rounds -> {"none", "staged", "prepared", "committed"}]
  BY SameRound DEF IInv, TypeOK
<1>1. UNCHANGED <<done, edit, landed>>
  BY DEF Failure, ReplayFails, CleanFails, RecordFails, RemoveFails, RecoverFails,
         PrepareFails, CommitFails, Crash, Triggers, TryRecover, RoundRecover, EndRound,
         LoseIntent, disk
<1>2. Linked' = Linked
  <2>1. CASE CommitFails
    BY <1>0, <2>1 DEF CommitFails, StageInv, Linked
  <2>2. CASE ~CommitFails
    BY <2>2
    DEF Failure, ReplayFails, CleanFails, RecordFails, RemoveFails, RecoverFails,
        PrepareFails, Crash, Triggers, TryRecover, RoundRecover, EndRound, LoseIntent,
        disk, Linked
  <2>. QED BY <2>1, <2>2
<1>3. Known' = Known /\ Open' = Open
  BY <1>1, <1>2, OpenEvents DEF Known, What
<1>4. pc' \in {"intend", "apply"} => pc \in {"intend", "apply"}
  BY DEF Failure, ReplayFails, CleanFails, RecordFails, RemoveFails, RecoverFails,
         PrepareFails, CommitFails, Crash, Triggers, TryRecover, RoundRecover, EndRound,
         LoseIntent, Take, lock
<1>5. round' = "ready" /\ job' # "commit" => round = "ready" /\ job # "commit"
  BY <1>0
  DEF Failure, ReplayFails, CleanFails, RecordFails, RemoveFails, RecoverFails,
      PrepareFails, CommitFails, Crash, Triggers, TryRecover, RoundRecover, EndRound,
      LoseIntent, Take, lock, StageInv
<1>. QED BY <1>0, <1>1, <1>3, <1>4, <1>5, OrderKept DEF OrderInv

\* A round commits only when no event is open.
LEMMA OrderOfCommit ==
  ASSUME IInv, NEW S \in SUBSET Chapters, NEW text \in [S -> Texts], Commit(S, text)
  PROVE  OrderInv'
<1> DEFINE r == count.rounds + 1
<1>1. /\ r \in Rounds /\ FreshInv /\ OrderInv /\ KeptInv /\ count'.rounds = r
      /\ count.rounds \in Nat /\ landed \subseteq Events
      /\ edit \in [Rounds -> [Chapters -> {None} \union Change]]
  BY BumpRounds DEF Commit, IInv, TypeOK
<1>2. UNCHANGED <<tx, landed, done, round>> /\ job' = "commit"
  BY DEF Commit, Take
<1>3. tx[r] = "none"
  BY <1>1 DEF FreshInv
<1>4. \A q \in Rounds : q # r => edit'[q] = edit[q]
  BY <1>1 DEF Commit
<1>5. \A e \in Events : e[1] \in Linked => What(e)' = What(e)
  BY <1>3, <1>4, EventPair DEF What, Linked
<1>6. Known' = Known
  BY <1>2, <1>5 DEF Known, Linked
<1>7. Open = {}
  BY <1>1 DEF Commit, MayCommit, OrderInv, IInv, StageInv
<1>8. \A e \in Known : e \in done
  BY <1>1, <1>7, OpenEvents DEF Known, KeptInv
<1>. QED BY <1>1, <1>2, <1>6, <1>8 DEF OrderInv

-----------------------------------------------------------------------------
(* The theorems.                                                           *)

\* The invariant holds before the first round (Init).
LEMMA Inductive == Init => IInv
<1> SUFFICES ASSUME Init PROVE IInv
  OBVIOUS
<1> USE DEF Init
<1>1. TypeOK
  <2>1. AnyText \in Texts
    BY ChainAssumption DEF AnyText
  <2>2. count \in [rounds : 0 .. MaxRounds, faults : Nat, saves : Nat]
    BY ChainAssumption DEF NoCount
  <2>. QED BY <2>1, <2>2 DEF TypeOK, NoSave, Stages, Jobs
<1>2. StageInv /\ FreshInv
  BY DEF StageInv, FreshInv, Untouched
<1>3. KeptInv /\ IntentInv
  BY EventPair DEF KeptInv, IntentInv, What
<1>4. Known = {} /\ Open = {}
  BY OpenEvents DEF Known, Linked
<1>5. OrderInv
  BY <1>4 DEF OrderInv
<1>. QED BY <1>1, <1>2, <1>3, <1>5 DEF IInv

\* Every step of the lock's holder, the user and the faults keeps it (Next).
LEMMA Preserved == IInv /\ [Next]_vars => IInv'
<1> SUFFICES ASSUME IInv, [Next]_vars PROVE IInv'
  OBVIOUS
<1>1. TypeOK'
  BY TypeStep DEF IInv
<1>2. CASE UNCHANGED vars
  BY <1>1, <1>2, QuietStep DEF vars, disk, lock, Core
<1>3. CASE User
  BY <1>3, UserStep
<1>4. CASE Step
  BY <1>1, <1>4, StageOfStep, FreshOfStep, KeptOfStep, IntentOfStep, OrderOfStep DEF IInv
<1>5. CASE Failure \/ Triggers \/ \E e \in intent : LoseIntent(e)
  BY <1>1, <1>5, StageOfOther, FreshOfOther, KeptOfOther, IntentOfOther, OrderOfOther
  DEF IInv
<1>6. ASSUME NEW S \in SUBSET Chapters, NEW text \in [S -> Texts], Commit(S, text)
      PROVE  IInv'
  BY <1>1, <1>6, StageOfCommit, FreshOfCommit, KeptOfCommit, IntentOfCommit,
     OrderOfCommit DEF IInv
<1>. QED BY <1>2, <1>3, <1>4, <1>5, <1>6 DEF Next

\* The inductive invariant of ProofChain.
THEOREM Invariant == Spec => []IInv
BY Inductive, Preserved, PTL DEF Spec

\* The variables of ProofChain stay in their types.
THEOREM TypeCorrect == Spec => []TypeOK
<1>1. IInv => TypeOK
  BY DEF IInv
<1>. QED BY <1>1, Invariant, PTL

\* A replaced chapter has its event, or a transaction on the disk that has it
\* (cleanup_completed_transactions never takes the last evidence away).
THEOREM EventsRecoverableHolds == Spec => []EventsRecoverable
<1>1. IInv => EventsRecoverable
  BY DEF IInv, KeptInv, EventsRecoverable, Linked
<1>. QED BY <1>1, Invariant, PTL

\* As long as an event is open, the marker is on the disk, so that the next
\* start recovers (refresh_pending, set_platform_identity).
THEOREM PendingMarkedHolds == Spec => []PendingMarked
<1>1. IInv => PendingMarked
  <2> SUFFICES ASSUME IInv, NEW e \in landed, e \notin done, e \notin lost
               PROVE  marker
    BY DEF PendingMarked
  <2>1. e \in Events /\ e[1] \in Linked /\ What(e) # None
    BY DEF IInv, KeptInv, TypeOK
  <2>2. e \in intent
    BY <2>1 DEF IInv, IntentInv, Linked
  <2>. QED BY <2>2 DEF IInv, IntentInv
<1>. QED BY <1>1, Invariant, PTL

\* The events of a chapter are appended in the order of its texts, as no round
\* commits while one is open (commit_target_after_transfer).
THEOREM InOrderHolds == Spec => []InOrder
<1>1. IInv => InOrder
  BY DEF IInv, OrderInv, Known, InOrder
<1>. QED BY <1>1, Invariant, PTL

\* What is proved of Spec holds with the history: it adds no step to ProofChain.
THEOREM HistoryAddsNothing == HistorySpec => Spec
<1>1. HistoryInit => Init
  BY DEF HistoryInit
<1>2. [HistoryNext]_historyVars => [Next]_vars
  BY DEF HistoryNext, historyVars
<1>. QED BY <1>1, <1>2, PTL DEF HistorySpec, Spec
=============================================================================
