-------------------------- MODULE ProofChainHistory ---------------------------
(***************************************************************************)
(* ProofChain with a history of the texts that the user brings into a      *)
(* chapter, or into its chain, without the other: an event whose text      *)
(* before the chain does not have for that reason is never appended.  The  *)
(* module adds no behaviour to ProofChain's, and takes none away.          *)
(***************************************************************************)
EXTENDS ProofChain

VARIABLES
  apart,     \* chapters the user left at another text than their chains
  skipped    \* open events the chain does not take because of the user

historyVars == <<vars, apart, skipped>>

HistoryInit == Init /\ apart = {} /\ skipped = {}

\* The text that a chain is at; one without any takes whatever the file has.
Text(c) == IF head[c] # None THEN head[c] ELSE base[c]
Together(c) == Text(c) \in {None, live[c]}

\* Where the user's doing shows: he resolves a conflict, a call of his save ends
\* or is cut off by a crash, or an event is appended whose text he has replaced.
\* A round that replaces a file, its errors, and its recovery, are not among them.
Touched ==
  CASE \E c \in Chapters, t \in Texts : Resolve(c, t) ->
         {c \in Chapters : live'[c] # live[c]}
    [] SaveEvent \/ SaveRefused \/ SaveCheckpoint \/ (Crash /\ save # NoSave) ->
         {save.chapter}
    [] OTHER -> {e[2] : e \in done' \ done}

Taken(e) == Takes(e[2], What(e).from)

\* An event that the chain takes again is no longer skipped.
History ==
  /\ apart' = (apart \ Touched) \union {c \in Touched : ~Together(c)'}
  /\ skipped' = {e \in skipped \union Open' :
                   /\ e \in skipped \/ e[2] \in apart' \union Touched
                   /\ ~Taken(e)'}

HistoryNext == Next /\ History

\* The calls of a save that are left when the file is written.
SaveCalls == SaveEvent \/ SaveRefused \/ SavePlain \/ SaveCheckpoint

\* Rounds go on, automatically or by hand, and the lock's holder goes on; a save
\* that waits for the lock gets it in the end, as there is time between rounds.
HistorySpec ==
  /\ HistoryInit /\ [][HistoryNext]_historyVars
  /\ WF_vars(Step) /\ WF_vars(RoundRecover) /\ WF_vars(EndRound)
  /\ SF_vars(SaveCalls)

\* The event of a chapter that a round has replaced is appended in the end.
\* There are two exceptions, for good and not for a moment, and both are the
\* user's doing: while the round's transaction was there, his save took the chain
\* past the text before the event; or he had left the chain at another text than
\* the file's: by resolving a conflict (conflict.rs:743 tells the chain nothing),
\* by a save whose event was refused or cut off, or by one that a round or the
\* recovery of an event came in between.  No error, crash or lost intent on the
\* round's side alone is an exception.
EventsSettle ==
  \A e \in Events : e \in landed ~> e \in done \/ <>[](e \in skipped)
=============================================================================
