----------------------------- MODULE AtomicSave -----------------------------
(***************************************************************************)
(* What a save promises its callers, without directories, manifests,       *)
(* phases or scans: a redo log.  A save that is opened may be abandoned    *)
(* with no effect.  Once it is logged each of its files is owed; a write   *)
(* reaches its file exactly once, by the caller or, after a crash, late,   *)
(* by a recovery.  When the save is settled nothing of it moves any more,  *)
(* and its proof events exist only if every file was paid.                 *)
(*                                                                         *)
(* "Late" is part of the promise because it is part of the code: a save    *)
(* that returned an error may still take effect at the next scan.          *)
(***************************************************************************)
EXTENDS Naturals

CONSTANTS Files, Saves,     \* the content save s writes is s itself
          Old, Absent       \* the initial content of a file, and no file

VARIABLES files,            \* what a reader of the workspace sees
          entries,          \* what each save means to do to each file
          evented,          \* saves that carry proof events
          status, landed,   \* the life of a save, the files it has paid
          events            \* saves whose proof events are recorded

vars == <<files, entries, evented, status, landed, events>>

Op == {"write", "delete", "skip"}
Owed(s) == {f \in Files : entries[s][f] # "skip"}
Result(s, f) == IF entries[s][f] = "delete" THEN Absent ELSE s

Init ==
  /\ files \in [Files -> {Old, Absent}]
  /\ entries = [s \in Saves |-> [f \in Files |-> "skip"]]
  /\ evented = [s \in Saves |-> FALSE]
  /\ status = [s \in Saves |-> "new"]
  /\ landed = [s \in Saves |-> {}]
  /\ events = {}

Open(s) ==
  /\ status[s] = "new"
  /\ status' = [status EXCEPT ![s] = "open"]
  /\ entries' \in [Saves -> [Files -> Op]]
  /\ evented' \in [Saves -> BOOLEAN]
  /\ \A u \in Saves \ {s} : entries'[u] = entries[u] /\ evented'[u] = evented[u]
  /\ UNCHANGED <<files, landed, events>>

Move(s, from, to) ==
  /\ status[s] = from /\ status' = [status EXCEPT ![s] = to]
  /\ UNCHANGED <<files, entries, evented, landed, events>>

Abandon(s) == Move(s, "open", "settled")

\* The commit point: from here on the save is owed.
Log(s) == Move(s, "open", "logged")

\* A write is paid once; a delete may be repeated, it changes nothing then.
Land(s, f) ==
  /\ status[s] = "logged" /\ f \in Owed(s)
  /\ entries[s][f] = "write" => f \notin landed[s]
  /\ files' = [files EXCEPT ![f] = Result(s, f)]
  /\ landed' = [landed EXCEPT ![s] = @ \union {f}]
  /\ UNCHANGED <<entries, evented, status, events>>

Settle(s) == landed[s] = Owed(s) /\ Move(s, "logged", "settled")

\* A save without proof events whose recovery missed a file is dropped torn.
GiveUp(s) == ~evented[s] /\ Move(s, "logged", "settled")

Record ==
  /\ events \subseteq events' /\ events' \subseteq Saves
  /\ \A s \in events' \ events : status[s] = "settled" /\ landed[s] = Owed(s)
  /\ UNCHANGED <<files, entries, evented, status, landed>>

UserDelete(f) ==
  /\ files' = [files EXCEPT ![f] = Absent]
  /\ UNCHANGED <<entries, evented, status, landed, events>>

Next ==
  \/ \E s \in Saves : Open(s) \/ Abandon(s) \/ Log(s) \/ Settle(s) \/ GiveUp(s)
  \/ \E s \in Saves, f \in Files : Land(s, f)
  \/ Record
  \/ \E f \in Files : UserDelete(f)

Spec == Init /\ [][Next]_vars
=============================================================================
