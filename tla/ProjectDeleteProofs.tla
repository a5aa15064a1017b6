------------------------- MODULE ProjectDeleteProofs -------------------------
(***************************************************************************)
(* TLAPS proofs about ProjectDelete, for any deletions, star maps, errors  *)
(* and crashes: type correctness, that a deletion the user asked for is    *)
(* not lost to the remote as long as the list has one writer at a time,    *)
(* and that a work that is gone leaves nothing behind.                     *)
(***************************************************************************)
EXTENDS ProjectDelete, TLAPS

-----------------------------------------------------------------------------
(* The invariant.                                                          *)

\* A deletion the remote will learn of, or a round has answered.
Safe(t) == t \in Listed(queue) \union answered

\* Whoever is to write the list has it as it is; what he takes off it has been
\* answered.
ListOf(a) ==
  /\ op[a].at \in {"read", "write"} => op[a].tok \in Asked
  /\ op[a].at = "write" => op[a].list = queue /\ op[a].tok \notin Listed(queue)
  /\ op[a].at = "unlist" => op[a].list = queue
  /\ op[a].at \in {"cleanup", "unlist"} =>
       a = "round" /\ queue # <<>> /\ Head(queue) \in answered
  /\ op[a].at \in {"queued", "completed", "clear"} /\ op[a].tok \in Asked =>
       Safe(op[a].tok)

OneAtList ==
  \A a, b \in Actors :
    op[a].at \in {"write", "unlist"} /\ op[b].at \in {"write", "unlist"} => a = b

QueueInv ==
  /\ OneAtList
  /\ \A a \in Actors : ListOf(a)
  /\ \A t \in Asked :
       journal[t].phase \in {"queued", "completed", "cleared"} => Safe(t)
  /\ \A t \in todo : journal[t].phase # "none"

IInv == TypeOK /\ QueueInv

-----------------------------------------------------------------------------
(* Lemmas about the list and about what actors do.                         *)

\* An appended entry is listed after those that were.
LEMMA ListAppend ==
  ASSUME NEW S, NEW q \in Seq(S), NEW x
  PROVE  /\ Listed(Append(q, x)) = Listed(q) \union {x}
         /\ Append(q, x) # <<>>
         /\ q # <<>> => Head(Append(q, x)) = Head(q)
<1>1. /\ Len(q) \in Nat /\ DOMAIN q = 1..Len(q)
      /\ DOMAIN Append(q, x) = 1..(Len(q) + 1)
      /\ \A i \in 1..Len(q) : Append(q, x)[i] = q[i]
      /\ Append(q, x)[Len(q) + 1] = x
  OBVIOUS
<1>2. Append(q, x) # <<>> /\ Head(Append(q, x)) = Append(q, x)[1]
  BY <1>1
<1>3. q # <<>> => Len(q) # 0 /\ Head(q) = q[1]
  OBVIOUS
<1>4. Listed(Append(q, x)) = Listed(q) \union {x}
  BY <1>1 DEF Listed
<1> QED
  BY <1>1, <1>2, <1>3, <1>4

\* Only the first entry is taken off.
LEMMA ListTail ==
  ASSUME NEW S, NEW q \in Seq(S), q # <<>>
  PROVE  /\ Tail(q) \in Seq(S)
         /\ Head(q) \in Listed(q)
         /\ Listed(q) \subseteq {Head(q)} \union Listed(Tail(q))
         /\ Listed(Tail(q)) \subseteq Listed(q)
<1>1. Tail(q) \in Seq(S) /\ Len(q) \in Nat \ {0} /\ Len(Tail(q)) = Len(q) - 1
      /\ Head(q) = q[1] /\ DOMAIN q = 1..Len(q)
      /\ \A i \in 1..Len(Tail(q)) : Tail(q)[i] = q[i + 1]
  OBVIOUS
<1>2. DOMAIN Tail(q) = 1..Len(Tail(q))
  BY <1>1
<1>3. Head(q) \in Listed(q)
  BY <1>1 DEF Listed
<1>4. ASSUME NEW x \in Listed(q), x # Head(q) PROVE x \in Listed(Tail(q))
  <2>1. PICK i \in 1..Len(q) : x = q[i]
    BY <1>1, <1>4 DEF Listed
  <2>2. i # 1 /\ i - 1 \in 1..Len(Tail(q))
    BY <1>1, <1>4, <2>1
  <2>3. Tail(q)[i - 1] = x
    BY <1>1, <2>1, <2>2
  <2> QED
    BY <1>2, <2>2, <2>3 DEF Listed
<1>5. ASSUME NEW x \in Listed(Tail(q)) PROVE x \in Listed(q)
  <2>1. PICK i \in 1..Len(Tail(q)) : x = Tail(q)[i]
    BY <1>2, <1>5 DEF Listed
  <2>2. i + 1 \in 1..Len(q) /\ x = q[i + 1]
    BY <1>1, <2>1
  <2> QED
    BY <1>1, <2>2 DEF Listed
<1> QED
  BY <1>1, <1>3, <1>4, <1>5

\* No entry is twice in a list.
Single(q) == \A i, j \in DOMAIN q : q[i] = q[j] => i = j

\* None is after a new one is appended, or the first one is taken off.
LEMMA SingleKept ==
  ASSUME NEW S, NEW q \in Seq(S), Single(q)
  PROVE  /\ \A x : x \notin Listed(q) => Single(Append(q, x))
         /\ q # <<>> => Single(Tail(q))
<1>1. ASSUME NEW x, x \notin Listed(q) PROVE Single(Append(q, x))
  BY <1>1 DEF Single, Listed
<1>2. ASSUME q # <<>> PROVE Single(Tail(q))
  <2>1. Len(q) \in Nat \ {0} /\ Len(Tail(q)) = Len(q) - 1
        /\ DOMAIN q = 1..Len(q) /\ DOMAIN Tail(q) = 1..Len(Tail(q))
        /\ \A i \in 1..Len(Tail(q)) : Tail(q)[i] = q[i + 1]
    BY <1>2
  <2> QED
    BY <2>1 DEF Single
<1> QED
  BY <1>1, <1>2

\* A list of user's deletions is a list of deletions.
LEMMA AskedList ==
  ASSUME NEW q \in Seq(Asked) PROVE q \in Seq(Tokens)
BY DEF Tokens

\* The idle actor.
LEMMA IdleActor ==
  /\ NoOp \in Op /\ NoOp.at = "idle" /\ NoOp.maps = {} /\ NoOp.list = <<>>
  /\ AnyToken \in Tokens
<1>1. AnyToken \in Tokens
  BY WorkAssumption DEF AnyToken
<1> QED
  BY <1>1 DEF NoOp, Op, Steps

\* Going to another step changes nothing else of an actor.
LEMMA GoesTo ==
  ASSUME op \in [Actors -> Op], NEW a \in Actors, NEW step \in Steps,
         Goto(a, step)
  PROVE  /\ op' \in [Actors -> Op]
         /\ op'[a].at = step /\ op'[a].tok = op[a].tok
         /\ op'[a].maps = op[a].maps /\ op'[a].list = op[a].list
         /\ \A b \in Actors : b # a => op'[b] = op[b]
BY DEF Goto, Op

\* An actor that leaves is idle.
LEMMA Leaves ==
  ASSUME op \in [Actors -> Op], NEW a \in Actors, Leave(a)
  PROVE  /\ op' \in [Actors -> Op]
         /\ op'[a].at = "idle"
         /\ \A b \in Actors : b # a => op'[b] = op[b]
BY IdleActor DEF Leave

-----------------------------------------------------------------------------
(* Type correctness and the list.                                          *)

\* Initially nobody does anything and no deletion is on record.
LEMMA IInvInit == Init => IInv
<1> SUFFICES ASSUME Init PROVE IInv
  OBVIOUS
<1>1. TypeOK
  <2>1. NoJournal \in Journal /\ NoJournal.phase = "none"
    BY DEF NoJournal, Journal, Phases
  <2>2. <<>> \in Seq(Asked) /\ DOMAIN <<>> = {}
    OBVIOUS
  <2> QED
    BY <2>1, <2>2, IdleActor, WorkAssumption DEF Init, TypeOK, Is, Actors
<1>2. QueueInv
  BY IdleActor DEF Init, QueueInv, OneAtList, ListOf, NoJournal, Tokens
<1> QED
  BY <1>1, <1>2 DEF IInv

\* A step of one actor that writes neither the list nor a journal, and goes
\* nowhere near them, keeps what is known of the list.
LEMMA AwayFromList ==
  ASSUME IInv, NEW a \in Actors,
         \A b \in Actors : b # a => op'[b] = op[b],
         op'[a].at \notin {"read", "write", "cleanup", "unlist"},
         op'[a].at \in {"queued", "completed", "clear"} /\ op'[a].tok \in Asked
           => Safe(op'[a].tok),
         UNCHANGED <<queue, answered>>,
         \A t \in Asked :
           journal'[t].phase \in {"queued", "completed", "cleared"} => Safe(t),
         \A t \in todo' : journal'[t].phase # "none"
  PROVE  QueueInv'
<1>1. ASSUME NEW b \in Actors PROVE ListOf(b)'
  <2>1. CASE b = a
    BY <2>1 DEF ListOf, Safe
  <2>2. CASE b # a
    <3>1. op'[b] = op[b] /\ ListOf(b)
      BY <2>2 DEF IInv, QueueInv
    <3> QED
      BY <3>1 DEF ListOf, Safe
  <2> QED
    BY <2>1, <2>2
<1>2. OneAtList'
  BY DEF OneAtList, IInv, QueueInv
<1> QED
  BY <1>1, <1>2 DEF QueueInv, Safe

\* The steps of a deletion other than those that write the list.
LEMMA DeletionStep ==
  ASSUME IInv, NEW a \in Actors,
         \/ Mark(a) \/ MoveWorktree(a) \/ CannotMove(a) \/ UnbindStarmaps(a)
         \/ RecordHistory(a) \/ Acknowledge(a) \/ CleanupJournal(a)
         \/ UnbindFails(a) \/ StepFails(a)
  PROVE  IInv'
<1> USE DEF boundVars, startVars, diskVars
<1>0. TypeOK /\ QueueInv /\ ListOf(a)
  BY DEF IInv, QueueInv
<1>1. /\ op \in [Actors -> Op] /\ journal \in [Tokens -> Journal]
      /\ op[a] \in Op /\ op[a].tok \in Tokens /\ op[a].maps \in SUBSET Maps
  BY <1>0 DEF TypeOK, Op
<1>2. CASE Mark(a)
  <2>1. PICK phase \in Open : op[a].at = phase
    BY <1>2 DEF Mark
  <2> DEFINE entry == [phase |-> phase, maps |-> op[a].maps]
  <2>2. entry \in Journal /\ entry.phase = phase
    BY <1>1, <2>1 DEF Journal, Phases
  <2>3. journal' = [journal EXCEPT ![op[a].tok] = entry]
    BY <1>2, <2>1 DEF Mark
  <2> HIDE DEF entry
  <2>4. /\ journal' \in [Tokens -> Journal]
        /\ journal'[op[a].tok].phase = phase
        /\ \A t \in Tokens : t # op[a].tok => journal'[t] = journal[t]
    BY <1>1, <2>2, <2>3
  <2>5. \A t \in Asked :
          journal'[t].phase \in {"queued", "completed", "cleared"} => Safe(t)
    BY <1>0, <2>1, <2>4 DEF ListOf, QueueInv, Open, Tokens
  <2>6. \A t \in todo : journal'[t].phase # "none"
    BY <1>0, <2>1, <2>4 DEF QueueInv, Open, TypeOK
  <2>7. UNCHANGED <<work, trash, bound, tracked, queue, mode, todo, faults,
                    answers, answered>>
    BY <1>2 DEF Mark
  <2>8. CASE a = "start" /\ Is(a, "unbound")
    <3>1. Leave(a) /\ recovered' = recovered \union {op[a].tok}
      BY <1>2, <2>8 DEF Mark
    <3>2. /\ op' \in [Actors -> Op] /\ op'[a].at = "idle"
          /\ \A b \in Actors : b # a => op'[b] = op[b]
      BY <1>1, <3>1, Leaves
    <3>3. QueueInv'
      BY <2>5, <2>6, <2>7, <3>2, AwayFromList
    <3>4. mode = "starting"
      BY <1>0, <2>8 DEF TypeOK, Is
    <3>5. TypeOK'
      BY <1>0, <1>1, <2>4, <2>7, <3>1, <3>2, <3>4 DEF TypeOK, Is, Actors
    <3> QED
      BY <3>3, <3>5 DEF IInv
  <2>9. CASE ~(a = "start" /\ Is(a, "unbound"))
    <3>1. Goto(a, After(a, phase)) /\ UNCHANGED recovered
      BY <1>2, <2>1, <2>9 DEF Mark
    <3>2. After(a, phase) \in Steps /\ After(a, phase) # "idle"
      BY <2>1 DEF After, Open, Steps
    <3>3. /\ op' \in [Actors -> Op] /\ op'[a].at = After(a, phase)
          /\ op'[a].tok = op[a].tok
          /\ \A b \in Actors : b # a => op'[b] = op[b]
      BY <1>1, <3>1, <3>2, GoesTo
    <3>4. mode # "starting" => a # "start"
      BY <1>0, <2>1 DEF TypeOK, Is, Open
    <3>5. TypeOK'
      BY <1>0, <2>4, <2>7, <3>1, <3>3, <3>4 DEF TypeOK, Is, Actors
    <3>6. CASE After(a, phase) # "read"
      <4>1. After(a, phase) \notin {"read", "write", "cleanup", "unlist"}
        BY <2>1, <3>6 DEF After, Open
      <4>2. After(a, phase) \in {"queued", "completed", "clear"} =>
              \/ phase \in {"queued", "completed"} \/ op[a].tok \notin Asked
        BY <2>1 DEF After, Open
      <4>3. QueueInv'
        BY <1>0, <2>1, <2>5, <2>6, <2>7, <3>3, <4>1, <4>2, AwayFromList
           DEF ListOf
      <4> QED
        BY <3>5, <4>3 DEF IInv
    <3>7. CASE After(a, phase) = "read"
      <4>1. op[a].tok \in Asked
        BY <2>1, <3>7 DEF After, Open
      <4>2. ListOf(a)'
        BY <3>3, <3>7, <4>1 DEF ListOf
      <4>3. ASSUME NEW b \in Actors, b # a PROVE ListOf(b)'
        <5>1. op'[b] = op[b] /\ ListOf(b)
          BY <1>0, <3>3, <4>3 DEF QueueInv
        <5> QED
          BY <2>7, <5>1 DEF ListOf, Safe
      <4>4. OneAtList'
        BY <1>0, <3>3, <3>7 DEF QueueInv, OneAtList
      <4>5. QueueInv'
        BY <2>5, <2>6, <2>7, <4>2, <4>3, <4>4 DEF QueueInv, Safe
      <4> QED
        BY <3>5, <4>5 DEF IInv
    <3> QED
      BY <3>6, <3>7
  <2> QED
    BY <2>8, <2>9
<1>3. CASE MoveWorktree(a) \/ UnbindStarmaps(a) \/ RecordHistory(a)
  <2>1. \E step \in {"moved", "unbound", "ack"} : Goto(a, step)
    BY <1>3 DEF MoveWorktree, UnbindStarmaps, RecordHistory
  <2>2. PICK step \in {"moved", "unbound", "ack"} : Goto(a, step)
    BY <2>1
  <2>3. step \in Steps
    BY <2>2 DEF Steps, Open
  <2>4. /\ op' \in [Actors -> Op] /\ op'[a].at = step
        /\ \A b \in Actors : b # a => op'[b] = op[b]
    BY <1>1, <2>2, <2>3, GoesTo
  <2>5. /\ UNCHANGED <<queue, journal, mode, todo, recovered, faults, answers,
                       answered>>
        /\ work' \in BOOLEAN /\ tracked' \in BOOLEAN /\ bound' \subseteq Maps
        /\ trash' \subseteq Tokens /\ op[a].at # "idle"
    BY <1>0, <1>1, <1>3
       DEF MoveWorktree, UnbindStarmaps, RecordHistory, TypeOK, Is
  <2>6. mode # "starting" => a # "start"
    BY <1>0, <2>5 DEF TypeOK, Is
  <2>7. TypeOK'
    BY <1>0, <2>4, <2>5, <2>6 DEF TypeOK, Is, Actors
  <2>8. QueueInv'
    BY <1>0, <2>4, <2>5, AwayFromList DEF QueueInv
  <2> QED
    BY <2>7, <2>8 DEF IInv
<1>4. CASE Acknowledge(a) /\ Goto(a, "recorded")
  <2>2. Goto(a, "recorded") /\ UNCHANGED <<diskVars, startVars, boundVars>>
        /\ op[a].at = "ack"
    BY <1>4 DEF Acknowledge, Is
  <2>3. "recorded" \in Steps
    BY DEF Steps, Open
  <2>4. /\ op' \in [Actors -> Op] /\ op'[a].at = "recorded"
        /\ \A b \in Actors : b # a => op'[b] = op[b]
    BY <1>1, <2>2, <2>3, GoesTo
  <2>6. mode # "starting" => a # "start"
    BY <1>0, <2>2 DEF TypeOK, Is
  <2>7. TypeOK'
    BY <1>0, <2>2, <2>4, <2>6 DEF TypeOK, Is, Actors
  <2>8. QueueInv'
    BY <1>0, <2>2, <2>4, AwayFromList DEF QueueInv
  <2> QED
    BY <2>7, <2>8 DEF IInv
<1>5. CASE \/ Acknowledge(a) /\ Leave(a)
           \/ CannotMove(a) \/ UnbindFails(a) \/ StepFails(a)
           \/ CleanupJournal(a)
  <2>1. /\ Leave(a)
        /\ UNCHANGED <<queue, mode, todo, recovered, answers, answered, work,
                       trash, tracked>>
        /\ bound' \subseteq Maps /\ faults' \in 0..MaxFaults
    BY <1>0, <1>5, WorkAssumption DEF CannotMove, Acknowledge, UnbindFails, StepFails,
         CleanupJournal, Fault, TypeOK
  <2>2. /\ op' \in [Actors -> Op] /\ op'[a].at = "idle"
        /\ \A b \in Actors : b # a => op'[b] = op[b]
    BY <1>1, <2>1, Leaves
  <2>3. \/ journal' = journal
        \/ /\ op[a].at = "clear"
           /\ journal' = [journal EXCEPT ![op[a].tok].phase = "cleared"]
    BY <1>5 DEF CannotMove, Acknowledge, UnbindFails, StepFails,
         CleanupJournal, Is
  <2>4. /\ journal' \in [Tokens -> Journal]
        /\ \A t \in Tokens :
             \/ journal'[t] = journal[t]
             \/ /\ op[a].at = "clear" /\ t = op[a].tok
                /\ journal'[t].phase = "cleared"
    BY <1>1, <2>3 DEF Journal, Phases
  <2>5. \A t \in Asked :
          journal'[t].phase \in {"queued", "completed", "cleared"} => Safe(t)
    BY <1>0, <2>4 DEF ListOf, QueueInv, Tokens
  <2>6. \A t \in todo : journal'[t].phase # "none"
    BY <1>0, <2>4 DEF QueueInv, TypeOK
  <2>7. TypeOK'
    BY <1>0, <2>1, <2>2, <2>4 DEF TypeOK, Is, Actors
  <2>8. QueueInv'
    BY <2>1, <2>2, <2>5, <2>6, AwayFromList
  <2> QED
    BY <2>7, <2>8 DEF IInv
<1>6. Acknowledge(a) => Leave(a) \/ Goto(a, "recorded")
  BY DEF Acknowledge
<1> QED
  BY <1>2, <1>3, <1>4, <1>5, <1>6

\* An actor that begins a deletion, or takes it up where its journal stands.
LEMMA BeginStep ==
  ASSUME IInv, NEW a \in Actors, NEW t \in Tokens,
         Request(a, t) \/ (a = "start" /\ (TakeUp(t) \/ Catch(t)))
  PROVE  IInv'
<1> USE DEF boundVars, startVars, diskVars
<1>0. TypeOK /\ QueueInv
  BY DEF IInv
<1>1. op \in [Actors -> Op] /\ journal[t] \in Journal
  BY <1>0 DEF TypeOK
<1>2. ASSUME NEW step \in Steps, NEW maps \in SUBSET Maps,
             op' = [op EXCEPT ![a] =
                      [NoOp EXCEPT !.at = step, !.tok = t, !.maps = maps]]
      PROVE  /\ op' \in [Actors -> Op] /\ op'[a].at = step /\ op'[a].tok = t
             /\ \A b \in Actors : b # a => op'[b] = op[b]
  <2> DEFINE new == [NoOp EXCEPT !.at = step, !.tok = t, !.maps = maps]
  <2>1. new \in Op /\ new.at = step /\ new.tok = t
    BY IdleActor DEF Op
  <2> HIDE DEF new
  <2> QED
    BY <1>1, <1>2, <2>1 DEF new
<1>3. /\ UNCHANGED <<work, trash, bound, tracked, queue, journal, mode, faults,
                     answers, answered>>
      /\ todo' \subseteq todo
  BY DEF Request, TakeUp, Catch
<1>4. \A u \in todo' : journal'[u].phase # "none"
  BY <1>0, <1>3 DEF QueueInv
<1>5. ASSUME UNCHANGED op PROVE QueueInv'
  BY <1>0, <1>3, <1>4, <1>5 DEF QueueInv, OneAtList, ListOf, Safe
<1>6. ASSUME NEW step \in Steps \ {"read"}, NEW maps \in SUBSET Maps,
             op' = [op EXCEPT ![a] =
                      [NoOp EXCEPT !.at = step, !.tok = t, !.maps = maps]],
             step \notin {"write", "cleanup", "unlist"},
             step \in {"queued", "completed", "clear"} /\ t \in Asked => Safe(t)
      PROVE  QueueInv'
  <2>1. /\ op'[a].at = step /\ op'[a].tok = t
        /\ \A b \in Actors : b # a => op'[b] = op[b]
    BY <1>2, <1>6
  <2>2. \A u \in Asked :
          journal'[u].phase \in {"queued", "completed", "cleared"} => Safe(u)
    BY <1>0, <1>3 DEF QueueInv
  <2> QED
    BY <1>3, <1>4, <1>6, <2>1, <2>2, AwayFromList
<1>7. CASE Request(a, t)
  <2>1. /\ op' = [op EXCEPT ![a] =
                    [NoOp EXCEPT !.at = "prepared", !.tok = t, !.maps = bound]]
        /\ "prepared" \in Steps \ {"read"} /\ bound \in SUBSET Maps
        /\ mode = "on" /\ a # "start" /\ UNCHANGED startVars
    BY <1>0, <1>7 DEF Request, Steps, Open, TypeOK
  <2>2. op' \in [Actors -> Op] /\ \A b \in Actors : b # a => op'[b] = op[b]
    BY <1>2, <2>1
  <2>3. TypeOK'
    BY <1>0, <1>3, <2>1, <2>2 DEF TypeOK, Is, Actors
  <2> QED
    BY <1>6, <2>1, <2>3 DEF IInv
<1>8. CASE a = "start" /\ Catch(t)
  <2>1. /\ op' = [op EXCEPT ![a] =
                    [NoOp EXCEPT !.at = "history", !.tok = t,
                                 !.maps = journal[t].maps]]
        /\ "history" \in Steps \ {"read"} /\ journal[t].maps \in SUBSET Maps
        /\ mode = "starting" /\ recovered' \subseteq recovered
    BY <1>1, <1>8 DEF Catch, Steps, Open, Journal
  <2>2. op' \in [Actors -> Op] /\ \A b \in Actors : b # a => op'[b] = op[b]
    BY <1>2, <2>1
  <2>3. TypeOK'
    BY <1>0, <1>3, <2>1, <2>2 DEF TypeOK, Is
  <2> QED
    BY <1>6, <2>1, <2>3 DEF IInv
<1>9. CASE a = "start" /\ TakeUp(t)
  <2>1. mode = "starting" /\ t \in todo /\ recovered' \subseteq Tokens
        /\ Is("start", "idle")
    BY <1>0, <1>9 DEF TakeUp, TypeOK
  <2>2. CASE UNCHANGED op
    <3>1. TypeOK'
      BY <1>0, <1>3, <2>1, <2>2 DEF TypeOK, Is
    <3> QED
      BY <1>5, <2>2, <3>1 DEF IInv
  <2>3. CASE /\ journal[t].phase \notin {"cleared", "unbound"}
             /\ op' = [op EXCEPT !["start"] =
                  [NoOp EXCEPT !.at = Resumed(t), !.tok = t,
                               !.maps = journal[t].maps]]
    <3>1. journal[t].phase \in Open \ {"unbound"} /\ journal[t].maps \in SUBSET Maps
      BY <1>0, <1>1, <2>1, <2>3 DEF QueueInv, Journal, Phases
    <3>2. /\ Resumed(t) \in Steps
          /\ Resumed(t) \notin {"write", "cleanup", "unlist", "queued"}
          /\ Resumed(t) = "read" => t \in Asked
          /\ Resumed(t) \in {"completed", "clear"} /\ t \in Asked =>
               journal[t].phase \in {"queued", "completed"}
      BY <3>1 DEF Resumed, Open, Steps
    <3>3. /\ op' \in [Actors -> Op] /\ op'[a].at = Resumed(t)
          /\ op'[a].tok = t
          /\ \A b \in Actors : b # a => op'[b] = op[b]
      BY <1>2, <1>9, <2>3, <3>1, <3>2
    <3>4. TypeOK'
      BY <1>0, <1>3, <2>1, <3>3 DEF TypeOK, Is
    <3>5. CASE Resumed(t) # "read"
      <4>1. Resumed(t) \in {"queued", "completed", "clear"} /\ t \in Asked
              => Safe(t)
        BY <1>0, <3>2 DEF QueueInv
      <4>2. QueueInv'
        BY <1>6, <1>9, <2>3, <3>1, <3>2, <3>5, <4>1
      <4> QED
        BY <3>4, <4>2 DEF IInv
    <3>6. CASE Resumed(t) = "read"
      <4>1. ListOf(a)'
        BY <3>2, <3>3, <3>6 DEF ListOf
      <4>2. ASSUME NEW b \in Actors, b # a PROVE ListOf(b)'
        <5>1. op'[b] = op[b] /\ ListOf(b)
          BY <1>0, <3>3, <4>2 DEF QueueInv
        <5> QED
          BY <1>3, <5>1 DEF ListOf, Safe
      <4>3. OneAtList'
        BY <1>0, <3>3, <3>6 DEF QueueInv, OneAtList
      <4>4. QueueInv'
        BY <1>0, <1>3, <1>4, <4>1, <4>2, <4>3 DEF QueueInv, Safe
      <4> QED
        BY <3>4, <4>4 DEF IInv
    <3> QED
      BY <3>5, <3>6
  <2> QED
    BY <1>9, <2>2, <2>3 DEF TakeUp
<1> QED
  BY <1>7, <1>8, <1>9

\* The steps that read and write the list exclude each other.
LEMMA ListStep ==
  ASSUME Racing = FALSE, IInv, NEW a \in Actors,
         \/ RecordRead(a) \/ RecordPending(a)
         \/ a = "round" /\ (Answer \/ Cleanup)
  PROVE  IInv'
<1> USE DEF boundVars, startVars, diskVars
<1>0. TypeOK /\ QueueInv /\ ListOf(a)
  BY DEF IInv, QueueInv
<1>1. /\ op \in [Actors -> Op] /\ queue \in Seq(Asked) /\ op[a] \in Op
      /\ \A t \in Asked : t \in Tokens
  BY <1>0 DEF TypeOK, Tokens
<1>a. queue \in Seq(Tokens)
  BY <1>1, AskedList
<1>b. ASSUME NEW r \in Op, op' = [op EXCEPT ![a] = r]
      PROVE  /\ op' \in [Actors -> Op] /\ op'[a] = r
             /\ \A b \in Actors : b # a => op'[b] = op[b]
  BY <1>1, <1>b
<1>c. ASSUME Leave(a)
      PROVE  /\ op' \in [Actors -> Op] /\ op'[a].at = "idle"
             /\ \A b \in Actors : b # a => op'[b] = op[b]
  BY <1>1, <1>c, Leaves
<1>d. UNCHANGED <<trash, bound, journal, startVars, faults>>
      /\ work' \in BOOLEAN /\ tracked' \in BOOLEAN
  BY <1>0 DEF RecordRead, RecordPending, Answer, Cleanup, CleanupRead,
       CleanupWrite, TypeOK
<1>e. mode # "starting" => a # "start" \/ op[a].at = "idle"
  BY <1>0 DEF TypeOK, Is
<1>f. ASSUME op' \in [Actors -> Op], \A b \in Actors : b # a => op'[b] = op[b],
             op[a].at # "idle" \/ a # "start",
             queue' \in Seq(Asked), Single(queue'), answers' \in 0..MaxAnswers,
             answered' \subseteq Asked
      PROVE  TypeOK'
  BY <1>0, <1>d, <1>e, <1>f DEF TypeOK, Is, Actors, Single
<1>g. Single(queue)
  BY <1>0 DEF TypeOK, Single
<1>h. \A t \in todo' : journal'[t].phase # "none"
  BY <1>0, <1>d DEF QueueInv
<1>i. ASSUME \A b \in Actors : ListOf(b)', OneAtList',
             \A t \in Asked : Safe(t) => Safe(t)'
      PROVE  QueueInv'
  BY <1>0, <1>d, <1>h, <1>i DEF QueueInv
<1>2. CASE RecordRead(a) /\ op[a].tok \in Listed(queue)
  <2>1. /\ op' = [op EXCEPT ![a].at = "queued"]
        /\ UNCHANGED <<queue, answers, answered>> /\ op[a].at = "read"
    BY <1>2 DEF RecordRead, Is
  <2>2. "queued" \in Steps /\ Goto(a, "queued")
    BY <2>1 DEF Steps, Open, Goto
  <2>3. /\ op' \in [Actors -> Op] /\ op'[a].at = "queued"
        /\ op'[a].tok = op[a].tok
        /\ \A b \in Actors : b # a => op'[b] = op[b]
    BY <1>1, <2>2, GoesTo
  <2>4. TypeOK'
    BY <1>0, <1>f, <1>g, <1>1, <2>1, <2>3 DEF TypeOK
  <2>5. QueueInv'
    BY <1>0, <1>2, <1>d, <1>h, <2>1, <2>3, AwayFromList DEF QueueInv, Safe
  <2> QED
    BY <2>4, <2>5 DEF IInv
<1>3. CASE RecordRead(a) /\ op[a].tok \notin Listed(queue)
  <2> DEFINE r == [op[a] EXCEPT !.at = "write", !.list = queue]
  <2>1. /\ op' = [op EXCEPT ![a] = r]
        /\ UNCHANGED <<queue, answers, answered>> /\ op[a].at = "read"
        /\ \A b \in Actors : op[b].at \notin {"write", "unlist"}
    BY <1>1, <1>3 DEF RecordRead, Is, ListFree
  <2>2. r \in Op /\ r.at = "write" /\ r.list = queue /\ r.tok = op[a].tok
    BY <1>1, <1>a DEF Op, Steps
  <2> HIDE DEF r
  <2>3. /\ op' \in [Actors -> Op] /\ op'[a] = r
        /\ \A b \in Actors : b # a => op'[b] = op[b]
    BY <1>b, <2>1, <2>2
  <2>4. TypeOK'
    BY <1>0, <1>f, <1>g, <1>1, <2>1, <2>3 DEF TypeOK
  <2>5. ListOf(a)'
    BY <1>0, <1>3, <2>1, <2>2, <2>3 DEF ListOf
  <2>6. ASSUME NEW b \in Actors, b # a PROVE ListOf(b)'
    <3>1. op'[b] = op[b] /\ ListOf(b)
      BY <1>0, <2>3, <2>6 DEF QueueInv
    <3> QED
      BY <2>1, <3>1 DEF ListOf, Safe
  <2>7. OneAtList'
    BY <2>1, <2>3 DEF OneAtList
  <2>8. QueueInv'
    BY <1>i, <2>1, <2>5, <2>6, <2>7 DEF Safe
  <2> QED
    BY <2>4, <2>8 DEF IInv
<1>4. CASE RecordPending(a)
  <2> DEFINE r == [op[a] EXCEPT !.at = "queued", !.list = <<>>]
  <2>1. /\ op' = [op EXCEPT ![a] = r] /\ op[a].at = "write"
        /\ queue' = Append(op[a].list, op[a].tok)
        /\ UNCHANGED <<answers, answered>>
    BY <1>1, <1>4 DEF RecordPending, Is
  <2>2. op[a].list = queue /\ op[a].tok \in Asked /\ op[a].tok \notin Listed(queue)
    BY <1>0, <2>1 DEF ListOf
  <2>a. <<>> \in Seq(Tokens) /\ "queued" \in Steps
    BY DEF Steps, Open
  <2>3. r \in Op /\ r.at = "queued" /\ r.tok = op[a].tok
    BY <1>1, <2>a DEF Op
  <2> HIDE DEF r
  <2>4. /\ op' \in [Actors -> Op] /\ op'[a] = r
        /\ \A b \in Actors : b # a => op'[b] = op[b]
    BY <1>b, <2>1, <2>3
  <2>5. /\ queue' \in Seq(Asked) /\ Single(queue')
        /\ Listed(queue') = Listed(queue) \union {op[a].tok}
        /\ queue' # <<>> /\ (queue # <<>> => Head(queue') = Head(queue))
    BY <1>1, <1>g, <2>1, <2>2, ListAppend, SingleKept
  <2>6. TypeOK'
    BY <1>0, <1>f, <2>1, <2>4, <2>5 DEF TypeOK
  <2>7. ListOf(a)'
    BY <2>3, <2>4, <2>5 DEF ListOf, Safe
  <2>8. ASSUME NEW b \in Actors, b # a PROVE ListOf(b)'
    <3>1. op'[b] = op[b] /\ ListOf(b) /\ op[b].at \notin {"write", "unlist"}
      BY <1>0, <2>1, <2>4, <2>8 DEF QueueInv, OneAtList
    <3> QED
      BY <2>1, <2>5, <3>1 DEF ListOf, Safe
  <2>9. OneAtList'
    BY <1>0, <2>3, <2>4 DEF QueueInv, OneAtList
  <2>10. QueueInv'
    BY <1>i, <2>1, <2>5, <2>7, <2>8, <2>9 DEF Safe
  <2> QED
    BY <2>6, <2>10 DEF IInv
<1>5. CASE a = "round" /\ Answer
  <2> DEFINE r == [NoOp EXCEPT !.at = "cleanup"]
  <2>1. /\ op' = [op EXCEPT ![a] = r] /\ op[a].at = "idle"
        /\ answered' = answered \union Listed(queue) /\ queue # <<>>
        /\ queue' = queue /\ answers' = answers + 1 /\ answers < MaxAnswers
    BY <1>5 DEF Answer, Is
  <2>2. r \in Op /\ r.at = "cleanup"
    BY IdleActor DEF Op, Steps
  <2> HIDE DEF r
  <2>3. /\ op' \in [Actors -> Op] /\ op'[a] = r
        /\ \A b \in Actors : b # a => op'[b] = op[b]
    BY <1>b, <2>1, <2>2
  <2>4. Listed(queue) \subseteq Asked /\ Head(queue) \in Listed(queue)
    BY <1>1, <2>1, ListTail DEF Listed
  <2>5. answers' \in 0..MaxAnswers
    BY <1>0, <2>1, WorkAssumption DEF TypeOK
  <2>6. TypeOK'
    BY <1>0, <1>5, <1>f, <1>g, <1>1, <2>1, <2>3, <2>4, <2>5 DEF TypeOK
  <2>7. ListOf(a)'
    BY <1>5, <2>1, <2>2, <2>3, <2>4 DEF ListOf
  <2>8. ASSUME NEW b \in Actors, b # a PROVE ListOf(b)'
    <3>1. op'[b] = op[b] /\ ListOf(b)
      BY <1>0, <2>3, <2>8 DEF QueueInv
    <3> QED
      BY <2>1, <3>1 DEF ListOf, Safe
  <2>9. OneAtList'
    BY <1>0, <2>2, <2>3 DEF QueueInv, OneAtList
  <2>10. QueueInv'
    BY <1>i, <2>1, <2>7, <2>8, <2>9 DEF Safe
  <2> QED
    BY <2>6, <2>10 DEF IInv
<1>6. CASE a = "round" /\ CleanupRead
  <2> DEFINE r == [op[a] EXCEPT !.at = "unlist", !.list = queue]
  <2>0. op[a].at = "cleanup"
    BY <1>6 DEF CleanupRead, Is
  <2>1. /\ op' = [op EXCEPT ![a] = r]
        /\ UNCHANGED <<queue, answers, answered>>
        /\ \A b \in Actors : op[b].at \notin {"write", "unlist"}
    BY <1>0, <1>1, <1>6, <2>0 DEF CleanupRead, Is, ListFree, ListOf
  <2>2. r \in Op /\ r.at = "unlist" /\ r.list = queue
    BY <1>1, <1>a DEF Op, Steps
  <2> HIDE DEF r
  <2>3. /\ op' \in [Actors -> Op] /\ op'[a] = r
        /\ \A b \in Actors : b # a => op'[b] = op[b]
    BY <1>b, <2>1, <2>2
  <2>4. TypeOK'
    BY <1>0, <1>6, <1>f, <1>g, <1>1, <2>1, <2>3 DEF TypeOK
  <2>5. ListOf(a)'
    BY <1>0, <2>0, <2>1, <2>2, <2>3 DEF ListOf
  <2>6. ASSUME NEW b \in Actors, b # a PROVE ListOf(b)'
    <3>1. op'[b] = op[b] /\ ListOf(b)
      BY <1>0, <2>3, <2>6 DEF QueueInv
    <3> QED
      BY <2>1, <3>1 DEF ListOf, Safe
  <2>7. OneAtList'
    BY <2>1, <2>3 DEF OneAtList
  <2>8. QueueInv'
    BY <1>i, <2>1, <2>5, <2>6, <2>7 DEF Safe
  <2> QED
    BY <2>4, <2>8 DEF IInv
<1>7. CASE a = "round" /\ CleanupWrite
  <2>1. /\ op[a].at = "unlist" /\ queue' = Tail(op[a].list) /\ Leave(a)
        /\ UNCHANGED <<answers, answered>>
    BY <1>7 DEF CleanupWrite, Is
  <2>2. op[a].list = queue /\ queue # <<>> /\ Head(queue) \in answered
    BY <1>0, <2>1 DEF ListOf
  <2>3. /\ op' \in [Actors -> Op] /\ op'[a].at = "idle"
        /\ \A b \in Actors : b # a => op'[b] = op[b]
    BY <1>c, <2>1
  <2>4. /\ queue' \in Seq(Asked) /\ Single(queue')
        /\ Listed(queue) \subseteq {Head(queue)} \union Listed(queue')
        /\ Listed(queue') \subseteq Listed(queue)
    BY <1>1, <1>g, <2>1, <2>2, ListTail, SingleKept
  <2>5. TypeOK'
    BY <1>0, <1>f, <2>1, <2>3, <2>4 DEF TypeOK
  <2>6. ListOf(a)'
    BY <2>3 DEF ListOf
  <2>7. \A t : Safe(t) => Safe(t)'
    BY <2>1, <2>2, <2>4 DEF Safe
  <2>8. ASSUME NEW b \in Actors, b # a PROVE ListOf(b)'
    <3>1. op'[b] = op[b] /\ ListOf(b) /\ op[b].at \notin {"write", "unlist"}
      BY <1>0, <2>1, <2>3, <2>8 DEF QueueInv, OneAtList
    <3>2. op[b].at # "cleanup"
      BY <1>7, <2>8, <3>1 DEF ListOf
    <3> QED
      BY <2>7, <3>1, <3>2 DEF ListOf
  <2>9. OneAtList'
    BY <1>0, <2>3 DEF QueueInv, OneAtList
  <2>10. QueueInv'
    BY <1>i, <2>6, <2>7, <2>8, <2>9
  <2> QED
    BY <2>5, <2>10 DEF IInv
<1> QED
  BY <1>2, <1>3, <1>4, <1>5, <1>6, <1>7 DEF Cleanup

\* Starts, stops, crashes and star maps.
LEMMA OtherStep ==
  ASSUME IInv, Start \/ Started \/ Quit \/ Crash \/ (\E m \in Maps : Bind(m))
  PROVE  IInv'
<1> USE DEF boundVars, startVars, diskVars
<1>0. TypeOK /\ QueueInv
  BY DEF IInv
<1>1. UNCHANGED <<work, trash, tracked, queue, journal, answers, answered>>
  BY DEF Start, Started, Quit, Crash, Bind, Fault
<1>2. CASE Start \/ Started \/ Quit \/ \E m \in Maps : Bind(m)
  <2>1. /\ UNCHANGED <<op, faults>> /\ bound' \subseteq Maps
        /\ mode' \in {"off", "starting", "on"} /\ recovered' = recovered
        /\ todo' = todo \/ (mode' = "starting"
             /\ todo' = {t \in Tokens : journal[t].phase \in Open})
        /\ mode' # "starting" /\ mode = "starting" =>
             Is("start", "idle") /\ todo = {} /\ recovered = {}
    BY <1>0, <1>2 DEF Start, Started, Quit, Bind, TypeOK
  <2>2. TypeOK'
    BY <1>0, <1>1, <2>1 DEF TypeOK, Is
  <2>3. \A t \in todo' : journal'[t].phase # "none"
    BY <1>0, <1>1, <2>1 DEF QueueInv, Open
  <2>4. QueueInv'
    BY <1>0, <1>1, <2>1, <2>3 DEF QueueInv, OneAtList, ListOf, Safe
  <2> QED
    BY <2>2, <2>4 DEF IInv
<1>3. CASE Crash
  <2>1. /\ op' = [a \in Actors |-> NoOp] /\ mode' = "off" /\ todo' = {}
        /\ recovered' = {} /\ bound' = bound /\ faults' \in 0..MaxFaults
    BY <1>0, <1>3, WorkAssumption DEF Crash, Fault, TypeOK
  <2>2. op' \in [Actors -> Op] /\ \A a \in Actors : op'[a].at = "idle"
    BY <2>1, IdleActor
  <2>3. TypeOK'
    BY <1>0, <1>1, <2>1, <2>2 DEF TypeOK, Is, Actors
  <2>4. QueueInv'
    BY <1>0, <1>1, <2>1, <2>2 DEF QueueInv, OneAtList, ListOf, Safe
  <2> QED
    BY <2>3, <2>4 DEF IInv
<1> QED
  BY <1>2, <1>3

\* Every step keeps the invariant, if the list has one writer at a time.
LEMMA IInvStep ==
  ASSUME Racing = FALSE PROVE IInv /\ [Next]_vars => IInv'
<1> SUFFICES ASSUME IInv, [Next]_vars PROVE IInv'
  OBVIOUS
<1>0. "start" \in Actors /\ "round" \in Actors
  BY DEF Actors
<1>1. ASSUME NEW a \in Actors, Deletion(a) \/ UnbindFails(a) \/ StepFails(a)
      PROVE  IInv'
  BY <1>1, DeletionStep, ListStep DEF Deletion
<1>2. ASSUME NEW a \in Actors, NEW t \in Tokens, Request(a, t) PROVE IInv'
  BY <1>2, BeginStep
<1>3. ASSUME NEW t \in Tokens, TakeUp(t) \/ Catch(t) PROVE IInv'
  BY <1>0, <1>3, BeginStep
<1>4. CASE Answer \/ Cleanup
  BY <1>0, <1>4, ListStep
<1>5. CASE Start \/ Started \/ Quit \/ Crash \/ \E m \in Maps : Bind(m)
  BY <1>5, OtherStep
<1>6. CASE UNCHANGED vars
  <2>1. UNCHANGED <<work, trash, bound, tracked, queue, journal, op, mode, todo,
                    recovered, faults, answers, answered>>
    BY <1>6 DEF vars, diskVars, startVars, boundVars
  <2> QED
    BY <2>1 DEF IInv, TypeOK, Is, QueueInv, OneAtList, ListOf, Safe
<1> QED
  BY <1>1, <1>2, <1>3, <1>4, <1>5, <1>6 DEF Next, Recovery

\* If the list of deletions has one writer at a time, every variable keeps its
\* type; no deletion is listed twice, and none that another device asked for.
THEOREM TypeCorrect == ASSUME Racing = FALSE PROVE Spec => []TypeOK
<1>1. IInv => TypeOK
  BY DEF IInv
<1> QED
  BY <1>1, IInvInit, IInvStep, PTL DEF Spec

\* If the list has one writer at a time, a deletion the user asked for is in it
\* or answered once its journal is gone, whatever failed and crashed before.
THEOREM DeletionQueuedHolds == ASSUME Racing = FALSE PROVE Spec => []DeletionQueued
<1>1. IInv => DeletionQueued
  <2> SUFFICES ASSUME IInv PROVE DeletionQueued
    OBVIOUS
  <2>1. Listed(queue) \subseteq Asked
    BY DEF IInv, TypeOK, Listed
  <2>2. \A t \in Asked :
          journal[t].phase = "cleared" => t \in Listed(queue) \union answered
    BY DEF IInv, QueueInv, Safe
  <2> QED
    BY <2>1, <2>2 DEF DeletionQueued
<1> QED
  BY <1>1, IInvInit, IInvStep, PTL DEF Spec

-----------------------------------------------------------------------------
(* What a work that is gone leaves behind.                                 *)

\* The steps of a deletion, as against those of a round that answers the list.
Deleting(a) == op[a].at \notin {"idle", "cleanup", "unlist"}

\* Who acts when, and for whom.
ActorInv(a) ==
  /\ a \in {"request", "round"} /\ op[a].at # "idle" => mode = "on"
  /\ a = "request" /\ Deleting(a) => op[a].tok \in Asked
  /\ a = "round" /\ Deleting(a) => op[a].tok \in Told
  /\ op[a].at \in {"cleanup", "unlist"} => a = "round"

\* How far the journal on the disk is at each step of the deletion.
StepInv(a) ==
  LET at == op[a].at
      phase == journal[op[a].tok].phase
  IN  /\ at = "prepared" => phase = "none"
      /\ at \in {"move", "moved"} => phase = "prepared"
      /\ at = "git" => phase = "moved"
      /\ at = "tombstoned" => phase \in {"moved", "git"}
      /\ at \in {"unbind", "unbound"} => phase = "tombstoned"
      /\ at \in {"history", "ack", "recorded"} => phase = "unbound"
      /\ at \in {"read", "write", "queued"} => phase = "recorded"
      /\ at = "completed" => phase \in {"recorded", "queued"}
      /\ at = "clear" => phase = "completed"

\* A start looks at each journal once.
StartInv ==
  /\ \A t \in todo : journal[t].phase # "none"
  /\ \A t \in recovered : journal[t].phase = "unbound"
  /\ \A t \in todo \union recovered :
       op["start"].at # "idle" => op["start"].tok # t
  /\ todo \intersect recovered = {}

\* A star map bound to the work is known to every deletion under way, and none
\* is bound once one of them has unbound its own.
MapsInv ==
  /\ \A a \in Actors : Deleting(a) => bound \subseteq op[a].maps
  /\ \A t \in Tokens :
       journal[t].phase \in Open => bound \subseteq journal[t].maps
  /\ \A t \in Tokens :
       journal[t].phase \in {"unbound", "recorded", "queued", "completed"}
         => bound = {}
  /\ \A a \in Actors : op[a].at = "unbound" => bound = {}

Early == {"prepared", "moved", "git", "tombstoned"}

\* As long as something is left of a work that is gone, a journal is there that
\* has not come to it.
LeftInv ==
  /\ ~work /\ bound # {} => \E t \in Tokens : journal[t].phase \in Early
  /\ ~work /\ tracked =>
       \E t \in Tokens : journal[t].phase \in Early \union {"unbound"}
  /\ \A a \in {"round", "start"} : op[a].at \in {"ack", "recorded"} => ~tracked
  /\ op["request"].at \in {"ack", "recorded"} /\ ~work /\ tracked =>
       \E t \in Told : journal[t].phase \in Early \union {"unbound"}

DangleInv ==
  /\ \A a \in Actors : ActorInv(a) /\ StepInv(a)
  /\ StartInv /\ MapsInv /\ LeftInv

\* Initially the work is there and nothing is under way.
LEMMA DangleInit == Init => DangleInv
<1> SUFFICES ASSUME Init PROVE DangleInv
  OBVIOUS
<1>1. /\ \A a \in Actors : op[a].at = "idle"
      /\ \A t \in Tokens : journal[t].phase = "none"
      /\ work = TRUE /\ todo = {} /\ recovered = {}
  BY IdleActor DEF Init, NoJournal
<1>2. "request" \in Actors /\ "round" \in Actors /\ "start" \in Actors
  BY DEF Actors
<1>3. \A a \in Actors : ActorInv(a) /\ StepInv(a)
  BY <1>1 DEF ActorInv, StepInv, Deleting
<1>4. StartInv /\ MapsInv
  BY <1>1 DEF StartInv, MapsInv, Deleting, Open
<1>5. LeftInv
  BY <1>1, <1>2 DEF LeftInv
<1> QED
  BY <1>3, <1>4, <1>5 DEF DangleInv

\* Two actors never carry out the same deletion: a start is alone, and the
\* request and the round have deletions of their own.
LEMMA OwnDeletion ==
  ASSUME TypeOK, DangleInv, NEW a \in Actors, NEW b \in Actors, a # b,
         Deleting(a), Deleting(b)
  PROVE  op[a].tok # op[b].tok /\ a # "start" /\ b # "start"
<1>1. ActorInv(a) /\ ActorInv(b)
  BY DEF DangleInv
<1>2. op["start"].at # "idle" => mode = "starting"
  BY DEF TypeOK, Is
<1>3. a \in {"request", "round", "start"} /\ b \in {"request", "round", "start"}
  BY DEF Actors
<1>4. op[a].at # "idle" /\ op[b].at # "idle"
  BY DEF Deleting
<1>5. a # "start" /\ b # "start"
  BY <1>1, <1>2, <1>3, <1>4 DEF ActorInv
<1> QED
  BY <1>1, <1>3, <1>5, WorkAssumption DEF ActorInv

\* A step of a deletion that touches no journal but its own, and either leaves
\* or stands where the journal says, keeps the order of the steps.
LEMMA StepsKept ==
  ASSUME TypeOK, DangleInv, NEW a \in Actors, Deleting(a), mode' = mode,
         \A b \in Actors : b # a => op'[b] = op[b],
         \A t \in Tokens : t # op[a].tok => journal'[t] = journal[t],
         \/ op'[a].at = "idle"
         \/ op'[a].tok = op[a].tok /\ Deleting(a)' /\ StepInv(a)'
  PROVE  \A b \in Actors : ActorInv(b)' /\ StepInv(b)'
<1> TAKE b \in Actors
<1>1. ActorInv(a) /\ ActorInv(b) /\ StepInv(b)
  BY DEF DangleInv
<1>2. CASE b = a
  <2>1. CASE op'[a].at = "idle"
    BY <1>2, <2>1 DEF ActorInv, StepInv, Deleting
  <2>2. CASE op'[a].tok = op[a].tok /\ Deleting(a)' /\ StepInv(a)'
    BY <1>1, <1>2, <2>2 DEF ActorInv, Deleting
  <2> QED
    BY <2>1, <2>2
<1>3. CASE b # a
  <2>1. op'[b] = op[b]
    BY <1>3
  <2>2. ActorInv(b)'
    BY <1>1, <2>1 DEF ActorInv, Deleting
  <2>3. CASE Deleting(b)
    <3>1. op[b].tok # op[a].tok
      BY <1>3, <2>3, OwnDeletion
    <3>2. op[b].tok \in Tokens
      BY DEF TypeOK, Op
    <3>3. journal'[op[b].tok] = journal[op[b].tok]
      BY <3>1, <3>2
    <3> QED
      BY <1>1, <2>1, <2>2, <3>3 DEF StepInv
  <2>4. CASE ~Deleting(b)
    BY <2>1, <2>2, <2>4 DEF StepInv, Deleting
  <2> QED
    BY <2>3, <2>4
<1> QED
  BY <1>2, <1>3

\* A step of a deletion that touches no journal but its own is no matter to
\* the journals a start still has before it.
LEMMA StartKept ==
  ASSUME TypeOK, DangleInv, NEW a \in Actors, Deleting(a), todo' = todo,
         \A b \in Actors : b # a => op'[b] = op[b],
         \A t \in Tokens : t # op[a].tok => journal'[t] = journal[t],
         op'[a].at = "idle" \/ op'[a].tok = op[a].tok,
         \/ recovered' = recovered
         \/ /\ a = "start" /\ op'[a].at = "idle"
            /\ recovered' = recovered \union {op[a].tok}
            /\ journal'[op[a].tok].phase = "unbound"
  PROVE  StartInv'
<1>1. StartInv /\ ActorInv(a) /\ todo \subseteq Tokens /\ recovered \subseteq Tokens
  BY DEF DangleInv, TypeOK
<1>2. a # "start" => mode = "on" /\ todo = {} /\ recovered = {}
  BY <1>1 DEF Actors, ActorInv, Deleting, TypeOK
<1>3. op[a].tok \notin todo \union recovered
  BY <1>1, <1>2 DEF StartInv, Deleting
<1>4. CASE a = "start"
  <2>1. \A t \in todo' : journal'[t].phase # "none"
    BY <1>1, <1>3 DEF StartInv
  <2>2. \A t \in recovered' : journal'[t].phase = "unbound"
    BY <1>1, <1>3 DEF StartInv
  <2>3. \A t \in todo' \union recovered' :
          op'["start"].at # "idle" => op'["start"].tok # t
    BY <1>3, <1>4
  <2>4. todo' \intersect recovered' = {}
    BY <1>1, <1>3 DEF StartInv
  <2> QED
    BY <2>1, <2>2, <2>3, <2>4 DEF StartInv
<1>5. CASE a # "start"
  BY <1>2, <1>5 DEF StartInv
<1> QED
  BY <1>4, <1>5

\* The write of a phase.
LEMMA MarkKeeps ==
  ASSUME TypeOK, DangleInv, NEW a \in Actors, Mark(a) PROVE DangleInv'
<1> DEFINE tok == op[a].tok
<1>1. PICK phase \in Open : op[a].at = phase
  BY DEF Mark
<1>2. /\ op \in [Actors -> Op] /\ journal \in [Tokens -> Journal]
      /\ tok \in Tokens /\ op[a].maps \in SUBSET Maps
  BY DEF TypeOK, Op
<1>3. ActorInv(a) /\ StepInv(a) /\ MapsInv /\ LeftInv /\ Deleting(a)
  BY <1>1 DEF DangleInv, Deleting, Open
<1>4. /\ journal' = [journal EXCEPT ![tok] = [phase |-> phase, maps |-> op[a].maps]]
      /\ UNCHANGED <<work, bound, tracked, mode, todo>>
  BY <1>1 DEF Mark
<1>5. /\ journal'[tok].phase = phase /\ journal'[tok].maps = op[a].maps
      /\ \A t \in Tokens : t # tok => journal'[t] = journal[t]
  BY <1>2, <1>4
<1>6. /\ \A b \in Actors : b # a => op'[b] = op[b]
      /\ \/ /\ a = "start" /\ phase = "unbound" /\ op'[a].at = "idle"
            /\ recovered' = recovered \union {tok}
         \/ /\ ~(a = "start" /\ phase = "unbound") /\ recovered' = recovered
            /\ op'[a].at = After(a, phase)
            /\ op'[a].tok = tok /\ op'[a].maps = op[a].maps
  <2>1. CASE a = "start" /\ phase = "unbound"
    <3>1. Leave(a) /\ recovered' = recovered \union {tok}
      BY <1>1, <2>1 DEF Mark, Is
    <3> QED
      BY <1>2, <2>1, <3>1, Leaves
  <2>2. CASE ~(a = "start" /\ phase = "unbound")
    <3>1. Goto(a, After(a, phase)) /\ recovered' = recovered
      BY <1>1, <2>2 DEF Mark, Is
    <3>2. After(a, phase) \in Steps
      BY <1>1 DEF After, Open, Steps
    <3> QED
      BY <1>2, <2>2, <3>1, <3>2, GoesTo
  <2> QED
    BY <2>1, <2>2
<1>7. /\ After(a, phase) \notin {"idle", "cleanup", "unlist", "unbound", "ack", "recorded"}
      /\ phase # "unbound" => After(a, phase) # "history"
  BY <1>1 DEF After, Open
<1>8. \/ op'[a].at = "idle"
      \/ op'[a].tok = op[a].tok /\ Deleting(a)' /\ StepInv(a)'
  <2>1. CASE op'[a].at = After(a, phase) /\ op'[a].tok = tok
    <3>1. Deleting(a)'
      BY <1>7, <2>1 DEF Deleting
    <3>2. StepInv(a)'
      BY <1>1, <1>5, <2>1 DEF StepInv, After, Open
    <3> QED
      BY <2>1, <3>1, <3>2
  <2> QED
    BY <1>6, <2>1
<1> HIDE DEF tok
<1>9. \A b \in Actors : ActorInv(b)' /\ StepInv(b)'
  BY <1>3, <1>4, <1>5, <1>6, <1>8, StepsKept DEF tok
<1>10. StartInv'
  BY <1>3, <1>4, <1>5, <1>6, StartKept DEF tok
<1>11. MapsInv'
  <2>1. ASSUME NEW b \in Actors, Deleting(b)' PROVE bound' \subseteq op'[b].maps
    BY <1>3, <1>4, <1>6, <2>1 DEF MapsInv, Deleting
  <2>2. ASSUME NEW t \in Tokens, journal'[t].phase \in Open
        PROVE  bound' \subseteq journal'[t].maps
    BY <1>3, <1>4, <1>5, <2>2 DEF MapsInv
  <2>3. ASSUME NEW t \in Tokens,
               journal'[t].phase \in {"unbound", "recorded", "queued", "completed"}
        PROVE  bound' = {}
    <3>1. CASE t # tok
      BY <1>3, <1>4, <1>5, <2>3, <3>1 DEF MapsInv
    <3>2. CASE t = tok
      <4>1. \/ phase = "unbound"
            \/ journal[tok].phase \in {"unbound", "recorded", "queued"}
        BY <1>1, <1>3, <1>5, <2>3, <3>2 DEF StepInv, tok
      <4> QED
        BY <1>1, <1>2, <1>3, <1>4, <4>1 DEF MapsInv
    <3> QED
      BY <3>1, <3>2
  <2>4. ASSUME NEW b \in Actors, op'[b].at = "unbound" PROVE bound' = {}
    <3>1. b # a
      BY <1>6, <1>7, <2>4
    <3> QED
      BY <1>3, <1>4, <1>6, <2>4, <3>1 DEF MapsInv
  <2> QED
    BY <2>1, <2>2, <2>3, <2>4 DEF MapsInv
<1>12. LeftInv'
  <2>1. ASSUME NEW b \in Actors, op'[b].at \in {"ack", "recorded"}
        PROVE  b # a /\ op'[b] = op[b]
    BY <1>6, <1>7, <2>1
  <2>2. ASSUME ~work', bound' # {}
        PROVE  \E t \in Tokens : journal'[t].phase \in Early
    <3>1. PICK t \in Tokens : journal[t].phase \in Early
      BY <1>3, <1>4, <2>2 DEF LeftInv
    <3>2. phase # "unbound"
      BY <1>1, <1>3, <1>4, <2>2 DEF MapsInv
    <3>3. t = tok => phase \in Early
      BY <1>1, <1>3, <3>1, <3>2 DEF StepInv, Early, Open, tok
    <3> QED
      BY <1>5, <3>1, <3>3
  <2>3. ASSUME ~work', tracked', a = "request" => phase # "recorded"
        PROVE  \A t \in Tokens :
                 journal[t].phase \in Early \union {"unbound"} =>
                   journal'[t].phase \in Early \union {"unbound"}
    <3> TAKE t \in Tokens
    <3> HAVE journal[t].phase \in Early \union {"unbound"}
    <3>1. phase # "recorded"
      BY <1>1, <1>3, <1>4, <2>3 DEF LeftInv, Actors
    <3>2. t = tok => phase \in Early \union {"unbound"}
      BY <1>1, <1>3, <3>1 DEF StepInv, Early, Open, tok
    <3> QED
      BY <1>5, <3>2
  <2>4. ASSUME ~work', tracked'
        PROVE  \E t \in Tokens : journal'[t].phase \in Early \union {"unbound"}
    <3>1. CASE a = "request" /\ phase = "recorded"
      <4>1. PICK t \in Told : journal[t].phase \in Early \union {"unbound"}
        BY <1>1, <1>3, <1>4, <2>4, <3>1 DEF LeftInv
      <4>2. t \in Tokens /\ t # tok
        BY <1>3, <3>1, WorkAssumption DEF ActorInv, Tokens, tok
      <4> QED
        BY <1>5, <4>1, <4>2
    <3>2. CASE ~(a = "request" /\ phase = "recorded")
      BY <1>3, <1>4, <2>3, <2>4, <3>2 DEF LeftInv
    <3> QED
      BY <3>1, <3>2
  <2>5. \A b \in {"round", "start"} :
          op'[b].at \in {"ack", "recorded"} => ~tracked'
    BY <1>3, <1>4, <2>1 DEF LeftInv, Actors
  <2>6. ASSUME op'["request"].at \in {"ack", "recorded"}, ~work', tracked'
        PROVE  \E t \in Told : journal'[t].phase \in Early \union {"unbound"}
    <3>1. a # "request" /\ op'["request"] = op["request"]
      BY <2>1, <2>6 DEF Actors
    <3>2. PICK t \in Told : journal[t].phase \in Early \union {"unbound"}
      BY <1>3, <1>4, <2>6, <3>1 DEF LeftInv
    <3> QED
      BY <2>3, <2>6, <3>1, <3>2 DEF Tokens
  <2> QED
    BY <2>2, <2>4, <2>5, <2>6 DEF LeftInv
<1> QED
  BY <1>9, <1>10, <1>11, <1>12 DEF DangleInv

\* The steps between two writes of the journal, and those that stop on an
\* error.
LEMMA WorkKeeps ==
  ASSUME TypeOK, DangleInv, NEW a \in Actors, Deleting(a),
         \/ MoveWorktree(a) \/ CannotMove(a) \/ UnbindStarmaps(a)
         \/ RecordHistory(a) \/ Acknowledge(a) \/ RecordRead(a)
         \/ RecordPending(a) \/ UnbindFails(a) \/ StepFails(a)
  PROVE  DangleInv'
<1> USE DEF diskVars, startVars, boundVars
<1>1. op \in [Actors -> Op] /\ op[a] \in Op /\ op[a].tok \in Tokens
  BY DEF TypeOK, Op
<1>2. ActorInv(a) /\ StepInv(a) /\ StartInv /\ MapsInv /\ LeftInv
  BY DEF DangleInv
<1>3. /\ UNCHANGED <<journal, mode, todo, recovered>>
      /\ bound' \subseteq bound
      /\ work' # work => op[a].at = "move" /\ ~work'
      /\ tracked' => tracked
  BY DEF MoveWorktree, CannotMove, UnbindStarmaps, RecordHistory, Acknowledge,
         RecordRead, RecordPending, UnbindFails, StepFails, Is, TypeOK
<1>4. /\ \A b \in Actors : b # a => op'[b] = op[b]
      /\ \/ op'[a].at = "idle"
         \/ /\ op'[a].tok = op[a].tok /\ op'[a].maps = op[a].maps
            /\ \/ op[a].at = "move" /\ op'[a].at = "moved"
               \/ op[a].at = "unbind" /\ op'[a].at = "unbound" /\ bound' = {}
               \/ op[a].at = "history" /\ op'[a].at = "ack" /\ ~tracked'
               \/ op[a].at = "ack" /\ op'[a].at = "recorded"
               \/ op[a].at = "read" /\ op'[a].at \in {"write", "queued"}
               \/ op[a].at = "write" /\ op'[a].at = "queued"
  <2>1. CASE CannotMove(a) \/ UnbindFails(a) \/ StepFails(a)
    <3>1. Leave(a)
      BY <2>1 DEF CannotMove, UnbindFails, StepFails
    <3> QED
      BY <1>1, <3>1, Leaves
  <2>2. CASE MoveWorktree(a) \/ UnbindStarmaps(a) \/ RecordHistory(a)
    <3>1. /\ "moved" \in Steps /\ "unbound" \in Steps /\ "ack" \in Steps
      BY DEF Steps, Open
    <3>2. UnbindStarmaps(a) => bound' = {}
      BY <1>2 DEF UnbindStarmaps, MapsInv
    <3>3. \/ op[a].at = "move" /\ Goto(a, "moved")
          \/ op[a].at = "unbind" /\ Goto(a, "unbound") /\ bound' = {}
          \/ op[a].at = "history" /\ Goto(a, "ack") /\ ~tracked'
      BY <2>2, <3>2 DEF MoveWorktree, UnbindStarmaps, RecordHistory, Is
    <3> QED
      BY <1>1, <3>1, <3>3, GoesTo
  <2>3. CASE Acknowledge(a)
    <3>1. op[a].at = "ack" /\ (Leave(a) \/ Goto(a, "recorded")) /\ "recorded" \in Steps
      BY <2>3 DEF Acknowledge, Is, Steps, Open
    <3> QED
      BY <1>1, <3>1, Leaves, GoesTo
  <2>4. CASE RecordRead(a) \/ RecordPending(a)
    <3> DEFINE one == [op[a] EXCEPT !.at = "queued"]
               two == [op[a] EXCEPT !.at = "write", !.list = queue]
               three == [op[a] EXCEPT !.at = "queued", !.list = <<>>]
    <3>1. \/ op[a].at = "read" /\ op' = [op EXCEPT ![a] = one]
          \/ op[a].at = "read" /\ op' = [op EXCEPT ![a] = two]
          \/ op[a].at = "write" /\ op' = [op EXCEPT ![a] = three]
      BY <1>1, <2>4 DEF RecordRead, RecordPending, Is
    <3>2. /\ \A r \in {one, two, three} : r.tok = op[a].tok /\ r.maps = op[a].maps
          /\ one.at = "queued" /\ two.at = "write" /\ three.at = "queued"
      BY <1>1 DEF Op
    <3> HIDE DEF one, two, three
    <3> QED
      BY <1>1, <3>1, <3>2
  <2> QED
    BY <2>1, <2>2, <2>3, <2>4
<1>5. \/ op'[a].at = "idle"
      \/ op'[a].tok = op[a].tok /\ Deleting(a)' /\ StepInv(a)'
  BY <1>2, <1>3, <1>4 DEF StepInv, Deleting
<1>6. \A b \in Actors : ActorInv(b)' /\ StepInv(b)'
  BY <1>3, <1>4, <1>5, StepsKept
<1>7. StartInv'
  BY <1>3, <1>4, StartKept
<1>8. MapsInv'
  BY <1>2, <1>3, <1>4 DEF MapsInv, Deleting
<1>9. LeftInv'
  <2>1. ASSUME NEW b \in Actors, op'[b].at \in {"ack", "recorded"}, tracked'
        PROVE  op[b].at \in {"ack", "recorded"}
    BY <1>4, <2>1
  <2>2. work' # work => journal'[op[a].tok].phase \in Early
    BY <1>2, <1>3 DEF StepInv, Early
  <2>3. /\ ~work' /\ bound' # {} => \E t \in Tokens : journal'[t].phase \in Early
        /\ ~work' /\ tracked' =>
             \E t \in Tokens : journal'[t].phase \in Early \union {"unbound"}
    BY <1>1, <1>2, <1>3, <2>2 DEF LeftInv
  <2>4. \A b \in {"round", "start"} :
          op'[b].at \in {"ack", "recorded"} => ~tracked'
    BY <1>2, <1>3, <2>1 DEF LeftInv, Actors
  <2>5. ASSUME op'["request"].at \in {"ack", "recorded"}, ~work', tracked'
        PROVE  \E t \in Told : journal'[t].phase \in Early \union {"unbound"}
    <3>1. op["request"].at \in {"ack", "recorded"} /\ "request" \in Actors
      BY <2>1, <2>5 DEF Actors
    <3>2. CASE work' = work
      BY <1>2, <1>3, <2>5, <3>1, <3>2 DEF LeftInv
    <3>3. CASE work' # work
      <4>1. op[a].at = "move" /\ a # "request"
        BY <1>3, <3>1, <3>3
      <4>2. Deleting("request")
        BY <3>1 DEF Deleting
      <4>3. a = "round"
        BY <3>1, <4>1, <4>2, OwnDeletion DEF Actors
      <4> QED
        BY <1>2, <2>2, <3>3, <4>3 DEF ActorInv
    <3> QED
      BY <3>2, <3>3
  <2> QED
    BY <2>3, <2>4, <2>5 DEF LeftInv
<1> QED
  BY <1>6, <1>7, <1>8, <1>9 DEF DangleInv

\* The journal goes.
LEMMA CleanupKeeps ==
  ASSUME TypeOK, DangleInv, NEW a \in Actors, CleanupJournal(a) PROVE DangleInv'
<1> USE DEF startVars
<1>1. /\ op \in [Actors -> Op] /\ journal \in [Tokens -> Journal]
      /\ op[a].tok \in Tokens /\ Deleting(a)
  BY DEF TypeOK, Op, CleanupJournal, Is, Deleting
<1>2. ActorInv(a) /\ StepInv(a) /\ StartInv /\ MapsInv /\ LeftInv
  BY DEF DangleInv
<1>3. journal[op[a].tok].phase = "completed"
  BY <1>2 DEF CleanupJournal, Is, StepInv
<1>4. /\ UNCHANGED <<work, bound, tracked, mode, todo, recovered>>
      /\ journal'[op[a].tok].phase = "cleared"
      /\ \A t \in Tokens : t # op[a].tok => journal'[t] = journal[t]
  BY <1>1 DEF CleanupJournal, Journal
<1>5. op'[a].at = "idle" /\ \A b \in Actors : b # a => op'[b] = op[b]
  BY <1>1, Leaves DEF CleanupJournal
<1>6. \A b \in Actors : ActorInv(b)' /\ StepInv(b)'
  BY <1>1, <1>4, <1>5, StepsKept
<1>7. StartInv'
  BY <1>1, <1>4, <1>5, StartKept
<1>8. MapsInv'
  BY <1>2, <1>4, <1>5 DEF MapsInv, Deleting, Open
<1>9. LeftInv'
  <2>1. \A t \in Tokens : journal[t].phase \in Early \union {"unbound"} =>
          journal'[t] = journal[t]
    BY <1>3, <1>4 DEF Early
  <2>2. \A b \in Actors : op'[b].at \in {"ack", "recorded"} => op'[b] = op[b]
    BY <1>5
  <2>3. \A t \in Told : t \in Tokens
    BY DEF Tokens
  <2> QED
    BY <1>2, <1>4, <2>1, <2>2, <2>3 DEF LeftInv, Actors
<1> QED
  BY <1>6, <1>7, <1>8, <1>9 DEF DangleInv

\* A deletion begins, or is taken up where its journal stands.
LEMMA BeginKeeps ==
  ASSUME TypeOK, DangleInv, NEW a \in Actors, NEW t \in Tokens,
         Request(a, t) \/ (a = "start" /\ (TakeUp(t) \/ Catch(t)))
  PROVE  DangleInv'
<1> USE DEF diskVars, startVars, boundVars
<1>1. /\ op \in [Actors -> Op] /\ journal[t] \in Journal
      /\ ActorInv(a) /\ StartInv /\ MapsInv /\ LeftInv
      /\ \A b \in Actors : ActorInv(b) /\ StepInv(b)
      /\ mode # "starting" => todo = {} /\ recovered = {}
  BY DEF TypeOK, DangleInv
<1>2. UNCHANGED <<work, bound, tracked, journal, mode>> /\ op[a].at = "idle"
  BY DEF Request, TakeUp, Catch, Is
<1>3. ASSUME NEW step \in Steps, NEW maps \in SUBSET Maps,
             op' = [op EXCEPT ![a] =
                      [NoOp EXCEPT !.at = step, !.tok = t, !.maps = maps]],
             step \notin {"idle", "cleanup", "unlist", "unbound", "ack", "recorded"},
             bound \subseteq maps, ActorInv(a)', StepInv(a)', StartInv'
      PROVE  DangleInv'
  <2> DEFINE new == [NoOp EXCEPT !.at = step, !.tok = t, !.maps = maps]
  <2>1. new.at = step /\ new.tok = t /\ new.maps = maps
    BY IdleActor DEF Op
  <2> HIDE DEF new
  <2>2. op'[a].at = step /\ op'[a].maps = maps
        /\ \A b \in Actors : b # a => op'[b] = op[b]
    BY <1>1, <1>3, <2>1 DEF new
  <2>3. \A b \in Actors : ActorInv(b)' /\ StepInv(b)'
    <3> TAKE b \in Actors
    <3>1. CASE b = a
      BY <1>3, <3>1
    <3>2. CASE b # a
      BY <1>1, <1>2, <2>2, <3>2 DEF ActorInv, StepInv, Deleting
    <3> QED
      BY <3>1, <3>2
  <2>4. MapsInv'
    BY <1>1, <1>2, <1>3, <2>2 DEF MapsInv, Deleting
  <2>5. \A b \in Actors : op'[b].at \in {"ack", "recorded"} => op'[b] = op[b]
    BY <1>3, <2>2
  <2>6. LeftInv'
    BY <1>1, <1>2, <2>5 DEF LeftInv, Actors
  <2> QED
    BY <1>3, <2>3, <2>4, <2>6 DEF DangleInv
<1>4. CASE Request(a, t)
  <2>1. /\ op' = [op EXCEPT ![a] =
                    [NoOp EXCEPT !.at = "prepared", !.tok = t, !.maps = bound]]
        /\ "prepared" \in Steps /\ bound \in SUBSET Maps /\ mode = "on"
        /\ journal[t].phase = "none" /\ UNCHANGED startVars
        /\ (a = "request" /\ t \in Asked) \/ (a = "round" /\ t \in Told)
    BY <1>4 DEF Request, Steps, Open, TypeOK
  <2> DEFINE new == [NoOp EXCEPT !.at = "prepared", !.tok = t, !.maps = bound]
  <2>2. new.at = "prepared" /\ new.tok = t
    BY IdleActor DEF Op
  <2> HIDE DEF new
  <2>3. op'[a].at = "prepared" /\ op'[a].tok = t
    BY <1>1, <2>1, <2>2 DEF new
  <2>4. ActorInv(a)' /\ StepInv(a)'
    BY <1>2, <2>1, <2>3 DEF ActorInv, StepInv
  <2>5. StartInv'
    BY <1>1, <1>2, <2>1 DEF StartInv
  <2> QED
    BY <1>3, <2>1, <2>4, <2>5
<1>5. CASE a = "start" /\ Catch(t)
  <2>1. /\ op' = [op EXCEPT ![a] =
                    [NoOp EXCEPT !.at = "history", !.tok = t,
                                 !.maps = journal[t].maps]]
        /\ "history" \in Steps /\ journal[t].maps \in SUBSET Maps
        /\ mode = "starting" /\ recovered' = recovered \ {t}
        /\ todo = {} /\ todo' = todo /\ t \in recovered
    BY <1>1, <1>5 DEF Catch, Steps, Open, Journal
  <2>2. journal[t].phase = "unbound" /\ bound \subseteq journal[t].maps
    BY <1>1, <2>1 DEF StartInv, MapsInv, Open
  <2> DEFINE new == [NoOp EXCEPT !.at = "history", !.tok = t,
                                 !.maps = journal[t].maps]
  <2>3. new.at = "history" /\ new.tok = t
    BY <2>1, IdleActor DEF Op
  <2> HIDE DEF new
  <2>4. op'[a].at = "history" /\ op'[a].tok = t
    BY <1>1, <2>1, <2>3 DEF new
  <2>5. ActorInv(a)' /\ StepInv(a)'
    BY <1>2, <1>5, <2>2, <2>4 DEF ActorInv, StepInv
  <2>6. StartInv'
    BY <1>1, <1>2, <1>5, <2>1, <2>4 DEF StartInv
  <2> QED
    BY <1>3, <2>1, <2>2, <2>5, <2>6
<1>6. CASE a = "start" /\ TakeUp(t)
  <2>1. mode = "starting" /\ t \in todo /\ todo' = todo \ {t} /\ t \notin recovered
    BY <1>1, <1>6 DEF TakeUp, StartInv
  <2>2. CASE UNCHANGED op
    <3>1. recovered' = recovered \/ (journal[t].phase = "unbound"
            /\ recovered' = recovered \union {t})
      BY <1>6, <2>1, <2>2 DEF TakeUp
    <3>2. StartInv'
      BY <1>1, <1>2, <1>6, <2>1, <2>2, <3>1 DEF StartInv
    <3>3. \A b \in Actors : ActorInv(b)' /\ StepInv(b)'
      BY <1>1, <1>2, <2>2 DEF ActorInv, StepInv, Deleting
    <3>4. MapsInv' /\ LeftInv'
      BY <1>1, <1>2, <2>2 DEF MapsInv, LeftInv, Deleting
    <3> QED
      BY <3>2, <3>3, <3>4 DEF DangleInv
  <2>3. CASE /\ journal[t].phase \notin {"cleared", "unbound"}
             /\ op' = [op EXCEPT !["start"] =
                  [NoOp EXCEPT !.at = Resumed(t), !.tok = t,
                               !.maps = journal[t].maps]]
             /\ UNCHANGED recovered
    <3>1. /\ journal[t].phase \in Open \ {"unbound"}
          /\ journal[t].maps \in SUBSET Maps /\ bound \subseteq journal[t].maps
      BY <1>1, <2>1, <2>3 DEF StartInv, MapsInv, Journal, Phases
    <3>2. /\ Resumed(t) \in Steps
          /\ Resumed(t) \notin {"idle", "cleanup", "unlist", "unbound", "ack",
                                "recorded"}
      BY <3>1 DEF Resumed, Open, Steps
    <3> DEFINE new == [NoOp EXCEPT !.at = Resumed(t), !.tok = t,
                                   !.maps = journal[t].maps]
    <3>3. new.at = Resumed(t) /\ new.tok = t
      BY <3>1, <3>2, IdleActor DEF Op
    <3> HIDE DEF new
    <3>4. op'[a].at = Resumed(t) /\ op'[a].tok = t
      BY <1>1, <1>6, <2>3, <3>3 DEF new
    <3>5. ActorInv(a)'
      BY <1>6, <3>2, <3>4 DEF ActorInv
    <3>6. StepInv(a)'
      BY <1>2, <3>1, <3>4 DEF StepInv, Resumed, Open
    <3>7. StartInv'
      BY <1>1, <1>2, <1>6, <2>1, <2>3, <3>4 DEF StartInv
    <3> QED
      BY <1>3, <1>6, <2>3, <3>1, <3>2, <3>5, <3>6, <3>7
  <2> QED
    BY <1>6, <2>2, <2>3 DEF TakeUp
<1> QED
  BY <1>4, <1>5, <1>6

\* Nobody begins or goes on with a deletion.
LEMMA OtherKeeps ==
  ASSUME TypeOK, DangleInv,
         \/ Start \/ Started \/ Quit \/ Crash \/ Answer \/ Cleanup
         \/ \E m \in Maps : Bind(m)
         \/ \E a \in Actors : StepFails(a) /\ ~Deleting(a)
         \/ UNCHANGED vars
  PROVE  DangleInv'
<1> USE DEF diskVars, startVars, boundVars
<1>1. /\ op \in [Actors -> Op] /\ StartInv /\ MapsInv /\ LeftInv
      /\ \A b \in Actors : ActorInv(b) /\ StepInv(b)
      /\ mode # "starting" => op["start"].at = "idle" /\ todo = {} /\ recovered = {}
      /\ "start" \in Actors /\ "round" \in Actors /\ "request" \in Actors
  BY DEF TypeOK, DangleInv, Is, Actors
<1>2. CASE Start \/ Started \/ Quit \/ UNCHANGED vars
  <2>1. UNCHANGED <<work, bound, tracked, journal, op, recovered>>
    BY <1>2 DEF Start, Started, Quit, vars
  <2>2. \/ mode' = mode /\ todo' = todo
        \/ /\ mode = "off" /\ mode' = "starting"
           /\ todo' = {t \in Tokens : journal[t].phase \in Open}
        \/ mode = "starting" /\ mode' = "on" /\ todo' = todo
        \/ mode = "on" /\ mode' = "off" /\ todo' = todo
           /\ \A b \in Actors : op[b].at = "idle"
    BY <1>2 DEF Start, Started, Quit, vars, Is
  <2>3. StartInv'
    BY <1>1, <2>1, <2>2 DEF StartInv, Open
  <2>4. \A b \in Actors : ActorInv(b)' /\ StepInv(b)'
    BY <1>1, <2>1, <2>2 DEF ActorInv, StepInv, Deleting
  <2>5. MapsInv' /\ LeftInv'
    BY <1>1, <2>1 DEF MapsInv, LeftInv, Deleting
  <2> QED
    BY <2>3, <2>4, <2>5 DEF DangleInv
<1>3. CASE Crash
  <2>1. /\ UNCHANGED <<work, bound, tracked, journal>>
        /\ todo' = {} /\ recovered' = {}
        /\ \A b \in Actors : op'[b].at = "idle"
    BY <1>3, IdleActor DEF Crash
  <2>2. \A b \in Actors : ActorInv(b)' /\ StepInv(b)'
    BY <2>1 DEF ActorInv, StepInv, Deleting
  <2>3. StartInv' /\ MapsInv' /\ LeftInv'
    BY <1>1, <2>1 DEF StartInv, MapsInv, LeftInv, Deleting
  <2> QED
    BY <2>2, <2>3 DEF DangleInv
<1>4. CASE \E m \in Maps : Bind(m)
  <2>1. /\ UNCHANGED <<work, tracked, journal, op, mode, todo, recovered>> /\ work
        /\ \A t \in Tokens : journal[t].phase \notin Open
        /\ \A b \in Actors : op[b].at \in {"idle", "cleanup", "unlist"}
    BY <1>4 DEF Bind
  <2>2. \A b \in Actors : ActorInv(b)' /\ StepInv(b)'
    BY <1>1, <2>1 DEF ActorInv, StepInv, Deleting
  <2>3. StartInv'
    BY <1>1, <2>1 DEF StartInv
  <2>4. MapsInv'
    BY <2>1 DEF MapsInv, Deleting, Open
  <2>5. LeftInv'
    BY <1>1, <2>1 DEF LeftInv
  <2> QED
    BY <2>2, <2>3, <2>4, <2>5 DEF DangleInv
<1>5. ASSUME NEW a \in Actors, ~Deleting(a),
             \/ op'[a].at = "idle"
             \/ a = "round" /\ mode = "on" /\ op'[a].at \in {"cleanup", "unlist"},
             \A b \in Actors : b # a => op'[b] = op[b],
             UNCHANGED <<bound, journal, mode, todo, recovered>>,
             \/ UNCHANGED <<work, tracked>>
             \/ work' /\ mode = "on" /\ a = "round"
      PROVE  DangleInv'
  <2>1. \A b \in Actors : ActorInv(b)' /\ StepInv(b)'
    <3> TAKE b \in Actors
    <3>1. CASE b = a
      BY <1>5, <3>1 DEF ActorInv, StepInv, Deleting
    <3>2. CASE b # a
      BY <1>1, <1>5, <3>2 DEF ActorInv, StepInv, Deleting
    <3> QED
      BY <3>1, <3>2
  <2>2. \A b \in Actors : op'[b].at \notin {"idle", "cleanup", "unlist"} => op'[b] = op[b]
    BY <1>5
  <2>3. op'["start"].at # "idle" => op'["start"] = op["start"]
    BY <1>1, <1>5
  <2>4. StartInv'
    BY <1>1, <1>5, <2>3 DEF StartInv
  <2>5. MapsInv'
    BY <1>1, <1>5, <2>2 DEF MapsInv, Deleting
  <2>6. LeftInv'
    BY <1>1, <1>5, <2>2 DEF LeftInv
  <2> QED
    BY <2>1, <2>4, <2>5, <2>6 DEF DangleInv
<1>6. CASE \E a \in Actors : StepFails(a) /\ ~Deleting(a)
  <2>1. PICK a \in Actors : StepFails(a) /\ ~Deleting(a)
    BY <1>6
  <2>2. op'[a].at = "idle" /\ \A b \in Actors : b # a => op'[b] = op[b]
    BY <1>1, <2>1, Leaves DEF StepFails
  <2>3. UNCHANGED <<work, tracked, bound, journal, mode, todo, recovered>>
    BY <2>1 DEF StepFails
  <2> QED
    BY <1>5, <2>1, <2>2, <2>3
<1>7. CASE Answer
  <2> DEFINE new == [NoOp EXCEPT !.at = "cleanup"]
  <2>1. new.at = "cleanup"
    BY IdleActor DEF Op
  <2> HIDE DEF new
  <2>2. /\ op' = [op EXCEPT !["round"] = new] /\ mode = "on"
        /\ op["round"].at = "idle"
        /\ UNCHANGED <<bound, journal, mode, todo, recovered>>
        /\ UNCHANGED <<work, tracked>> \/ work'
    BY <1>7 DEF Answer, Is, new
  <2>3. /\ op'["round"].at = "cleanup"
        /\ \A b \in Actors : b # "round" => op'[b] = op[b]
    BY <1>1, <2>1, <2>2
  <2> QED
    BY <1>1, <1>5, <2>2, <2>3 DEF Deleting
<1>8. CASE Cleanup
  <2> DEFINE new == [op["round"] EXCEPT !.at = "unlist", !.list = queue]
  <2>1. new.at = "unlist"
    BY <1>1 DEF Op
  <2> HIDE DEF new
  <2>2. /\ op' = [op EXCEPT !["round"] = new] \/ Leave("round")
        /\ op["round"].at \in {"cleanup", "unlist"}
        /\ UNCHANGED <<work, tracked, bound, journal, mode, todo, recovered>>
    BY <1>1, <1>8 DEF Cleanup, CleanupRead, CleanupWrite, Is, new
  <2>3. /\ op'["round"].at \in {"unlist", "idle"}
        /\ \A b \in Actors : b # "round" => op'[b] = op[b]
    BY <1>1, <2>1, <2>2, Leaves
  <2>4. mode = "on"
    BY <1>1, <2>2 DEF ActorInv
  <2> QED
    BY <1>1, <1>5, <2>2, <2>3, <2>4 DEF Deleting
<1> QED
  BY <1>2, <1>3, <1>4, <1>6, <1>7, <1>8

\* Every step keeps what is known of a work that is gone.
LEMMA DangleStep == TypeOK /\ DangleInv /\ [Next]_vars => DangleInv'
<1> SUFFICES ASSUME TypeOK, DangleInv, [Next]_vars PROVE DangleInv'
  OBVIOUS
<1>0. "start" \in Actors
  BY DEF Actors
<1>1. ASSUME NEW a \in Actors, Deletion(a) \/ UnbindFails(a) \/ StepFails(a)
      PROVE  DangleInv'
  <2>1. CASE Mark(a)
    BY <2>1, MarkKeeps
  <2>2. CASE CleanupJournal(a)
    BY <2>2, CleanupKeeps
  <2>3. CASE \/ MoveWorktree(a) \/ CannotMove(a) \/ UnbindStarmaps(a)
             \/ RecordHistory(a) \/ Acknowledge(a) \/ RecordRead(a)
             \/ RecordPending(a) \/ UnbindFails(a)
    <3>1. Deleting(a)
      BY <2>3 DEF MoveWorktree, CannotMove, UnbindStarmaps, RecordHistory,
           Acknowledge, RecordRead, RecordPending, UnbindFails, Is, Deleting
    <3> QED
      BY <2>3, <3>1, WorkKeeps
  <2>4. CASE StepFails(a)
    BY <2>4, WorkKeeps, OtherKeeps
  <2> QED
    BY <1>1, <2>1, <2>2, <2>3, <2>4 DEF Deletion
<1>2. ASSUME NEW a \in Actors, NEW t \in Tokens, Request(a, t) PROVE DangleInv'
  BY <1>2, BeginKeeps
<1>3. ASSUME NEW t \in Tokens, TakeUp(t) \/ Catch(t) PROVE DangleInv'
  BY <1>0, <1>3, BeginKeeps
<1>4. CASE \/ Start \/ Started \/ Quit \/ Crash \/ Answer \/ Cleanup
           \/ (\E m \in Maps : Bind(m)) \/ UNCHANGED vars
  BY <1>4, OtherKeeps
<1> QED
  BY <1>1, <1>2, <1>3, <1>4 DEF Next, Recovery

\* A work that is gone, with no deletion under way and no journal left, has no
\* star map bound to it and no tree in the history, whatever failed and crashed
\* on the way.
THEOREM NothingDanglesHolds == ASSUME Racing = FALSE PROVE Spec => []NothingDangles
<1>1. IInv => TypeOK
  BY DEF IInv
<1>2. DangleInv => NothingDangles
  BY DEF DangleInv, LeftInv, NothingDangles, Quiet, Early, Open
<1> QED
  BY <1>1, <1>2, IInvInit, IInvStep, DangleInit, DangleStep, PTL DEF Spec
=============================================================================
