--------------------------- MODULE StarMapProofs ---------------------------
(***************************************************************************)
(* TLAPS proofs about the star maps.                                       *)
(*                                                                         *)
(* StarMapSync, for any number of devices, any objects of any kind and any *)
(* number of changes: a map opens on every device, the last change of an   *)
(* object that the devices shared stands, and a commit takes no work of    *)
(* its round away.                                                         *)
(*                                                                         *)
(* StarMapStore, for any objects and any bounds: no deletion goes untold,  *)
(* with any processes and any failing steps; and where one store is cached *)
(* and no step fails between a deletion's journal and graph.json, the map  *)
(* stays loadable and what was answered stands.                            *)
(***************************************************************************)
EXTENDS StarMapSync, StarMapStore, TLAPS

-----------------------------------------------------------------------------
(* The invariant.                                                          *)

Ids == [Objs -> Nat]
GraphMeta == [pkg : Nat, rev : Ids, dead : Ids, at : Nat, form : {0, 1}]
GraphRecords == [g : GraphMeta, t : Nat]
ObjectRecords == [Objs -> [c : Nat, t : Nat]]
Job == [at : {"idle", "merged", "published"}, base : [g : GraphMeta, f : Ids],
        graph : GraphRecords, objs : ObjectRecords, stale : BOOLEAN]

TypeOK ==
  /\ now \in Nat /\ events \in Nat
  /\ graph \in [Devices -> GraphMeta] /\ written \in [Devices -> Nat]
  /\ file \in [Devices -> Ids] /\ tomb \in [Devices -> Ids] /\ latest \in Ids
  /\ grec \in [Devices -> GraphRecords] /\ rec \in [Devices -> ObjectRecords]
  /\ remote \in [graph : GraphRecords, objs : ObjectRecords]
  /\ job \in [Devices -> Job]

\* No revision is above that of its package.
Bound(g) == \A o \in Objs : g.rev[o] <= g.pkg

BoundInv ==
  /\ Bound(remote.graph.g)
  /\ \A d \in Devices : /\ Bound(graph[d]) /\ Bound(grec[d].g)
                        /\ Bound(job[d].base.g) /\ Bound(job[d].graph.g)

\* No content comes from the future.
TimeInv ==
  \A o \in Objs :
    /\ remote.objs[o].c <= now
    /\ \A d \in Devices : file[d][o] <= now /\ job[d].objs[o].c <= now

\* What was written since the round started has a revision above its base.
RoundInv ==
  \A d \in Devices : job[d].at # "idle" =>
    /\ job[d].base.g.pkg <= graph[d].pkg
    /\ \A o \in Objs : \/ file[d][o] \in {0, job[d].base.f[o]}
                       \/ graph[d].rev[o] > job[d].base.g.pkg

\* A content of an object no later than its last change, and its record.
Content(o, c) == c > 0 /\ c <= latest[o]
Live(o, r) == Content(o, r.c) /\ r.t = r.c

\* An object that nobody deleted is a member of every list and has a file
\* and records everywhere, and a device has its last change.
Shared(o) ==
  /\ latest[o] <= now
  /\ o \in Members(remote.graph.g) /\ Live(o, remote.objs[o])
  /\ \A d \in Devices :
       /\ o \in Members(graph[d]) /\ o \in Members(grec[d].g)
       /\ Content(o, file[d][o]) /\ Live(o, rec[d][o])
       /\ job[d].at # "idle" =>
            /\ o \in Members(job[d].base.g) /\ o \in Members(job[d].graph.g)
            /\ Content(o, job[d].base.f[o]) /\ Live(o, job[d].objs[o])
            /\ job[d].base.f[o] <= job[d].objs[o].c
  /\ \E d \in Devices : file[d][o] = latest[o]

SharedInv == \A o \in Existing : Deleted(o) \/ Shared(o)

IInv ==
  TypeOK /\ BoundInv /\ TimeInv /\ RoundInv /\ MembersHaveFiles /\ SharedInv

-----------------------------------------------------------------------------
(* What the operators of the merge return.                                 *)

\* The initial graphs and records.
LEMMA Constants ==
  /\ Nothing \in Ids /\ NoGraph \in GraphMeta /\ Bound(NoGraph)
  /\ NoJob \in Job /\ NoJob.at = "idle"
  /\ NoJob.base.g = NoGraph /\ NoJob.graph.g = NoGraph
  /\ \A o \in Objs : NoJob.objs[o].c = 0
<1>1. Nothing \in Ids
  BY DEF Nothing, Ids
<1>2. NoGraph \in GraphMeta /\ Bound(NoGraph)
  BY <1>1 DEF NoGraph, Graph, GraphMeta, Bound, Nothing
<1>3. [o \in Objs |-> NoRecord] \in ObjectRecords
  BY DEF ObjectRecords, NoRecord
<1>4. /\ NoJob \in Job /\ NoJob.at = "idle"
      /\ NoJob.base.g = NoGraph /\ NoJob.graph.g = NoGraph
      /\ NoJob.objs = [o \in Objs |-> NoRecord]
  <2> HIDE DEF NoGraph, Nothing, NoRecord
  <2> QED BY <1>1, <1>2, <1>3 DEF NoJob, Job, GraphRecord, GraphRecords
<1> QED BY <1>1, <1>2, <1>4 DEF NoRecord

\* A merged revision is one of the three, and not that of no member.
LEMMA MergedOne ==
  ASSUME NEW b \in Nat, NEW l \in Nat, NEW i \in Nat
  PROVE  /\ MergedRevision(b, l, i) \in {b, l, i}
         /\ l > 0 \/ i > 0 => MergedRevision(b, l, i) > 0
<1> DEFINE changed == {r \in {l, i} : r # 0 /\ r # b}
<1>1. CASE changed = {}
  <2>1. MergedRevision(b, l, i) = b
    BY <1>1 DEF MergedRevision
  <2> QED BY <1>1, <2>1
<1>2. CASE changed # {}
  <2>1. \E r \in changed : \A s \in changed : r >= s
    BY <1>2
  <2>2. MergedRevision(b, l, i) \in changed
    BY <1>2, <2>1 DEF MergedRevision
  <2> QED BY <2>2
<1> QED BY <1>1, <1>2

\* An object gets the content of one of the two sides.
LEMMA WinningOne ==
  ASSUME NEW b, NEW l, NEW i
  PROVE  Winning(b, l, i) \in {l.c, i.c}
BY DEF Winning, Later

\* The merged graph: the objects that have a content are its members, its
\* revisions are bounded, and its package is not older than the device's.
LEMMA MergedGraph ==
  ASSUME NEW found, NEW won \in Ids, NEW f,
         NEW b \in GraphMeta, NEW l \in GraphMeta, NEW i \in GraphMeta,
         Bound(b), Bound(l), Bound(i), b.pkg <= l.pkg,
         \A o \in Objs : won[o] > 0 => o \in found /\ o \in Members(l) \union Members(i),
         NEW g \in Graphs(found, won, b, l, i, f)
  PROVE  /\ g \in GraphMeta /\ Bound(g) /\ g.pkg >= l.pkg
         /\ \A o \in Objs : o \in Members(g) <=> won[o] > 0
<1> DEFINE applied == {o \in found : won[o] > 0 /\ won[o] # f[o]}
           changed == applied # {} \/ \E o \in found : won[o] = 0
           pkg == Larger(l.pkg, i.pkg) + IF changed THEN 1 ELSE 0
           rev == Revisions(won, applied, pkg, b.rev, l.rev, i.rev)
           dead == Deaths(won, b.dead, l.dead, i.dead)
           at == Larger(l.at, i.at)
<1>1. /\ l.pkg \in Nat /\ i.pkg \in Nat /\ l.at \in Nat /\ i.at \in Nat
      /\ \A o \in Objs : /\ b.rev[o] \in Nat /\ l.rev[o] \in Nat /\ i.rev[o] \in Nat
                         /\ b.dead[o] \in Nat /\ l.dead[o] \in Nat /\ i.dead[o] \in Nat
                         /\ won[o] \in Nat
      /\ b.pkg \in Nat
  BY DEF GraphMeta, Ids
<1>2. /\ pkg \in Nat /\ pkg >= l.pkg /\ pkg >= i.pkg
      /\ applied # {} => pkg > 0
  BY <1>1 DEF Larger
<1>3. dead \in Ids /\ at \in Nat
  BY <1>1 DEF Deaths, Larger, Ids
<1> HIDE DEF pkg, applied
<1>4. ASSUME NEW o \in Objs
      PROVE  /\ rev[o] \in Nat /\ rev[o] <= pkg
             /\ rev[o] > 0 <=> won[o] > 0
  <2>1. rev[o] = IF won[o] = 0 THEN 0 ELSE
                 IF o \in applied THEN pkg
                 ELSE MergedRevision(b.rev[o], l.rev[o], i.rev[o])
    BY DEF Revisions
  <2>2. CASE won[o] = 0
    <3>1. rev[o] = 0
      BY <2>1, <2>2
    <3> QED BY <3>1, <2>2, <1>2
  <2>3. CASE won[o] > 0 /\ o \in applied
    <3>1. rev[o] = pkg
      BY <2>1, <2>3, <1>1
    <3> QED BY <3>1, <2>3, <1>2
  <2>4. CASE won[o] > 0 /\ o \notin applied
    <3>1. rev[o] = MergedRevision(b.rev[o], l.rev[o], i.rev[o])
      BY <2>1, <2>4, <1>1
    <3>2. l.rev[o] > 0 \/ i.rev[o] > 0
      BY <2>4 DEF Members
    <3>3. rev[o] \in {b.rev[o], l.rev[o], i.rev[o]} /\ rev[o] > 0
      BY <3>1, <3>2, <1>1, MergedOne
    <3>4. b.rev[o] <= b.pkg /\ l.rev[o] <= l.pkg /\ i.rev[o] <= i.pkg
      BY DEF Bound
    <3> QED BY <3>3, <3>4, <2>4, <1>1, <1>2
  <2> QED BY <2>2, <2>3, <2>4, <1>1
<1>5. rev \in Ids
  <2>1. rev = [o \in Objs |-> rev[o]]
    BY DEF Revisions
  <2> HIDE DEF rev
  <2> QED BY <1>4, <2>1 DEF Ids
<1>6. PICK form \in {0, 1} : g = Graph(pkg, rev, dead, at, form)
  BY DEF Graphs, Forms, pkg, applied
<1> HIDE DEF rev, dead, at
<1>7. g \in GraphMeta /\ g.pkg = pkg /\ g.rev = rev
  BY <1>2, <1>3, <1>5, <1>6 DEF Graph, GraphMeta
<1> QED BY <1>2, <1>4, <1>7 DEF Bound, Members

\* The records a round starts from.
LEMMA OwnRecords ==
  ASSUME TypeOK, NEW d \in Devices
  PROVE  /\ OwnGraphRecord(d) \in GraphRecords
         /\ \A o \in Objs : ObjectRecord(d, o) \in [c : Nat, t : Nat]
<1>1. OwnGraphRecord(d) \in GraphRecords
  BY DEF TypeOK, OwnGraphRecord, GraphRecord, GraphRecords
<1>2. ASSUME NEW o \in Objs
      PROVE  ObjectRecord(d, o) \in [c : Nat, t : Nat]
  <2>1. /\ file[d][o] \in Nat /\ tomb[d][o] \in Nat
        /\ rec[d][o] \in [c : Nat, t : Nat]
    BY DEF TypeOK, Ids, ObjectRecords
  <2> QED BY <2>1 DEF ObjectRecord, Upsert, Deletion, NoRecord
<1> QED BY <1>1, <1>2

-----------------------------------------------------------------------------
(* Every step keeps the invariant.                                         *)

\* A map that all devices share.
LEMMA InitIInv == Init => IInv
<1> SUFFICES ASSUME Init PROVE IInv
  OBVIOUS
<1> DEFINE first == [o \in Objs |-> IF o \in Existing THEN 1 ELSE 0]
           g == Graph(1, first, Nothing, 1, 0)
<1>1. first \in Ids /\ g \in GraphMeta /\ g.rev = first /\ g.pkg = 1 /\ Bound(g)
  <2>1. first \in Ids
    BY DEF Ids
  <2> HIDE DEF Nothing
  <2>2. g \in GraphMeta /\ g.rev = first /\ g.pkg = 1
    BY <2>1, Constants DEF Graph, GraphMeta
  <2> QED BY <2>1, <2>2 DEF Bound
<1>2. /\ now = 1 /\ events = 0
      /\ graph = [d \in Devices |-> g] /\ written = [d \in Devices |-> 1]
      /\ file = [d \in Devices |-> first] /\ latest = first
      /\ grec = [d \in Devices |-> GraphRecord(g, 1)]
      /\ rec = [d \in Devices |-> [o \in Objs |-> Upsert(first[o])]]
      /\ tomb = [d \in Devices |-> Nothing]
      /\ remote = [graph |-> GraphRecord(g, 1),
                   objs |-> [o \in Objs |-> Upsert(first[o])]]
      /\ job = [d \in Devices |-> NoJob]
  BY DEF Init, GraphRecord
<1>3. GraphRecord(g, 1) \in GraphRecords /\ GraphRecord(g, 1).g = g
  BY <1>1 DEF GraphRecord, GraphRecords
<1>4. /\ [o \in Objs |-> Upsert(first[o])] \in ObjectRecords
      /\ \A o \in Objs : /\ Upsert(first[o]).c = first[o]
                         /\ Upsert(first[o]).t = first[o]
  BY DEF Upsert, ObjectRecords
<1>5. \A o \in Objs : first[o] = IF o \in Existing THEN 1 ELSE 0
  OBVIOUS
<1> HIDE DEF first, g
<1>6. TypeOK
  <2> HIDE DEF NoJob, Nothing
  <2> QED BY <1>1, <1>2, <1>3, <1>4, Constants DEF TypeOK
<1>7. BoundInv /\ TimeInv /\ RoundInv /\ MembersHaveFiles
  <2> HIDE DEF NoJob, NoGraph
  <2>1. BoundInv
    BY <1>1, <1>2, <1>3, Constants DEF BoundInv
  <2>2. TimeInv
    BY <1>2, <1>4, <1>5, Constants DEF TimeInv
  <2>3. RoundInv
    BY <1>2, Constants DEF RoundInv
  <2>4. MembersHaveFiles
    BY <1>1, <1>2, <1>5 DEF MembersHaveFiles, Members
  <2> QED BY <2>1, <2>2, <2>3, <2>4
<1>8. SharedInv
  <2> SUFFICES ASSUME NEW o \in Existing PROVE Shared(o)
    BY DEF SharedInv
  <2>1. o \in Objs /\ first[o] = 1 /\ o \in Members(g) /\ latest[o] = 1
    BY <1>1, <1>2, <1>5, StarMapAssumption DEF Members
  <2>2. 1 \in Devices
    BY StarMapAssumption DEF Devices
  <2>3. Live(o, Upsert(first[o])) /\ Content(o, first[o])
    BY <1>4, <2>1 DEF Live, Content
  <2>4. \A d \in Devices : job[d].at = "idle"
    <3> HIDE DEF NoJob
    <3> QED BY <1>2, Constants
  <2> QED BY <1>2, <1>3, <2>1, <2>2, <2>3, <2>4 DEF Shared
<1> QED BY <1>6, <1>7, <1>8 DEF IInv

\* A user's step: what the flush of object o with a content does.
LEMMA FlushIInv ==
  ASSUME IInv, NEW d \in Devices, NEW o \in Objs,
         NEW content \in {0, now + 1}, Flush(d, o, content),
         latest' \in Ids, tomb' \in [Devices -> Ids]
  PROVE  /\ TypeOK' /\ BoundInv' /\ TimeInv' /\ RoundInv' /\ MembersHaveFiles'
         /\ now' = now + 1 /\ now \in Nat /\ UNCHANGED <<grec, rec, remote, job>>
         /\ file' = [file EXCEPT ![d][o] = content]
         /\ \A e \in Devices, p \in Objs :
              /\ file'[e][p] = IF e = d /\ p = o THEN content ELSE file[e][p]
              /\ p \in Members(graph'[e]) <=> file'[e][p] > 0
<1> DEFINE pkg == graph[d].pkg + 1
           rev == [graph[d].rev EXCEPT ![o] = IF content = 0 THEN 0 ELSE pkg]
           dead == [graph[d].dead EXCEPT ![o] = IF content = 0 THEN pkg ELSE 0]
           g == Graph(pkg, rev, dead, now', 0)
<1>1. /\ now' = now + 1 /\ now \in Nat /\ content \in Nat
      /\ graph' = [graph EXCEPT ![d] = g]
      /\ written' = [written EXCEPT ![d] = now']
      /\ file' = [file EXCEPT ![d][o] = content]
      /\ UNCHANGED <<grec, rec, remote, job>> /\ events' = events + 1
  BY DEF Flush, Event, IInv, TypeOK
<1>2. /\ graph[d] \in GraphMeta /\ graph[d].pkg \in Nat
      /\ graph[d].rev \in Ids /\ graph[d].dead \in Ids
      /\ file \in [Devices -> Ids]
  BY DEF IInv, TypeOK, GraphMeta
<1>3. /\ g \in GraphMeta /\ g.rev = rev /\ g.pkg = pkg
      /\ \A p \in Objs : rev[p] = IF p # o THEN graph[d].rev[p] ELSE
                                  IF content = 0 THEN 0 ELSE pkg
  <2>1. rev \in Ids /\ dead \in Ids /\ pkg \in Nat
    BY <1>2 DEF Ids
  <2>2. \A p \in Objs : rev[p] = IF p # o THEN graph[d].rev[p] ELSE
                                  IF content = 0 THEN 0 ELSE pkg
    BY <1>2 DEF Ids
  <2> HIDE DEF rev, dead, pkg
  <2> QED BY <1>1, <2>1, <2>2 DEF Graph, GraphMeta
<1>4. \A e \in Devices, p \in Objs :
        /\ file'[e][p] = IF e = d /\ p = o THEN content ELSE file[e][p]
        /\ file'[e][p] \in Nat
  BY <1>1, <1>2 DEF Ids
<1>5. \A e \in Devices : graph'[e] = IF e = d THEN g ELSE graph[e]
  BY <1>1 DEF IInv, TypeOK
<1> HIDE DEF g, rev, dead
<1>6. TypeOK'
  <2>1. file' \in [Devices -> Ids]
    BY <1>1, <1>2 DEF Ids
  <2> QED BY <1>1, <1>3, <2>1 DEF IInv, TypeOK
<1>7. BoundInv'
  <2>1. Bound(g)
    <3>1. \A p \in Objs : graph[d].rev[p] \in Nat /\ graph[d].rev[p] <= graph[d].pkg
      BY <1>2 DEF IInv, BoundInv, Bound, Ids
    <3> QED BY <1>2, <1>3, <3>1 DEF Bound
  <2> QED BY <1>1, <1>5, <2>1 DEF IInv, BoundInv, Bound
<1>8. TimeInv'
  <2> SUFFICES ASSUME NEW p \in Objs
               PROVE  /\ remote.objs[p].c <= now + 1
                      /\ \A e \in Devices : /\ file'[e][p] <= now + 1
                                            /\ job[e].objs[p].c <= now + 1
    BY <1>1 DEF TimeInv
  <2>1. /\ remote.objs[p].c \in Nat
        /\ \A e \in Devices : job[e].objs[p].c \in Nat /\ file[e][p] \in Nat
    BY DEF IInv, TypeOK, ObjectRecords, Job, Ids
  <2>2. /\ remote.objs[p].c <= now
        /\ \A e \in Devices : job[e].objs[p].c <= now /\ file[e][p] <= now
    BY DEF IInv, TimeInv
  <2> QED BY <1>1, <1>4, <2>1, <2>2
<1>9. RoundInv'
  <2> SUFFICES ASSUME NEW e \in Devices, job[e].at # "idle"
               PROVE  /\ job[e].base.g.pkg <= graph'[e].pkg
                      /\ \A p \in Objs : \/ file'[e][p] \in {0, job[e].base.f[p]}
                                         \/ graph'[e].rev[p] > job[e].base.g.pkg
    BY <1>1 DEF RoundInv
  <2>1. job[e].base.g.pkg \in Nat
    BY DEF IInv, TypeOK, Job, GraphMeta
  <2>2. /\ job[e].base.g.pkg <= graph[e].pkg
        /\ \A p \in Objs : \/ file[e][p] \in {0, job[e].base.f[p]}
                           \/ graph[e].rev[p] > job[e].base.g.pkg
    BY DEF IInv, RoundInv
  <2> QED BY <1>2, <1>3, <1>4, <1>5, <2>1, <2>2
<1>10. \A e \in Devices, p \in Objs : p \in Members(graph'[e]) <=> file'[e][p] > 0
  <2> SUFFICES ASSUME NEW e \in Devices, NEW p \in Objs
               PROVE  p \in Members(graph'[e]) <=> file'[e][p] > 0
    OBVIOUS
  <2>1. p \in Members(graph[e]) <=> file[e][p] > 0
    BY DEF IInv, MembersHaveFiles
  <2>2. CASE e = d /\ p = o
    <3>1. graph'[e].rev[p] = IF content = 0 THEN 0 ELSE pkg
      BY <1>3, <1>5, <2>2
    <3>2. file'[e][p] = content
      BY <1>4, <2>2
    <3> QED BY <1>1, <1>2, <3>1, <3>2 DEF Members
  <2>3. CASE ~(e = d /\ p = o)
    BY <1>3, <1>4, <1>5, <2>1, <2>3 DEF Members
  <2> QED BY <2>2, <2>3
<1>11. MembersHaveFiles'
  BY <1>10 DEF MembersHaveFiles, Members
<1> QED BY <1>1, <1>4, <1>6, <1>7, <1>8, <1>9, <1>10, <1>11

\* An object other than the flushed one stays shared.
LEMMA OthersShared ==
  ASSUME IInv, NEW d \in Devices, NEW o \in Objs, NEW content \in {0, now + 1},
         Flush(d, o, content), latest' \in Ids, tomb' \in [Devices -> Ids],
         NEW p \in Existing, p # o, Shared(p), latest'[p] = latest[p]
  PROVE  Shared(p)'
<1>1. p \in Objs /\ latest[p] \in Nat
  BY StarMapAssumption DEF IInv, TypeOK, Ids
<1>2. /\ now' = now + 1 /\ now \in Nat /\ UNCHANGED <<grec, rec, remote, job>>
      /\ \A e \in Devices : /\ file'[e][p] = file[e][p]
                            /\ p \in Members(graph'[e]) <=> file[e][p] > 0
  BY <1>1, FlushIInv
<1> QED BY <1>1, <1>2 DEF Shared, Live, Content, Members

\* The steps of a user.
LEMMA UserIInv ==
  ASSUME IInv, NEW d \in Devices, NEW o \in Objs,
         Change(d, o) \/ Add(d, o) \/ Delete(d, o)
  PROVE  /\ IInv'
         /\ \/ tomb' # tomb
            \/ \A e \in Devices, p \in Objs : file'[e][p] >= file[e][p]
<1>1. /\ now \in Nat /\ latest \in Ids /\ tomb \in [Devices -> Ids]
      /\ \A e \in Devices, p \in Objs : /\ file[e][p] \in Nat /\ tomb[e][p] \in Nat
                                        /\ file[e][p] <= now
  BY DEF IInv, TypeOK, TimeInv, Ids
<1>2. CASE Change(d, o) \/ Add(d, o)
  <2>1. /\ Flush(d, o, now + 1) /\ latest' = [latest EXCEPT ![o] = now']
        /\ tomb' = tomb
    BY <1>2 DEF Change, Add
  <2>2. now' = now + 1
    BY <2>1 DEF Flush
  <2>3. latest' \in Ids /\ tomb' \in [Devices -> Ids]
    BY <1>1, <2>1, <2>2 DEF Ids
  <2>4. /\ TypeOK' /\ BoundInv' /\ TimeInv' /\ RoundInv' /\ MembersHaveFiles'
        /\ UNCHANGED <<grec, rec, remote, job>>
        /\ \A e \in Devices, p \in Objs :
             /\ file'[e][p] = IF e = d /\ p = o THEN now + 1 ELSE file[e][p]
             /\ p \in Members(graph'[e]) <=> file'[e][p] > 0
    BY <2>1, <2>3, FlushIInv
  <2>5. ASSUME NEW p \in Existing PROVE Deleted(p)' \/ Shared(p)'
    <3>1. CASE Deleted(p)
      BY <2>1, <3>1 DEF Deleted
    <3>2. CASE Shared(p) /\ p # o
      <4>1. latest'[p] = latest[p]
        BY <1>1, <2>1, <3>2, StarMapAssumption DEF Ids
      <4> QED BY <2>1, <2>3, <3>2, <4>1, OthersShared
    <3>3. CASE Shared(p) /\ p = o
      <4>0. p \in Objs
        BY StarMapAssumption
      <4>1. latest[p] \in Nat /\ latest[p] <= now /\ latest'[p] = now + 1
        BY <1>1, <2>1, <2>2, <3>3, <4>0 DEF Shared, Ids
      <4>2. ASSUME NEW c, Content(p, c), c \in Nat PROVE Content(p, c)'
        BY <1>1, <4>1, <4>2 DEF Content
      <4>3. /\ remote.objs[p].c \in Nat
            /\ \A e \in Devices : /\ rec[e][p].c \in Nat /\ job[e].base.f[p] \in Nat
                                  /\ job[e].objs[p].c \in Nat /\ file[e][p] \in Nat
        BY <4>0 DEF IInv, TypeOK, ObjectRecords, Job, Ids
      <4>4. \A e \in Devices : /\ Content(p, file[e][p])'
                               /\ p \in Members(graph'[e])
        <5> SUFFICES ASSUME NEW e \in Devices
                     PROVE  Content(p, file[e][p])' /\ p \in Members(graph'[e])
          OBVIOUS
        <5>1. file[e][p] > 0 /\ file[e][p] <= latest[p] /\ file[e][p] \in Nat
          BY <3>3, <4>3 DEF Shared, Content
        <5>2. file'[e][p] = IF e = d THEN now + 1 ELSE file[e][p]
          BY <2>4, <3>3, <4>0
        <5>3. file'[e][p] > 0 /\ file'[e][p] <= latest'[p]
          BY <1>1, <4>1, <5>1, <5>2
        <5>4. p \in Members(graph'[e])
          BY <2>4, <4>0, <5>3
        <5> QED BY <5>3, <5>4 DEF Content
      <4>5. file'[d][p] = latest'[p]
        BY <2>4, <3>3, <4>0, <4>1
      <4>6. Live(p, remote.objs[p])' /\ p \in Members(remote'.graph.g)
        BY <2>4, <3>3, <4>2, <4>3 DEF Shared, Live
      <4>7. \A e \in Devices : Live(p, rec[e][p])' /\ p \in Members(grec'[e].g)
        BY <2>4, <3>3, <4>2, <4>3 DEF Shared, Live
      <4>8. \A e \in Devices : job'[e].at # "idle" =>
              /\ Content(p, job[e].base.f[p])' /\ Live(p, job[e].objs[p])'
              /\ p \in Members(job'[e].base.g) /\ p \in Members(job'[e].graph.g)
              /\ job'[e].base.f[p] <= job'[e].objs[p].c
        BY <2>4, <3>3, <4>2, <4>3 DEF Shared, Live
      <4>9. latest'[p] <= now'
        BY <1>1, <2>2, <4>1
      <4> QED
        BY <4>4, <4>5, <4>6, <4>7, <4>8, <4>9 DEF Shared, Members
    <3> QED BY <3>1, <3>2, <3>3 DEF IInv, SharedInv
  <2>6. \A e \in Devices, p \in Objs : file'[e][p] >= file[e][p]
    BY <1>1, <2>4
  <2> QED BY <2>4, <2>5, <2>6 DEF IInv, SharedInv
<1>3. CASE Delete(d, o)
  <2>1. /\ Flush(d, o, 0) /\ latest' = latest /\ tomb[d][o] = 0
        /\ tomb' = [tomb EXCEPT ![d][o] = now']
    BY <1>3 DEF Delete
  <2>2. now' = now + 1
    BY <2>1 DEF Flush
  <2>3. latest' \in Ids /\ tomb' \in [Devices -> Ids]
    BY <1>1, <2>1, <2>2 DEF Ids
  <2>4. TypeOK' /\ BoundInv' /\ TimeInv' /\ RoundInv' /\ MembersHaveFiles'
    BY <2>1, <2>3, FlushIInv
  <2>5. \A e \in Devices, p \in Objs :
          tomb'[e][p] = IF e = d /\ p = o THEN now + 1 ELSE tomb[e][p]
    BY <1>1, <2>1, <2>2 DEF Ids
  <2>6. ASSUME NEW p \in Existing PROVE Deleted(p)' \/ Shared(p)'
    <3>1. CASE Deleted(p)
      <4>1. PICK e \in Devices : tomb[e][p] > 0
        BY <3>1 DEF Deleted
      <4>2. tomb'[e][p] > 0
        BY <1>1, <2>5, <4>1, StarMapAssumption
      <4> QED BY <4>2 DEF Deleted
    <3>2. CASE Shared(p) /\ p # o
      BY <2>1, <2>3, <3>2, OthersShared
    <3>3. CASE p = o
      BY <1>1, <2>5, <3>3 DEF Deleted
    <3> QED BY <3>1, <3>2, <3>3 DEF IInv, SharedInv
  <2>7. tomb' # tomb
    <3>1. tomb'[d][o] = now + 1
      BY <2>5
    <3> QED BY <1>1, <2>1, <3>1
  <2> QED BY <2>4, <2>6, <2>7 DEF IInv, SharedInv
<1> QED BY <1>2, <1>3

\* The start of a round.
LEMMA StartIInv ==
  ASSUME IInv, NEW d \in Devices, StartSync(d)
  PROVE  IInv'
<1> DEFINE g == Later(OwnGraphRecord(d), remote.graph)
           objs == [o \in Objs |-> Later(ObjectRecord(d, o), remote.objs[o])]
           dirty == remote # [graph |-> g, objs |-> objs]
           j == [NoJob EXCEPT !.at = IF dirty THEN "merged" ELSE "published",
                              !.base = [g |-> graph[d], f |-> file[d]],
                              !.graph = g, !.objs = objs]
<1>1. /\ job' = [job EXCEPT ![d] = j]
      /\ UNCHANGED <<now, graph, written, file, tomb, latest, grec, rec, remote,
                     events>>
  BY DEF StartSync, mapVars
<1>2. /\ graph[d] \in GraphMeta /\ file[d] \in Ids /\ remote.graph \in GraphRecords
      /\ remote.objs \in ObjectRecords
  BY DEF IInv, TypeOK
<1>3. /\ g \in GraphRecords
      /\ g.g = graph[d] \/ g = remote.graph
  <2>1. OwnGraphRecord(d).g = graph[d]
    BY DEF OwnGraphRecord, GraphRecord
  <2>2. OwnGraphRecord(d) \in GraphRecords
    BY OwnRecords DEF IInv
  <2> QED BY <1>2, <2>1, <2>2 DEF Later
<1>4. objs \in ObjectRecords
  BY <1>2, OwnRecords DEF IInv, ObjectRecords, Later
<1>o. \A o \in Objs : objs[o] = Later(ObjectRecord(d, o), remote.objs[o])
  OBVIOUS
<1> HIDE DEF g, objs
<1>5. /\ j \in Job /\ j.at # "idle" /\ j.base.g = graph[d] /\ j.base.f = file[d]
      /\ j.graph = g /\ j.objs = objs
  <2> HIDE DEF NoJob
  <2>1. NoJob \in Job
    BY Constants
  <2> QED BY <1>2, <1>3, <1>4, <2>1 DEF Job
<1> HIDE DEF j
<1>6. \A e \in Devices : job'[e] = IF e = d THEN j ELSE job[e]
  BY <1>1 DEF IInv, TypeOK
<1>7. TypeOK'
  BY <1>1, <1>5 DEF IInv, TypeOK
<1>8. BoundInv'
  BY <1>1, <1>3, <1>5, <1>6 DEF IInv, BoundInv
<1>9. TimeInv'
  <2>1. \A o \in Objs : objs[o].c <= now
    <3> SUFFICES ASSUME NEW o \in Objs PROVE objs[o].c <= now
      OBVIOUS
    <3>1. /\ file[d][o] <= now /\ remote.objs[o].c <= now /\ now \in Nat
          /\ 0 <= now
      BY DEF IInv, TypeOK, TimeInv
    <3>2. ObjectRecord(d, o).c \in {0, file[d][o]}
      BY DEF ObjectRecord, Upsert, Deletion, NoRecord, IsDelete
    <3>3. objs[o] \in {ObjectRecord(d, o), remote.objs[o]}
      BY <1>o DEF Later
    <3> QED BY <3>1, <3>2, <3>3
  <2> QED BY <1>1, <1>5, <1>6, <2>1 DEF IInv, TimeInv
<1>10. RoundInv'
  <2>1. graph[d].pkg \in Nat
    BY <1>2 DEF GraphMeta
  <2> QED BY <1>1, <1>5, <1>6, <2>1 DEF IInv, RoundInv
<1>11. MembersHaveFiles'
  BY <1>1 DEF IInv, MembersHaveFiles
<1>12. SharedInv'
  <2> SUFFICES ASSUME NEW o \in Existing, ~Deleted(o) PROVE Shared(o)'
    BY <1>1 DEF SharedInv, Deleted
  <2>1. Shared(o) /\ o \in Objs
    BY StarMapAssumption DEF IInv, SharedInv
  <2>2. o \in Members(g.g)
    BY <1>3, <2>1 DEF Shared
  <2>3. /\ Live(o, objs[o]) /\ file[d][o] <= objs[o].c
    <3>1. file[d][o] \in Nat /\ file[d][o] > 0 /\ file[d][o] <= latest[o]
      BY <1>2, <2>1 DEF Shared, Content, Ids
    <3>2. ObjectRecord(d, o) = Upsert(file[d][o])
      BY <3>1 DEF ObjectRecord
    <3>3. /\ remote.objs[o].c \in Nat /\ remote.objs[o].t = remote.objs[o].c
          /\ Content(o, remote.objs[o].c)
      BY <1>2, <2>1 DEF Shared, Live, ObjectRecords
    <3> QED BY <1>o, <2>1, <3>1, <3>2, <3>3 DEF Later, Upsert, Live, Content
  <2>4. \A e \in Devices : job'[e].at # "idle" =>
          /\ o \in Members(job'[e].base.g) /\ o \in Members(job'[e].graph.g)
          /\ Content(o, job'[e].base.f[o]) /\ Live(o, job'[e].objs[o])
          /\ job'[e].base.f[o] <= job'[e].objs[o].c
    BY <1>5, <1>6, <2>1, <2>2, <2>3 DEF Shared
  <2>5. UNCHANGED <<now, graph, file, latest, grec, rec, remote>>
    BY <1>1
  <2> QED BY <2>1, <2>4, <2>5 DEF Shared, Content, Live, Members
<1> QED BY <1>7, <1>8, <1>9, <1>10, <1>11, <1>12 DEF IInv

\* Steps that end a round without a commit.
LEMMA EndIInv ==
  ASSUME IInv, NEW d \in Devices, job' = [job EXCEPT ![d] = NoJob],
         UNCHANGED <<now, graph, written, file, tomb, latest, grec, rec, remote>>,
         events' \in Nat
  PROVE  IInv'
<1> HIDE DEF NoJob, NoGraph
<1>1. \A e \in Devices : job'[e] = IF e = d THEN NoJob ELSE job[e]
  BY DEF IInv, TypeOK
<1>2. TypeOK'
  BY Constants DEF IInv, TypeOK
<1>3. BoundInv'
  BY <1>1, Constants DEF IInv, BoundInv
<1>4. TimeInv'
  BY <1>1, Constants DEF IInv, TypeOK, TimeInv
<1>5. RoundInv'
  BY <1>1, Constants DEF IInv, RoundInv
<1>6. MembersHaveFiles'
  BY DEF IInv, MembersHaveFiles
<1>7. SharedInv'
  <2> SUFFICES ASSUME NEW o \in Existing, ~Deleted(o) PROVE Shared(o)'
    BY DEF SharedInv, Deleted
  <2>1. Shared(o)
    BY DEF IInv, SharedInv
  <2> QED BY <1>1, <2>1, Constants DEF Shared, Live, Content, Members
<1> QED BY <1>2, <1>3, <1>4, <1>5, <1>6, <1>7 DEF IInv

\* A publication.
LEMMA PublishIInv ==
  ASSUME IInv, NEW d \in Devices, Publish(d)
  PROVE  IInv'
<1>1. /\ remote' = [graph |-> job[d].graph, objs |-> job[d].objs]
      /\ job[d].at = "merged"
      /\ UNCHANGED <<now, graph, written, file, tomb, latest, grec, rec, events>>
  BY DEF Publish, mapVars
<1>2. ASSUME NEW e \in Devices
      PROVE  /\ job'[e] \in Job /\ job'[e].base = job[e].base
             /\ job'[e].graph = job[e].graph /\ job'[e].objs = job[e].objs
             /\ job'[e].at # "idle" => job[e].at # "idle"
  <2>1. job[e] \in Job
    BY DEF IInv, TypeOK
  <2>2. CASE e = d
    <3>1. job'[e] = [job[e] EXCEPT !.at = "published"]
      BY <2>2 DEF Publish
    <3> QED BY <1>1, <2>1, <2>2, <3>1 DEF Job
  <2>3. CASE e # d
    <3> DEFINE stale == job[e].at = "merged"
    <3>1. job'[e] = [job[e] EXCEPT !.stale = stale]
      BY <2>3 DEF Publish
    <3>2. stale \in BOOLEAN
      OBVIOUS
    <3> HIDE DEF stale
    <3> QED BY <2>1, <3>1, <3>2 DEF Job
  <2> QED BY <2>2, <2>3
<1>3. TypeOK'
  <2>1. job' \in [Devices -> Job]
    <3>1. job' = [e \in Devices |-> job'[e]]
      BY DEF Publish
    <3> QED BY <1>2, <3>1
  <2>2. job[d] \in Job
    BY DEF IInv, TypeOK
  <2> QED BY <1>1, <2>1, <2>2 DEF IInv, TypeOK, Job
<1>4. BoundInv'
  BY <1>1, <1>2 DEF IInv, BoundInv
<1>5. TimeInv'
  BY <1>1, <1>2 DEF IInv, TimeInv
<1>6. RoundInv'
  BY <1>1, <1>2 DEF IInv, RoundInv
<1>7. MembersHaveFiles'
  BY <1>1 DEF IInv, MembersHaveFiles
<1>8. SharedInv'
  <2> SUFFICES ASSUME NEW o \in Existing, ~Deleted(o) PROVE Shared(o)'
    BY <1>1 DEF SharedInv, Deleted
  <2>1. Shared(o)
    BY DEF IInv, SharedInv
  <2> QED BY <1>1, <1>2, <2>1 DEF Shared, Live, Content, Members
<1> QED BY <1>3, <1>4, <1>5, <1>6, <1>7, <1>8 DEF IInv
\* A commit: what an object gets is what the device has or what the round
\* brings, and a device gives its own for nothing older.
LEMMA CommitIInv ==
  ASSUME IInv, NEW d \in Devices, Commit(d)
  PROVE  /\ IInv'
         /\ \A e \in Devices, o \in Objs :
              file'[e][o] < file[e][o] =>
                file[e][o] = job[e].base.f[o] \/ job[e].objs[o].t > file[e][o]
<1> DEFINE j == job[d]
           found == {o \in Objs : j.base.f[o] > 0 \/ file[d][o] > 0 \/ j.objs[o].c > 0}
           members == Initial(j.base.g, graph[d], j.graph.g)
           won == [o \in Objs |->
                     IF o \in found \intersect members
                     THEN Winning(j.base.f[o], LocalSide(d, o), j.objs[o]) ELSE 0]
           pruned == Undeleted({o \in found : won[o] = 0}, rec[d], j.objs)
           records == [o \in Objs |-> IF o \in pruned THEN Deletion(now') ELSE j.objs[o]]
<1>1. PICK g \in Graphs(found, won, j.base.g, graph[d], j.graph.g, file[d]) :
        graph' = [graph EXCEPT ![d] = g]
  BY DEF Commit
<1>2. /\ j.at = "published"
      /\ file' = [file EXCEPT ![d] = won]
      /\ now' = now \/ now' = now + 1
      /\ written' = written \/ written' = [written EXCEPT ![d] = now']
      /\ grec' = [grec EXCEPT ![d] = j.graph]
      /\ rec' = [rec EXCEPT ![d] = records]
      /\ job' = [job EXCEPT ![d] = NoJob]
      /\ UNCHANGED <<tomb, latest, remote, events>>
  BY DEF Commit
<1>3. /\ j \in Job /\ j.base.g \in GraphMeta /\ j.graph \in GraphRecords
      /\ j.graph.g \in GraphMeta /\ graph[d] \in GraphMeta
      /\ now \in Nat /\ now' \in Nat
  <2>1. j \in Job /\ graph[d] \in GraphMeta /\ now \in Nat
    BY DEF IInv, TypeOK
  <2>2. now' \in Nat
    <3>1. now' = now \/ now' = now + 1
      BY <1>2
    <3> QED BY <2>1, <3>1
  <2>3. j.base.g \in GraphMeta /\ j.graph \in GraphRecords
    BY <2>1 DEF Job
  <2>4. j.graph.g \in GraphMeta
    BY <2>3 DEF GraphRecords
  <2> QED BY <2>1, <2>2, <2>3, <2>4
<1>4. \A o \in Objs : /\ j.base.f[o] \in Nat /\ file[d][o] \in Nat /\ tomb[d][o] \in Nat
                      /\ j.objs[o] \in [c : Nat, t : Nat]
  BY DEF IInv, TypeOK, Job, Ids, ObjectRecords
<1>5. ASSUME NEW o \in Objs
      PROVE  won[o] = IF o \in found \intersect members
                      THEN Winning(j.base.f[o], LocalSide(d, o), j.objs[o]) ELSE 0
  OBVIOUS
<1>6. ASSUME NEW o \in Objs
      PROVE  /\ o \in found <=> j.base.f[o] > 0 \/ file[d][o] > 0 \/ j.objs[o].c > 0
             /\ o \in pruned => won[o] = 0
             /\ records[o] = IF o \in pruned THEN Deletion(now') ELSE j.objs[o]
  BY DEF Undeleted
<1>7. records \in ObjectRecords
  BY <1>3, <1>4 DEF ObjectRecords, Deletion
<1>8. DOMAIN won = Objs /\ won = [o \in Objs |-> won[o]]
  OBVIOUS
<1> HIDE DEF found, won, pruned, records
<1>9. ASSUME NEW o \in Objs
      PROVE  /\ won[o] \in {0, file[d][o], j.objs[o].c} /\ won[o] \in Nat
             /\ won[o] > 0 => /\ o \in found
                              /\ o \in Members(graph[d]) \union Members(j.graph.g)
  <2>1. Winning(j.base.f[o], LocalSide(d, o), j.objs[o]) \in {file[d][o], j.objs[o].c}
    BY WinningOne DEF LocalSide
  <2>2. o \in members => o \in Members(graph[d]) \union Members(j.graph.g)
    BY DEF Initial
  <2>3. CASE o \in found \intersect members
    BY <1>4, <1>5, <2>1, <2>2, <2>3
  <2>4. CASE o \notin found \intersect members
    BY <1>5, <2>4
  <2> QED BY <2>3, <2>4
<1> HIDE DEF members
<1>10. won \in Ids
  BY <1>8, <1>9 DEF Ids
<1>11. /\ g \in GraphMeta /\ Bound(g) /\ g.pkg >= graph[d].pkg
       /\ \A o \in Objs : o \in Members(g) <=> won[o] > 0
  <2>1. Bound(j.base.g) /\ Bound(graph[d]) /\ Bound(j.graph.g)
    BY DEF IInv, BoundInv
  <2>2. j.base.g.pkg <= graph[d].pkg
    BY <1>2 DEF IInv, RoundInv
  <2>3. \A o \in Objs :
          won[o] > 0 => o \in found /\ o \in Members(graph[d]) \union Members(j.graph.g)
    BY <1>9
  <2> DEFINE b == j.base.g
             l == graph[d]
             i == j.graph.g
             f == file[d]
  <2>4. /\ g \in Graphs(found, won, b, l, i, f) /\ b.pkg <= l.pkg
        /\ b \in GraphMeta /\ l \in GraphMeta /\ i \in GraphMeta
        /\ Bound(b) /\ Bound(l) /\ Bound(i)
        /\ \A o \in Objs : won[o] > 0 => o \in found /\ o \in Members(l) \union Members(i)
    BY <1>1, <1>3, <2>1, <2>2, <2>3
  <2>5. l = graph[d]
    OBVIOUS
  <2> HIDE DEF b, l, i, f, j
  <2>6. /\ g \in GraphMeta /\ Bound(g) /\ g.pkg >= l.pkg
        /\ \A o \in Objs : o \in Members(g) <=> won[o] > 0
    BY <1>10, <2>4, MergedGraph
  <2> QED BY <2>5, <2>6
<1> HIDE DEF NoJob, NoGraph
<1>12. ASSUME NEW e \in Devices
       PROVE  /\ graph'[e] = IF e = d THEN g ELSE graph[e]
              /\ file'[e] = IF e = d THEN won ELSE file[e]
              /\ grec'[e] = IF e = d THEN j.graph ELSE grec[e]
              /\ rec'[e] = IF e = d THEN records ELSE rec[e]
              /\ job'[e] = IF e = d THEN NoJob ELSE job[e]
  BY <1>1, <1>2 DEF IInv, TypeOK
<1>13. TypeOK'
  BY <1>1, <1>2, <1>3, <1>7, <1>10, <1>11, Constants DEF IInv, TypeOK
<1>14. BoundInv'
  BY <1>2, <1>11, <1>12, Constants DEF IInv, BoundInv
<1>15. TimeInv'
  <2> SUFFICES ASSUME NEW o \in Objs
               PROVE  /\ remote.objs[o].c <= now'
                      /\ \A e \in Devices : /\ file'[e][o] <= now'
                                            /\ job'[e].objs[o].c <= now'
    BY <1>2 DEF TimeInv
  <2>1. remote.objs[o].c \in Nat /\ remote.objs[o].c <= now
    BY DEF IInv, TypeOK, TimeInv, ObjectRecords
  <2>2. ASSUME NEW e \in Devices
        PROVE  /\ file[e][o] \in Nat /\ file[e][o] <= now
               /\ job[e].objs[o].c \in Nat /\ job[e].objs[o].c <= now
    BY DEF IInv, TypeOK, TimeInv, ObjectRecords, Job, Ids
  <2>3. won[o] \in Nat /\ won[o] <= now
    BY <1>3, <1>9, <2>2
  <2>4. NoJob.objs[o].c = 0
    BY Constants
  <2> QED BY <1>2, <1>3, <1>12, <2>1, <2>2, <2>3, <2>4
<1>16. RoundInv'
  BY <1>12, Constants DEF IInv, RoundInv
<1>17. MembersHaveFiles'
  BY <1>11, <1>12 DEF IInv, MembersHaveFiles, Members
<1>18. SharedInv'
  <2> SUFFICES ASSUME NEW o \in Existing, ~Deleted(o) PROVE Shared(o)'
    BY <1>2 DEF SharedInv, Deleted
  <2>1. Shared(o) /\ o \in Objs
    BY StarMapAssumption DEF IInv, SharedInv
  <2>2. /\ o \in Members(graph[d]) /\ o \in Members(j.graph.g)
        /\ file[d][o] > 0 /\ file[d][o] <= latest[o]
        /\ j.objs[o].c > 0 /\ j.objs[o].c <= latest[o] /\ j.objs[o].t = j.objs[o].c
        /\ j.base.f[o] <= j.objs[o].c
    BY <1>2, <2>1 DEF Shared, Content, Live
  <2>3. o \in found \intersect members
    BY <1>6, <2>1, <2>2 DEF Initial, members
  <2>4. won[o] = Winning(j.base.f[o], LocalSide(d, o), j.objs[o])
    BY <1>5, <2>1, <2>3
  <2>5. LocalSide(d, o) = [c |-> file[d][o], t |-> file[d][o]]
    BY <2>2 DEF LocalSide
  <2>6. latest[o] \in Nat /\ latest[o] <= now
    BY <2>1 DEF IInv, TypeOK, Ids, Shared
  <2>7. won[o] > 0 /\ won[o] <= latest[o]
    BY <1>4, <2>1, <2>2, <2>4, <2>5 DEF Winning, Later
  <2>8. file[d][o] = latest[o] => won[o] = latest[o]
    BY <1>4, <2>1, <2>2, <2>4, <2>5, <2>6 DEF Winning, Later
  <2>9. records[o] = j.objs[o]
    BY <1>6, <2>1, <2>7
  <2>10. \A e \in Devices :
           /\ o \in Members(graph'[e]) /\ o \in Members(grec'[e].g)
           /\ Content(o, file'[e][o]) /\ Live(o, rec'[e][o])
           /\ job'[e].at # "idle" => job'[e] = job[e] /\ job[e].at # "idle"
    <3> SUFFICES ASSUME NEW e \in Devices
                 PROVE  /\ o \in Members(graph'[e]) /\ o \in Members(grec'[e].g)
                        /\ Content(o, file'[e][o]) /\ Live(o, rec'[e][o])
                        /\ job'[e].at # "idle" => job'[e] = job[e] /\ job[e].at # "idle"
      OBVIOUS
    <3>1. CASE e = d
      BY <1>11, <1>12, <2>1, <2>2, <2>7, <2>9, <3>1, Constants DEF Content, Live
    <3>2. CASE e # d
      BY <1>12, <2>1, <3>2 DEF Shared
    <3> QED BY <3>1, <3>2
  <2>11. \E e \in Devices : file'[e][o] = latest[o]
    <3>1. PICK e \in Devices : file[e][o] = latest[o]
      BY <2>1 DEF Shared
    <3> QED BY <1>12, <2>8, <3>1
  <2>12. latest[o] <= now'
    BY <1>2, <1>3, <2>6
  <2>13. o \in Members(remote'.graph.g) /\ Live(o, remote'.objs[o])
    BY <1>2, <2>1 DEF Shared
  <2>14. \A e \in Devices : job'[e].at # "idle" =>
           /\ o \in Members(job'[e].base.g) /\ o \in Members(job'[e].graph.g)
           /\ Content(o, job'[e].base.f[o]) /\ Live(o, job'[e].objs[o])
           /\ job'[e].base.f[o] <= job'[e].objs[o].c
    BY <2>1, <2>10 DEF Shared
  <2>15. latest' = latest
    BY <1>2
  <2> QED BY <2>10, <2>11, <2>12, <2>13, <2>14, <2>15 DEF Shared, Content, Live, Members
<1>19. ASSUME NEW e \in Devices, NEW o \in Objs, file'[e][o] < file[e][o]
       PROVE  file[e][o] = job[e].base.f[o] \/ job[e].objs[o].t > file[e][o]
  <2>1. file[e][o] \in Nat
    BY DEF IInv, TypeOK, Ids
  <2>2. e = d /\ won[o] < file[d][o]
    BY <1>12, <1>19, <2>1
  <2> SUFFICES ASSUME file[d][o] # j.base.f[o], ~(j.objs[o].t > file[d][o])
               PROVE  won[o] = file[d][o]
    BY <1>4, <2>2
  <2>3. file[d][o] > 0 /\ o \in found
    BY <1>4, <1>6, <1>9, <2>2
  <2>4. o \in members
    <3>1. graph[d].rev[o] > j.base.g.pkg
      BY <1>2, <2>3 DEF IInv, RoundInv
    <3>2. o \in Members(graph[d])
      BY <2>3 DEF IInv, MembersHaveFiles
    <3>3. j.base.g.rev[o] <= j.base.g.pkg /\ j.base.g.rev[o] \in Nat
          /\ j.base.g.pkg \in Nat /\ graph[d].rev[o] \in Nat
      BY <1>3 DEF IInv, BoundInv, Bound, GraphMeta, Ids
    <3> QED BY <3>1, <3>2, <3>3 DEF Initial, Modified, Members, members
  <2>5. won[o] = Winning(j.base.f[o], LocalSide(d, o), j.objs[o])
    BY <1>5, <2>3, <2>4
  <2>6. LocalSide(d, o) = [c |-> file[d][o], t |-> file[d][o]]
    BY <2>3 DEF LocalSide
  <2> QED BY <1>4, <2>5, <2>6 DEF Winning, Later
<1> QED BY <1>13, <1>14, <1>15, <1>16, <1>17, <1>18, <1>19 DEF IInv

\* The part of WorkInRoundKept that is about one step.
WorkKept ==
  \A d \in Devices, o \in Objs :
    file'[d][o] < file[d][o] /\ tomb' = tomb
      => file[d][o] = job[d].base.f[o] \/ job[d].objs[o].t > file[d][o]

\* Every step keeps the invariant, and takes no work of a round away.
LEMMA StepIInv == IInv /\ [Next]_vars => IInv' /\ WorkKept
<1> SUFFICES ASSUME IInv, [Next]_vars PROVE IInv' /\ WorkKept
  OBVIOUS
<1>1. \A d \in Devices, o \in Objs : file[d][o] \in Nat
  BY DEF IInv, TypeOK, Ids
<1>2. ASSUME file' = file PROVE WorkKept
  BY <1>1, <1>2 DEF WorkKept
<1>3. ASSUME NEW d \in Devices, NEW o \in Objs,
             Change(d, o) \/ Add(d, o) \/ Delete(d, o)
      PROVE  IInv' /\ WorkKept
  <2>1. /\ IInv'
        /\ \/ tomb' # tomb
           \/ \A e \in Devices, p \in Objs : file'[e][p] >= file[e][p]
    BY <1>3, UserIInv
  <2>2. \A e \in Devices, p \in Objs : file'[e][p] \in Nat
    BY <2>1 DEF IInv, TypeOK, Ids
  <2> QED BY <1>1, <2>1, <2>2 DEF WorkKept
<1>4. ASSUME NEW d \in Devices, StartSync(d) PROVE IInv' /\ WorkKept
  BY <1>2, <1>4, StartIInv DEF StartSync, mapVars
<1>5. ASSUME NEW d \in Devices, Publish(d) PROVE IInv' /\ WorkKept
  BY <1>2, <1>5, PublishIInv DEF Publish, mapVars
<1>6. ASSUME NEW d \in Devices, Rejected(d) \/ BreakOff(d)
      PROVE  IInv' /\ WorkKept
  <2>1. /\ job' = [job EXCEPT ![d] = NoJob] /\ events' \in Nat
        /\ UNCHANGED <<now, graph, written, file, tomb, latest, grec, rec, remote>>
    BY <1>6 DEF Rejected, BreakOff, Event, mapVars, IInv, TypeOK
  <2> QED BY <1>2, <2>1, EndIInv
<1>7. ASSUME NEW d \in Devices, Commit(d) PROVE IInv' /\ WorkKept
  BY <1>7, CommitIInv DEF WorkKept
<1>8. CASE UNCHANGED vars
  <2>1. UNCHANGED <<now, graph, written, file, tomb, latest, grec, rec, remote, job,
                    events>>
    BY <1>8 DEF vars, mapVars
  <2>2. TypeOK' /\ BoundInv' /\ TimeInv' /\ RoundInv' /\ MembersHaveFiles'
    BY <2>1 DEF IInv, TypeOK, BoundInv, TimeInv, RoundInv, MembersHaveFiles, Members
  <2>3. SharedInv'
    BY <2>1 DEF IInv, SharedInv, Shared, Deleted, Content, Live, Members
  <2> QED BY <1>2, <2>1, <2>2, <2>3 DEF IInv
<1> QED BY <1>3, <1>4, <1>5, <1>6, <1>7, <1>8 DEF Next, Round

-----------------------------------------------------------------------------
(* The theorems.                                                           *)

\* The invariant holds in every state.
THEOREM Invariance == Spec => []IInv
<1>1. Init => IInv
  BY InitIInv
<1>2. IInv /\ [Next]_vars => IInv'
  BY StepIInv
<1> QED BY <1>1, <1>2, PTL DEF Spec

\* The members of a device's map are always the objects it has files of, so
\* the map opens after any commit (check_member_object_consistency).
THEOREM MembersHaveFilesHolds == Spec => []MembersHaveFiles
<1>1. IInv => MembersHaveFiles
  BY DEF IInv
<1> QED BY <1>1, Invariance, PTL

\* The last change of an object that all devices shared stands on a device as
\* long as no user deletes it (merge_starmap_object_with_versions).
THEOREM LastEditStandsHolds == Spec => []LastEditStands
<1>1. IInv => LastEditStands
  BY DEF IInv, SharedInv, LastEditStands, Shared
<1> QED BY <1>1, Invariance, PTL

\* A commit takes nothing a user wrote since its round started, but for a later
\* change or deletion that the round brings (compute_commit_plan).
THEOREM WorkInRoundKeptHolds == Spec => WorkInRoundKept
<1>1. IInv /\ [Next]_vars => [WorkKept]_vars
  BY StepIInv
<1>2. Spec => [][WorkKept]_vars
  BY <1>1, Invariance, PTL DEF Spec
<1> QED BY <1>2 DEF WorkInRoundKept, WorkKept

-----------------------------------------------------------------------------
(***************************************************************************)
(* StarMapStore.                                                           *)
(***************************************************************************)
\* The places of a process, and the types.
Places == {"off", "boot", "bootMark", "bootMeta", "bootClear", "idle", "load",
           "open", "changed", "write", "plan", "move", "bury", "mark", "meta",
           "markMeta", "clear", "flushed", "applied", "failed"}
MetaType == [rev : Nat, members : SUBSET Nodes, log : SUBSET Nodes]
JournalType == [phase : {"none", "Planned", "Tombstoned", "GraphMetaWritten"},
                objs : SUBSET Nodes]
TxnType == [phase : {"none", "prepared", "applied"}, paths : SUBSET Nodes,
            had : SUBSET Nodes, graph : BOOLEAN, meta : MetaType]
StoreType == [loaded : BOOLEAN, nodes : SUBSET Nodes, dirty : SUBSET Nodes,
              deleted : SUBSET Nodes, dirtyMeta : BOOLEAN, meta : MetaType]
FlushType == [op : BOOLEAN, todo : SUBSET Nodes, put : SUBSET Nodes,
              objs : SUBSET Nodes, left : SUBSET Nodes, sent : SUBSET Nodes,
              failed : BOOLEAN, adds : SUBSET Nodes, dels : SUBSET Nodes]

\* The types.
StoreTypes ==
  /\ files \subseteq Nodes /\ tombs \subseteq Nodes /\ known \subseteq Nodes
  /\ meta \in MetaType /\ journal \in JournalType /\ txn \in TxnType
  /\ holder \in Procs \cup {None}
  /\ mem \in [Procs -> StoreType] /\ flush \in [Procs -> FlushType]
  /\ pc \in [Procs -> Places]
  /\ asked \subseteq Nodes /\ added \subseteq Nodes /\ deleted \subseteq Nodes
  /\ used \subseteq Nodes /\ ops \in Nat
  /\ faults \in 0..MaxFaults /\ crashes \in 0..MaxCrashes

-----------------------------------------------------------------------------
(* Types.                                                                  *)

\* The empty values have their types.
LEMMA EmptyTypes ==
  /\ NoTxn.meta \in MetaType /\ NoTxn \in TxnType /\ NoJournal \in JournalType
  /\ NoStore \in StoreType /\ Idle \in FlushType
<1>1. NoTxn.meta \in MetaType
  BY DEF NoTxn, MetaType
<1> QED BY <1>1 DEF NoTxn, TxnType, NoJournal, JournalType, NoStore, StoreType,
                    Idle, FlushType

\* The fields of what a process keeps.
LEMMA ProcTypes ==
  ASSUME StoreTypes, NEW p \in Procs
  PROVE  /\ flush[p] \in FlushType /\ mem[p] \in StoreType
         /\ flush[p].op \in BOOLEAN /\ flush[p].failed \in BOOLEAN
         /\ flush[p].todo \subseteq Nodes /\ flush[p].put \subseteq Nodes
         /\ flush[p].objs \subseteq Nodes /\ flush[p].left \subseteq Nodes
         /\ flush[p].sent \subseteq Nodes
         /\ flush[p].adds \subseteq Nodes /\ flush[p].dels \subseteq Nodes
         /\ mem[p].loaded \in BOOLEAN /\ mem[p].dirtyMeta \in BOOLEAN
         /\ mem[p].nodes \subseteq Nodes /\ mem[p].dirty \subseteq Nodes
         /\ mem[p].deleted \subseteq Nodes /\ mem[p].meta \in MetaType
<1>1. flush[p] \in FlushType /\ mem[p] \in StoreType
  BY DEF StoreTypes
<1>2. /\ flush[p].op \in BOOLEAN /\ flush[p].failed \in BOOLEAN
      /\ flush[p].todo \subseteq Nodes /\ flush[p].put \subseteq Nodes
      /\ flush[p].objs \subseteq Nodes /\ flush[p].left \subseteq Nodes
      /\ flush[p].sent \subseteq Nodes
      /\ flush[p].adds \subseteq Nodes /\ flush[p].dels \subseteq Nodes
  BY <1>1 DEF FlushType
<1>3. /\ mem[p].loaded \in BOOLEAN /\ mem[p].dirtyMeta \in BOOLEAN
      /\ mem[p].nodes \subseteq Nodes /\ mem[p].dirty \subseteq Nodes
      /\ mem[p].deleted \subseteq Nodes /\ mem[p].meta \in MetaType
  BY <1>1 DEF StoreType
<1> QED BY <1>1, <1>2, <1>3

\* What one process is given.
LEMMA ProcUpdate ==
  ASSUME StoreTypes, NEW p \in Procs
  PROVE  /\ flush' = [flush EXCEPT ![p] = flush'[p]] /\ flush'[p] \in FlushType
              => flush' \in [Procs -> FlushType]
         /\ mem' = [mem EXCEPT ![p] = mem'[p]] /\ mem'[p] \in StoreType
              => mem' \in [Procs -> StoreType]
BY DEF StoreTypes

\* Two sets of a flush at once.
LEMMA PairUpdate ==
  ASSUME flush \in [Procs -> FlushType], NEW p \in Procs,
         NEW S \in SUBSET Nodes, NEW T \in SUBSET Nodes
  PROVE  /\ [flush EXCEPT ![p].left = S, ![p].sent = T] \in [Procs -> FlushType]
         /\ [flush EXCEPT ![p].todo = S, ![p].put = T] \in [Procs -> FlushType]
         /\ [flush EXCEPT ![p].objs = S, ![p].left = T] \in [Procs -> FlushType]
<1>1. /\ [flush[p] EXCEPT !.left = S, !.sent = T] \in FlushType
      /\ [flush[p] EXCEPT !.todo = S, !.put = T] \in FlushType
      /\ [flush[p] EXCEPT !.objs = S, !.left = T] \in FlushType
  <2>1. [flush[p] EXCEPT !.left = S, !.sent = T] \in FlushType
    BY DEF FlushType
  <2>2. [flush[p] EXCEPT !.todo = S, !.put = T] \in FlushType
    BY DEF FlushType
  <2>3. [flush[p] EXCEPT !.objs = S, !.left = T] \in FlushType
    BY DEF FlushType
  <2> QED BY <2>1, <2>2, <2>3
<1>2. [flush EXCEPT ![p].left = S, ![p].sent = T] \in [Procs -> FlushType]
  BY <1>1
<1>3. [flush EXCEPT ![p].todo = S, ![p].put = T] \in [Procs -> FlushType]
  BY <1>1
<1>4. [flush EXCEPT ![p].objs = S, ![p].left = T] \in [Procs -> FlushType]
  BY <1>1
<1> QED BY <1>2, <1>3, <1>4

\* One set or flag of a flush.
LEMMA FlushFields ==
  ASSUME NEW j \in FlushType, NEW S \in SUBSET Nodes
  PROVE  /\ [j EXCEPT !.op = TRUE] \in FlushType
         /\ [j EXCEPT !.failed = TRUE] \in FlushType
         /\ [j EXCEPT !.todo = S] \in FlushType
         /\ [j EXCEPT !.left = S] \in FlushType
         /\ [j EXCEPT !.adds = S] \in FlushType
         /\ [j EXCEPT !.dels = S] \in FlushType
<1>1. [j EXCEPT !.op = TRUE] \in FlushType /\ [j EXCEPT !.failed = TRUE] \in FlushType
  BY DEF FlushType
<1>2. [j EXCEPT !.todo = S] \in FlushType /\ [j EXCEPT !.left = S] \in FlushType
  BY DEF FlushType
<1>3. [j EXCEPT !.adds = S] \in FlushType /\ [j EXCEPT !.dels = S] \in FlushType
  BY DEF FlushType
<1> QED BY <1>1, <1>2, <1>3

\* What an operation and the end of a flush change of a store.
LEMMA StoreFields ==
  ASSUME NEW s \in StoreType, NEW S \in SUBSET Nodes, NEW D \in SUBSET Nodes,
         NEW E \in SUBSET Nodes
  PROVE  /\ [s EXCEPT !.nodes = S, !.dirty = D, !.deleted = E, !.dirtyMeta = TRUE] \in StoreType
         /\ [s EXCEPT !.dirty = D, !.deleted = E, !.dirtyMeta = FALSE] \in StoreType
         /\ [s EXCEPT !.dirty = D, !.dirtyMeta = TRUE] \in StoreType
<1>1. [s EXCEPT !.nodes = S, !.dirty = D, !.deleted = E, !.dirtyMeta = TRUE] \in StoreType
  BY DEF StoreType
<1>2. [s EXCEPT !.dirty = D, !.deleted = E, !.dirtyMeta = FALSE] \in StoreType
  BY DEF StoreType
<1>3. [s EXCEPT !.dirty = D, !.dirtyMeta = TRUE] \in StoreType
  BY DEF StoreType
<1> QED BY <1>1, <1>2, <1>3

\* The same for one process of all.
LEMMA FlushUpdate ==
  ASSUME StoreTypes, NEW p \in Procs, NEW S \in SUBSET Nodes
  PROVE  /\ [flush EXCEPT ![p].op = TRUE] \in [Procs -> FlushType]
         /\ [flush EXCEPT ![p].failed = TRUE] \in [Procs -> FlushType]
         /\ [flush EXCEPT ![p].todo = S] \in [Procs -> FlushType]
         /\ [flush EXCEPT ![p].left = S] \in [Procs -> FlushType]
         /\ [flush EXCEPT ![p].adds = S] \in [Procs -> FlushType]
         /\ [flush EXCEPT ![p].dels = S] \in [Procs -> FlushType]
<1>1. flush \in [Procs -> FlushType] /\ flush[p] \in FlushType
  BY DEF StoreTypes
<1>2. /\ [flush EXCEPT ![p].op = TRUE] \in [Procs -> FlushType]
      /\ [flush EXCEPT ![p].failed = TRUE] \in [Procs -> FlushType]
  BY <1>1, FlushFields
<1>3. /\ [flush EXCEPT ![p].todo = S] \in [Procs -> FlushType]
      /\ [flush EXCEPT ![p].left = S] \in [Procs -> FlushType]
  BY <1>1, FlushFields
<1>4. /\ [flush EXCEPT ![p].adds = S] \in [Procs -> FlushType]
      /\ [flush EXCEPT ![p].dels = S] \in [Procs -> FlushType]
  BY <1>1, FlushFields
<1> QED BY <1>2, <1>3, <1>4

\* A file moved to the trash.
LEMMA MoveFileTypes ==
  ASSUME StoreTypes, NEW p \in Procs, NEW n \in Nodes, MoveFile(p, n)
  PROVE  files' \subseteq Nodes /\ flush' \in [Procs -> FlushType]
<1>1. flush[p].left \ {n} \in SUBSET Nodes /\ flush[p].sent \cup {n} \in SUBSET Nodes
  BY ProcTypes
<1>2. flush' = [flush EXCEPT ![p].left = flush[p].left \ {n},
                             ![p].sent = flush[p].sent \cup {n}]
  BY DEF MoveFile
<1>3. flush' \in [Procs -> FlushType]
  BY <1>1, <1>2, PairUpdate DEF StoreTypes
<1> QED BY <1>3 DEF MoveFile, StoreTypes

\* Whoever lets the lock go is idle.
LEMMA LeaveTypes ==
  ASSUME StoreTypes, NEW p \in Procs, Leave(p)
  PROVE  /\ holder' = None /\ pc' \in [Procs -> Places]
         /\ flush' \in [Procs -> FlushType]
BY EmptyTypes DEF Leave, Goto, StoreTypes, Places

\* The recovery of a transaction.
LEMMA SettleTypes ==
  ASSUME StoreTypes, Settle
  PROVE  files' \subseteq Nodes /\ meta' \in MetaType /\ txn' \in TxnType
BY EmptyTypes DEF Settle, StoreTypes, TxnType

\* A step of the start.
LEMMA BootTypes ==
  ASSUME StoreTypes, NEW p \in Procs, Bootstrap(p)
  PROVE  StoreTypes'
<1> USE DEF disk, history, Quiet
<1>1. CASE Start(p)
  <2>1. journal.objs \in SUBSET Nodes
    BY DEF StoreTypes, JournalType
  <2>2. flush' \in [Procs -> FlushType]
    BY <1>1, <2>1, FlushUpdate DEF Start
  <2> QED BY <1>1, <2>2, SettleTypes DEF Start, Take, Goto, StoreTypes, Places
<1>2. CASE RebuildTombs(p)
  BY <1>2 DEF RebuildTombs, Goto, StoreTypes, Places, JournalType
<1>3. CASE MarkReplayed(p)
  BY <1>3 DEF MarkReplayed, Goto, StoreTypes, Places, JournalType
<1>4. CASE PatchMeta(p)
  BY <1>4 DEF PatchMeta, Goto, StoreTypes, Places, JournalType, MetaType
<1>5. CASE Started(p)
  BY <1>5, LeaveTypes, EmptyTypes DEF Started, StoreTypes
<1>6. ASSUME NEW n \in Nodes, Replay(p, n) PROVE StoreTypes'
  BY <1>6, MoveFileTypes DEF Replay, MoveFile, StoreTypes
<1> QED BY <1>1, <1>2, <1>3, <1>4, <1>5, <1>6 DEF Bootstrap

\* A step of an operation.
LEMMA OperationTypes ==
  ASSUME StoreTypes, NEW p \in Procs, Operation(p)
  PROVE  StoreTypes'
<1> USE DEF disk, history, Quiet
<1>1. CASE Open(p)
  <2>2. flush' \in [Procs -> FlushType]
    BY <1>1, FlushUpdate DEF Open
  <2> QED BY <1>1, <2>2, SettleTypes DEF Open, Take, Goto, StoreTypes, Places
<1>2. CASE Load(p)
  <2>1. mem' \in [Procs -> StoreType]
    <3>1. [NoStore EXCEPT !.loaded = TRUE, !.nodes = meta.members, !.meta = meta]
            \in StoreType
      BY EmptyTypes DEF NoStore, StoreType, StoreTypes, MetaType
    <3> QED BY <1>2, <3>1 DEF Load, StoreTypes
  <2> QED BY <1>2, <2>1, LeaveTypes DEF Load, Goto, StoreTypes, Places
<1>3. CASE Refuse(p)
  BY <1>3, LeaveTypes DEF Refuse, StoreTypes
<1>4. ASSUME NEW n \in Nodes, AddNode(p, n) PROVE StoreTypes'
  <2>1. {n} \in SUBSET Nodes /\ flush' = [flush EXCEPT ![p].adds = {n}]
    BY <1>4 DEF AddNode
  <2>3. flush' \in [Procs -> FlushType]
    BY <2>1, FlushUpdate
  <2> DEFINE m == [mem[p] EXCEPT !.nodes = @ \cup {n}, !.dirty = @ \cup {n},
                                 !.deleted = @ \ {n}, !.dirtyMeta = TRUE]
  <2>4. m \in StoreType
    <3>1. /\ mem[p].nodes \cup {n} \in SUBSET Nodes /\ mem[p].dirty \cup {n} \in SUBSET Nodes
          /\ mem[p].deleted \ {n} \in SUBSET Nodes
      BY ProcTypes
    <3>2. mem[p] \in StoreType
      BY ProcTypes
    <3> QED BY <3>1, <3>2, StoreFields
  <2>5. mem' = [mem EXCEPT ![p] = m]
    BY <1>4 DEF AddNode, StoreTypes
  <2>6. mem' \in [Procs -> StoreType]
    BY <2>4, <2>5 DEF StoreTypes
  <2> QED BY <1>4, <2>3, <2>6 DEF AddNode, Changing, Goto, StoreTypes, Places
<1>5. ASSUME NEW n \in Nodes, MoveNode(p, n) PROVE StoreTypes'
  <2>1. mem'[p] \in StoreType
    <3>1. mem'[p] = [mem[p] EXCEPT !.dirty = mem[p].dirty \cup {n}, !.dirtyMeta = TRUE]
      BY <1>5 DEF MoveNode, StoreTypes
    <3>2. mem[p].dirty \cup {n} \in SUBSET Nodes /\ mem[p] \in StoreType
      BY ProcTypes
    <3> QED BY <3>1, <3>2, StoreFields
  <2>2. mem' \in [Procs -> StoreType]
    BY <1>5, <2>1 DEF MoveNode, Changing, StoreTypes
  <2> QED BY <1>5, <2>2 DEF MoveNode, Changing, Goto, StoreTypes, Places
<1>6. ASSUME NEW S \in SUBSET Nodes, DeleteNodes(p, S) PROVE StoreTypes'
  <2>2. flush' \in [Procs -> FlushType]
    BY <1>6, FlushUpdate DEF DeleteNodes
  <2>3. mem'[p] \in StoreType
    <3>1. mem'[p] = [mem[p] EXCEPT !.nodes = mem[p].nodes \ S, !.dirty = mem[p].dirty \ S,
                                   !.deleted = mem[p].deleted \cup S, !.dirtyMeta = TRUE]
      BY <1>6 DEF DeleteNodes, StoreTypes
    <3>2. /\ mem[p].nodes \ S \in SUBSET Nodes /\ mem[p].dirty \ S \in SUBSET Nodes
          /\ mem[p].deleted \cup S \in SUBSET Nodes /\ mem[p] \in StoreType
      BY ProcTypes
    <3>3. [mem[p] EXCEPT !.nodes = mem[p].nodes \ S, !.dirty = mem[p].dirty \ S,
                         !.deleted = mem[p].deleted \cup S, !.dirtyMeta = TRUE] \in StoreType
      BY <3>2, StoreFields
    <3> QED BY <3>1, <3>3
  <2>4. mem' \in [Procs -> StoreType]
    BY <1>6, <2>3 DEF DeleteNodes, Changing, StoreTypes
  <2> QED BY <1>6, <2>2, <2>4 DEF DeleteNodes, Changing, Goto, StoreTypes, Places
<1>7. CASE Register(p)
  <2>1. mem[p].dirty \in SUBSET Nodes
    BY ProcTypes
  <2>2. flush' \in [Procs -> FlushType]
    BY <1>7, <2>1, FlushUpdate DEF Register
  <2>3. txn' \in TxnType
    BY <1>7, ProcTypes DEF Register, StoreTypes, TxnType
  <2> QED BY <1>7, <2>2, <2>3 DEF Register, Goto, StoreTypes, Places
<1>8. CASE FlushDirectly(p)
  <2>1. mem[p].dirty \in SUBSET Nodes
    BY ProcTypes
  <2>2. flush' \in [Procs -> FlushType]
    BY <1>8, <2>1, FlushUpdate DEF FlushDirectly
  <2> QED BY <1>8, <2>2, SettleTypes DEF FlushDirectly, Take, Goto, StoreTypes, Places
<1>9. CASE Apply(p)
  <2>1. /\ flush[p].adds \subseteq Nodes /\ flush[p].dels \subseteq Nodes
        /\ [txn EXCEPT !.phase = "applied"] \in TxnType
    BY ProcTypes DEF StoreTypes, TxnType
  <2>2. CASE flush[p].op
    BY <1>9, <2>1, <2>2 DEF Apply, Goto, StoreTypes, Places
  <2>3. CASE ~flush[p].op
    BY <1>9, <2>3, LeaveTypes DEF Apply, StoreTypes
  <2> QED BY <2>2, <2>3
<1>10. CASE Answer(p)
  BY <1>10, LeaveTypes, EmptyTypes DEF Answer, StoreTypes
<1> QED BY <1>1, <1>2, <1>3, <1>4, <1>5, <1>6, <1>7, <1>8, <1>9, <1>10 DEF Operation

\* graph.json as a flush writes it.
LEMMA MergedType ==
  ASSUME StoreTypes, NEW p \in Procs
  PROVE  Merged(p) \in MetaType
BY DEF Merged, StoreTypes, MetaType, StoreType

\* The store after a flush.
LEMMA FlushedType ==
  ASSUME StoreTypes, NEW p \in Procs, Flushed(p)
  PROVE  mem'[p] \in StoreType
<1>1. mem'[p] = [mem[p] EXCEPT !.dirty = mem[p].dirty \ flush[p].put,
                               !.deleted = mem[p].deleted \ flush[p].sent,
                               !.dirtyMeta = FALSE]
  BY DEF Flushed, StoreTypes
<1>2. /\ mem[p].dirty \ flush[p].put \in SUBSET Nodes /\ mem[p] \in StoreType
      /\ mem[p].deleted \ flush[p].sent \in SUBSET Nodes
  BY ProcTypes
<1>3. [mem[p] EXCEPT !.dirty = mem[p].dirty \ flush[p].put,
                     !.deleted = mem[p].deleted \ flush[p].sent,
                     !.dirtyMeta = FALSE] \in StoreType
  BY <1>2, StoreFields
<1> QED BY <1>1, <1>3

\* A step of a flush.
LEMMA FlushTypes ==
  ASSUME StoreTypes, NEW p \in Procs, FlushStep(p)
  PROVE  StoreTypes'
<1> USE DEF disk, history, Quiet
<1>1. ASSUME NEW n \in Nodes, WriteFile(p, n) PROVE StoreTypes'
  <2>1. /\ flush[p].todo \ {n} \in SUBSET Nodes
        /\ flush[p].put \cup {n} \in SUBSET Nodes
    BY ProcTypes
  <2>2. flush' = [flush EXCEPT ![p].todo = flush[p].todo \ {n},
                               ![p].put = flush[p].put \cup {n}]
    BY <1>1 DEF WriteFile
  <2>3. flush' \in [Procs -> FlushType]
    BY <2>1, <2>2, PairUpdate DEF StoreTypes
  <2> QED BY <1>1, <2>3 DEF WriteFile, StoreTypes
<1>2. ASSUME NEW n \in Nodes, Trash(p, n) PROVE StoreTypes'
  BY <1>2, MoveFileTypes DEF Trash, MoveFile, StoreTypes
<1>3. CASE Written(p)
  BY <1>3 DEF Written, Goto, StoreTypes, Places
<1>4. CASE Plan(p)
  <2>1. journal' \in JournalType
    BY <1>4 DEF Plan, StoreTypes, JournalType, StoreType
  <2>2. journal'.objs \in SUBSET Nodes
    BY <2>1 DEF JournalType
  <2>3. flush' \in [Procs -> FlushType]
    BY <1>4, <2>2, PairUpdate DEF Plan, StoreTypes
  <2> QED BY <1>4, <2>1, <2>3 DEF Plan, Goto, StoreTypes, Places
<1>5. CASE Trashed(p)
  BY <1>5 DEF Trashed, Goto, StoreTypes, Places
<1>6. CASE Bury(p)
  BY <1>6 DEF Bury, Goto, StoreTypes, Places, FlushType
<1>7. CASE Mark(p)
  BY <1>7 DEF Mark, Goto, StoreTypes, Places, JournalType
<1>8. CASE WriteMeta(p)
  <2>1. mem'[p] \in StoreType
    BY <1>8, ProcTypes, MergedType DEF WriteMeta, StoreTypes, StoreType
  <2>2. mem' \in [Procs -> StoreType]
    BY <1>8, <2>1 DEF WriteMeta, StoreTypes
  <2> QED BY <1>8, <2>2, MergedType DEF WriteMeta, Goto, StoreTypes, Places
<1>9. CASE MarkMeta(p)
  BY <1>9 DEF MarkMeta, Goto, StoreTypes, Places, JournalType
<1>10. CASE Clear(p)
  <2>1. mem'[p] \in StoreType
    BY <1>10, FlushedType DEF Clear
  <2>2. mem' \in [Procs -> StoreType]
    BY <1>10, <2>1 DEF Clear, Flushed, StoreTypes
  <2> QED BY <1>10, <2>2, EmptyTypes DEF Clear, Flushed, Goto, StoreTypes, Places
<1>11. CASE FlushFails(p)
  BY <1>11, EmptyTypes, SettleTypes, LeaveTypes DEF FlushFails, StoreTypes
<1> QED BY <1>1, <1>2, <1>3, <1>4, <1>5, <1>6, <1>7, <1>8, <1>9, <1>10, <1>11 DEF FlushStep

\* A step that fails.
LEMMA FailTypes ==
  ASSUME StoreTypes, NEW p \in Procs, StepFails(p)
  PROVE  StoreTypes'
<1> USE DEF disk, history, Quiet
<1>1. faults' \in 0..MaxFaults /\ UNCHANGED <<crashes, history>>
  BY StoreAssumption DEF StepFails, StoreTypes
<1>2. CASE pc[p] \in Starting \/ At(p, "changed")
  BY <1>1, <1>2, LeaveTypes DEF StepFails, At, StoreTypes, Starting
<1>3. CASE At(p, "write")
  <2>1. flush' = [flush EXCEPT ![p].failed = TRUE]
    BY <1>3 DEF StepFails, At, Starting
  <2>3. flush' \in [Procs -> FlushType]
    BY <2>1, FlushUpdate
  <2> QED BY <1>1, <1>3, <2>3 DEF StepFails, At, Starting, Goto, StoreTypes, Places
<1>4. CASE At(p, "clear")
  <2>1. Flushed(p) /\ UNCHANGED <<holder, flush, disk>>
    BY <1>4 DEF StepFails, At, Starting
  <2>2. mem'[p] \in StoreType
    BY <2>1, FlushedType
  <2>3. mem' \in [Procs -> StoreType]
    BY <2>1, <2>2 DEF Flushed, StoreTypes
  <2> QED BY <1>1, <2>1, <2>3 DEF Flushed, Goto, StoreTypes, Places
<1>5. CASE At(p, "flushed")
  BY <1>1, <1>5, LeaveTypes, SettleTypes DEF StepFails, At, Starting, StoreTypes
<1>6. CASE pc[p] \notin Starting \union {"changed", "write", "clear", "flushed"}
  <2>1. /\ flush' = [flush EXCEPT ![p].failed = TRUE]
        /\ Goto(p, "failed") /\ UNCHANGED <<holder, mem, disk>>
    BY <1>6 DEF StepFails, At
  <2>3. flush' \in [Procs -> FlushType]
    BY <2>1, FlushUpdate
  <2> QED BY <1>1, <2>1, <2>3 DEF Goto, StoreTypes, Places
<1> QED BY <1>2, <1>3, <1>4, <1>5, <1>6 DEF At

\* The types are kept.
LEMMA StoreTypesStep == StoreTypes /\ [StoreNext]_storeVars => StoreTypes'
<1> SUFFICES ASSUME StoreTypes, [StoreNext]_storeVars PROVE StoreTypes'
  OBVIOUS
<1> USE DEF disk, history, Quiet
<1>1. CASE UNCHANGED storeVars
  BY <1>1 DEF storeVars, StoreTypes
<1>2. ASSUME NEW p \in Procs, Forget(p) PROVE StoreTypes'
  BY <1>2, EmptyTypes DEF Forget, StoreTypes
<1>3. ASSUME NEW p \in Procs, Sync(p) PROVE StoreTypes'
  BY <1>3, SettleTypes DEF Sync, StoreTypes
<1>4. ASSUME NEW p \in Procs, Crash(p) PROVE StoreTypes'
  BY <1>4, EmptyTypes, StoreAssumption DEF Crash, Goto, StoreTypes, Places
<1> QED BY <1>1, <1>2, <1>3, <1>4, BootTypes, OperationTypes, FlushTypes, FailTypes
        DEF StoreNext

-----------------------------------------------------------------------------
(* Deletions are told.                                                     *)

\* What a recovery would make of the files.
Restored == IF txn.phase = "prepared" THEN (files \ txn.paths) \cup txn.had
            ELSE files

\* The deletions that the synchronisation knows of or will hear of.
Told == tombs \cup journal.objs

\* Where an operation has no journal of its own, and what every place says of
\* the journal.
Early == {"off", "idle", "load", "open", "changed", "write", "plan"}

\* What every place says of the journal and of the lock.
Held(p) ==
  /\ pc[p] \notin {"off", "idle"} => holder = p
  /\ pc[p] \in {"off", "idle"} => flush[p] = Idle
  /\ pc[p] \in Early => flush[p].objs = {}
  /\ pc[p] \in {"boot", "move"} => flush[p].left \subseteq journal.objs
  /\ pc[p] \in {"move", "bury", "mark"} => flush[p].objs = journal.objs
  /\ pc[p] \in {"mark", "meta", "markMeta", "clear"} =>
       flush[p].objs \subseteq tombs
  /\ pc[p] \in {"meta", "markMeta", "clear"} =>
       flush[p].objs = {} \/ flush[p].objs = journal.objs
  /\ pc[p] \in {"bootMark", "bootMeta", "bootClear"} =>
       journal.objs \subseteq tombs

\* The deaths are told, as the files are and as a recovery would leave them.
ToldInv ==
  /\ \A p \in Procs : Held(p)
  /\ known \ files \subseteq Told
  /\ known \ Restored \subseteq Told

\* What one process does.
Step(p) == \/ Operation(p) \/ FlushStep(p) \/ Bootstrap(p) \/ StepFails(p)
           \/ Forget(p) \/ Sync(p) \/ Crash(p)

\* What a process does when it has not got the lock.
Outside(p) == Start(p) \/ Open(p) \/ FlushDirectly(p) \/ Sync(p)

\* A process is all that its steps change of the processes.
LEMMA OthersSame ==
  ASSUME StoreTypes, NEW p \in Procs, Step(p), NEW q \in Procs, q # p
  PROVE  pc'[q] = pc[q] /\ flush'[q] = flush[q] /\ mem'[q] = mem[q]
<1> USE DEF history, Leave, Goto
<1>0. /\ pc \in [Procs -> Places] /\ flush \in [Procs -> FlushType]
      /\ mem \in [Procs -> StoreType]
  BY DEF StoreTypes
<1>1. CASE Operation(p)
  <2>1. CASE \/ Open(p) \/ Load(p) \/ Refuse(p) \/ Register(p)
             \/ FlushDirectly(p) \/ Apply(p) \/ Answer(p)
    BY <1>0, <2>1 DEF Open, Load, Refuse, Register, FlushDirectly, Apply, Answer
  <2>2. CASE \E n \in Nodes : AddNode(p, n) \/ MoveNode(p, n)
    BY <1>0, <2>2 DEF AddNode, MoveNode, Changing
  <2>3. CASE \E S \in SUBSET Nodes : DeleteNodes(p, S)
    BY <1>0, <2>3 DEF DeleteNodes, Changing
  <2> QED BY <1>1, <2>1, <2>2, <2>3 DEF Operation
<1>2. CASE FlushStep(p)
  <2>1. CASE \E n \in Nodes : WriteFile(p, n) \/ Trash(p, n)
    BY <1>0, <2>1 DEF WriteFile, Trash, MoveFile
  <2>2. CASE Plan(p)
    BY <1>0, <2>2 DEF Plan
  <2>3. CASE \/ Written(p) \/ Trashed(p) \/ Bury(p) \/ Mark(p)
             \/ WriteMeta(p) \/ MarkMeta(p) \/ Clear(p) \/ FlushFails(p)
    BY <1>0, <2>3 DEF Written, Trashed, Bury, Mark, WriteMeta, MarkMeta, Clear,
                      Flushed, FlushFails
  <2> QED BY <1>2, <2>1, <2>2, <2>3 DEF FlushStep
<1>3. CASE Bootstrap(p)
  BY <1>0, <1>3 DEF Bootstrap, Start, RebuildTombs, MarkReplayed, PatchMeta, Started,
                    Replay, MoveFile
<1>4. CASE StepFails(p)
  <2>1. CASE \/ pc[p] \in Starting
             \/ At(p, "write") \/ At(p, "clear") \/ At(p, "changed") \/ At(p, "flushed")
    BY <1>0, <1>4, <2>1 DEF StepFails, Flushed, At, Starting
  <2>2. CASE pc[p] \notin Starting \union {"changed", "write", "clear", "flushed"}
    <3>1. /\ flush' = [flush EXCEPT ![p].failed = TRUE]
          /\ Goto(p, "failed") /\ UNCHANGED mem
      BY <1>4, <2>2 DEF StepFails, At
    <3> QED BY <1>0, <3>1
  <2> QED BY <2>1, <2>2 DEF At
<1>5. CASE Forget(p) \/ Sync(p) \/ Crash(p)
  BY <1>0, <1>5 DEF Forget, Sync, Crash
<1> QED BY <1>1, <1>2, <1>3, <1>4, <1>5 DEF Step

\* Who has not got the lock waits for it or leaves the disk alone.
LEMMA HolderActs ==
  ASSUME StoreTypes, ToldInv, NEW p \in Procs, Step(p)
  PROVE  \/ holder = p
         \/ holder = None
         \/ UNCHANGED <<disk, holder>>
<1>1. CASE pc[p] \notin {"off", "idle"}
  BY <1>1 DEF ToldInv, Held
<1>2. CASE pc[p] = "off"
  BY <1>2 DEF Step, Operation, FlushStep, Bootstrap, Open, Load, Refuse, Register,
     FlushDirectly, Apply, Answer, AddNode, MoveNode, DeleteNodes, Changing,
     WriteFile, Trash, Plan, Written, Trashed, Bury, Mark, WriteMeta, MarkMeta, Clear,
     FlushFails, Start, RebuildTombs, MarkReplayed, PatchMeta, Started, Replay, Take,
     StepFails, Forget, Sync, Crash, At, Steps, Starting, StoreAssumption
<1>3. CASE pc[p] = "idle"
  BY <1>3, StoreAssumption DEF Step, Operation, FlushStep, Bootstrap, Open, Load, Refuse,
                             Register,
     FlushDirectly, Apply, Answer, AddNode, MoveNode, DeleteNodes, Changing,
     WriteFile, Trash, Plan, Written, Trashed, Bury, Mark, WriteMeta, MarkMeta, Clear,
     FlushFails, Start, RebuildTombs, MarkReplayed, PatchMeta, Started, Replay, Take,
     StepFails, Forget, Sync, Crash, At, Steps, Starting
<1> QED BY <1>1, <1>2, <1>3

\* So the others' places are not disturbed.
LEMMA HeldByOthers ==
  ASSUME StoreTypes, ToldInv, NEW p \in Procs, Step(p), NEW q \in Procs, q # p
  PROVE  Held(q)'
<1>1. pc'[q] = pc[q] /\ flush'[q] = flush[q]
  BY OthersSame
<1>2. CASE pc[q] \in {"off", "idle"}
  <2>1. flush[q].objs = {}
    BY <1>2 DEF ToldInv, Held, Idle
  <2> QED BY <1>1, <1>2, <2>1 DEF ToldInv, Held
<1>3. CASE pc[q] \notin {"off", "idle"}
  <2>1. holder = q /\ holder # None
    BY <1>3, StoreAssumption DEF ToldInv, Held
  <2>2. UNCHANGED <<disk, holder>>
    BY <2>1, HolderActs
  <2> QED BY <1>1, <2>2 DEF ToldInv, Held, disk
<1> QED BY <1>2, <1>3

\* The recovery of a transaction: what it restores has been told of.
LEMMA SettleTold ==
  ASSUME StoreTypes, ToldInv, Settle, UNCHANGED <<known, journal, tombs>>
  PROVE  /\ files' = Restored /\ txn'.phase # "prepared"
         /\ known' \ files' \subseteq Told' /\ known' \ Restored' \subseteq Told'
<1>1. txn' = NoTxn /\ files' = Restored
  BY DEF Settle, Restored
<1>2. Restored' = files'
  BY <1>1 DEF Restored, NoTxn
<1> QED BY <1>1, <1>2 DEF ToldInv, Told, NoTxn

\* A file moved to the trash is one the journal names.
LEMMA MoveFileTold ==
  ASSUME StoreTypes, ToldInv, NEW p \in Procs, NEW n \in Nodes, MoveFile(p, n),
         pc[p] \in {"boot", "move"}, UNCHANGED <<pc, holder>>
  PROVE  /\ Held(p)' /\ known' \ files' \subseteq Told'
         /\ known' \ Restored' \subseteq Told'
<1>1. n \in journal.objs
  BY DEF MoveFile, ToldInv, Held
<1>2. /\ flush'[p].left = flush[p].left \ {n} /\ flush'[p].objs = flush[p].objs
  BY DEF MoveFile, StoreTypes, FlushType
<1>3. Held(p)'
  BY <1>2 DEF MoveFile, ToldInv, Held, Early
<1>4. Restored \ {n} \subseteq Restored'
  BY DEF MoveFile, Restored
<1> QED BY <1>1, <1>3, <1>4 DEF MoveFile, ToldInv, Told

\* A step that leaves the files and what is told of alone, or adds to it.
LEMMA QuietTold ==
  ASSUME ToldInv, known' = known, files \subseteq files', Told \subseteq Told',
         UNCHANGED txn
  PROVE  /\ known' \ files' \subseteq Told' /\ known' \ Restored' \subseteq Told'
<1>1. Restored \subseteq Restored'
  BY DEF Restored
<1> QED BY <1>1 DEF ToldInv

\* A step of the start.
LEMMA BootTold ==
  ASSUME StoreTypes, ToldInv, NEW p \in Procs, Bootstrap(p)
  PROVE  /\ Held(p)' /\ known' \ files' \subseteq Told'
         /\ known' \ Restored' \subseteq Told'
<1> USE DEF disk, history, Quiet, At
<1>0. Held(p) /\ pc \in [Procs -> Places] /\ flush \in [Procs -> FlushType]
  BY DEF ToldInv, StoreTypes
<1>1. CASE Start(p)
  <2>1. pc'[p] = "boot" /\ flush'[p].left = journal.objs
    BY <1>0, <1>1 DEF Start, Goto, FlushType
  <2>2. Held(p)'
    BY <1>1, <2>1 DEF Held, Start, Take, Early
  <2> QED BY <1>1, <2>2, SettleTold DEF Start, Take
<1>2. CASE RebuildTombs(p)
  <2>1. pc'[p] = "bootMark" /\ journal' = journal /\ holder' = holder
    BY <1>0, <1>2 DEF RebuildTombs, Goto
  <2>2. Held(p)'
    BY <1>0, <1>2, <2>1 DEF Held, RebuildTombs, Early
  <2> QED BY <1>2, <2>2, QuietTold DEF RebuildTombs, Told
<1>3. CASE MarkReplayed(p)
  <2>1. pc'[p] \in {"bootMeta", "bootClear"} /\ journal'.objs = journal.objs /\ holder' = holder
    BY <1>0, <1>3 DEF MarkReplayed, Goto, StoreTypes, JournalType
  <2>2. Held(p)'
    BY <1>0, <1>3, <2>1 DEF Held, MarkReplayed, Early
  <2> QED BY <1>3, <2>1, <2>2, QuietTold DEF MarkReplayed, Told
<1>4. CASE PatchMeta(p)
  <2>1. pc'[p] = "bootClear" /\ journal' = journal /\ holder' = holder
    BY <1>0, <1>4 DEF PatchMeta, Goto
  <2>2. Held(p)'
    BY <1>0, <1>4, <2>1 DEF Held, PatchMeta, Early
  <2> QED BY <1>4, <2>2, QuietTold DEF PatchMeta, Told
<1>5. CASE Started(p)
  <2>1. pc'[p] = "idle" /\ flush'[p] = Idle
    BY <1>0, <1>5 DEF Started, Leave, Goto
  <2>2. Held(p)'
    BY <2>1 DEF Held, Early, Idle
  <2>3. journal.objs \subseteq tombs
    BY <1>0, <1>5 DEF Started, Held, NoJournal
  <2> QED BY <1>5, <2>2, <2>3, QuietTold DEF Started, Told, NoJournal
<1>6. ASSUME NEW n \in Nodes, Replay(p, n)
      PROVE  /\ Held(p)' /\ known' \ files' \subseteq Told'
             /\ known' \ Restored' \subseteq Told'
  BY <1>6, MoveFileTold DEF Replay
<1> QED BY <1>1, <1>2, <1>3, <1>4, <1>5, <1>6 DEF Bootstrap

\* A step of an operation.
LEMMA OperationTold ==
  ASSUME StoreTypes, ToldInv, NEW p \in Procs, Operation(p)
  PROVE  /\ Held(p)' /\ known' \ files' \subseteq Told'
         /\ known' \ Restored' \subseteq Told'
<1> USE DEF disk, history, Quiet, At
<1>0. Held(p) /\ pc \in [Procs -> Places] /\ flush \in [Procs -> FlushType]
  BY DEF ToldInv, StoreTypes
<1>1. CASE Open(p)
  <2>1. pc'[p] = "load" /\ flush'[p].objs = flush[p].objs
    BY <1>0, <1>1 DEF Open, Goto, FlushType
  <2>2. Held(p)'
    BY <1>0, <1>1, <2>1 DEF Held, Open, Take, Early
  <2> QED BY <1>1, <2>2, SettleTold DEF Open, Take
<1>2. CASE FlushDirectly(p)
  <2>1. pc'[p] = "write" /\ flush'[p].objs = flush[p].objs
    BY <1>0, <1>2 DEF FlushDirectly, Goto, FlushType
  <2>2. Held(p)'
    BY <1>0, <1>2, <2>1 DEF Held, FlushDirectly, Take, Early
  <2> QED BY <1>2, <2>2, SettleTold DEF FlushDirectly, Take
<1>3. CASE Load(p)
  <2>1. \/ pc'[p] = "open" /\ UNCHANGED <<holder, flush>>
        \/ pc'[p] = "idle" /\ flush'[p] = Idle
    BY <1>0, <1>3 DEF Load, Leave, Goto
  <2>2. Held(p)'
    BY <1>0, <1>3, <2>1 DEF Held, Load, Early, Idle
  <2> QED BY <1>3, <2>2, QuietTold DEF Load, Told
<1>4. CASE Refuse(p)
  <2>1. pc'[p] = "idle" /\ flush'[p] = Idle
    BY <1>0, <1>4 DEF Refuse, Leave, Goto
  <2>2. Held(p)'
    BY <2>1 DEF Held, Early, Idle
  <2> QED BY <1>4, <2>2, QuietTold DEF Refuse, Told
<1>5. CASE \/ \E n \in Nodes : AddNode(p, n) \/ MoveNode(p, n)
           \/ \E S \in SUBSET Nodes : DeleteNodes(p, S)
  <2>1. /\ pc[p] = "open" /\ pc'[p] = "changed" /\ flush'[p].objs = flush[p].objs
        /\ UNCHANGED <<disk, holder>>
    <3>1. ASSUME NEW n \in Nodes, AddNode(p, n) PROVE flush'[p].objs = flush[p].objs
      BY <1>0, <3>1 DEF AddNode, FlushType
    <3>2. ASSUME NEW S \in SUBSET Nodes, DeleteNodes(p, S)
          PROVE  flush'[p].objs = flush[p].objs
      BY <1>0, <3>2 DEF DeleteNodes, FlushType
    <3>3. ASSUME NEW n \in Nodes, MoveNode(p, n) PROVE flush'[p].objs = flush[p].objs
      BY <3>3 DEF MoveNode
    <3>4. flush'[p].objs = flush[p].objs
      BY <1>5, <3>1, <3>2, <3>3
    <3>5. pc[p] = "open" /\ pc'[p] = "changed" /\ UNCHANGED <<disk, holder>>
      BY <1>0, <1>5 DEF AddNode, MoveNode, DeleteNodes, Changing, Goto
    <3> QED BY <3>4, <3>5
  <2>2. Held(p)'
    BY <1>0, <2>1 DEF Held, Early
  <2> QED BY <2>1, <2>2, QuietTold DEF Told
<1>6. CASE Register(p)
  <2>1. pc'[p] = "write" /\ flush'[p].objs = flush[p].objs
    BY <1>0, <1>6 DEF Register, Goto, FlushType
  <2>2. Held(p)'
    BY <1>0, <1>6, <2>1 DEF Held, Register, Early
  <2>3. Restored' = files
    BY <1>6 DEF Register, Restored
  <2> QED BY <1>6, <2>2, <2>3 DEF Register, ToldInv, Told
<1>7. CASE Apply(p)
  <2>1. \/ pc'[p] = "applied" /\ UNCHANGED <<holder, flush>>
        \/ pc'[p] = "idle" /\ flush'[p] = Idle
    BY <1>0, <1>7 DEF Apply, Leave, Goto
  <2>2. Held(p)'
    BY <1>0, <1>7, <2>1 DEF Held, Apply, Early, Idle
  <2>3. txn'.phase = "applied" \/ txn' = txn
    BY <1>7 DEF Apply, StoreTypes, TxnType
  <2>4. Restored' \in {files', Restored}
    BY <1>7, <2>3 DEF Apply, Restored
  <2> QED BY <1>7, <2>2, <2>4 DEF Apply, ToldInv, Told
<1>8. CASE Answer(p)
  <2>1. pc'[p] = "idle" /\ flush'[p] = Idle
    BY <1>0, <1>8 DEF Answer, Leave, Goto
  <2>2. Held(p)'
    BY <2>1 DEF Held, Early, Idle
  <2>3. Restored' = files'
    BY <1>8 DEF Answer, Restored, NoTxn
  <2> QED BY <1>8, <2>2, <2>3 DEF Answer, ToldInv, Told
<1> QED BY <1>1, <1>2, <1>3, <1>4, <1>5, <1>6, <1>7, <1>8 DEF Operation

\* A step of a flush.
LEMMA FlushTold ==
  ASSUME StoreTypes, ToldInv, NEW p \in Procs, FlushStep(p)
  PROVE  /\ Held(p)' /\ known' \ files' \subseteq Told'
         /\ known' \ Restored' \subseteq Told'
<1> USE DEF disk, history, Quiet, At
<1>0. Held(p) /\ pc \in [Procs -> Places] /\ flush \in [Procs -> FlushType]
  BY DEF ToldInv, StoreTypes
<1>1. ASSUME NEW n \in Nodes, WriteFile(p, n)
      PROVE  /\ Held(p)' /\ known' \ files' \subseteq Told'
             /\ known' \ Restored' \subseteq Told'
  <2>1. flush'[p].objs = flush[p].objs
    BY <1>0, <1>1 DEF WriteFile, FlushType
  <2>2. Held(p)'
    BY <1>0, <1>1, <2>1 DEF Held, WriteFile, Early
  <2> QED BY <1>1, <2>2, QuietTold DEF WriteFile, Told
<1>2. ASSUME NEW n \in Nodes, Trash(p, n)
      PROVE  /\ Held(p)' /\ known' \ files' \subseteq Told'
             /\ known' \ Restored' \subseteq Told'
  BY <1>2, MoveFileTold DEF Trash
<1>3. CASE Written(p)
  <2>1. pc'[p] = "plan"
    BY <1>0, <1>3 DEF Written, Goto
  <2>2. Held(p)'
    BY <1>0, <1>3, <2>1 DEF Held, Written, Early
  <2> QED BY <1>3, <2>2, QuietTold DEF Written, Told
<1>4. CASE Plan(p)
  <2>1. CASE mem[p].deleted = {}
    <3>1. pc'[p] = "meta" /\ UNCHANGED <<flush, journal>>
      BY <1>0, <1>4, <2>1 DEF Plan, Goto
    <3>2. Held(p)'
      BY <1>0, <1>4, <3>1 DEF Held, Plan, Early
    <3> QED BY <1>4, <3>1, <3>2, QuietTold DEF Plan, Told
  <2>2. CASE mem[p].deleted # {}
    <3>1. /\ pc'[p] = "move" /\ flush'[p].objs = journal'.objs
          /\ flush'[p].left = journal'.objs
      BY <1>0, <1>4, <2>2 DEF Plan, Goto, FlushType
    <3>2. Held(p)'
      BY <1>0, <1>4, <3>1 DEF Held, Plan, Early
    <3>3. journal.objs \subseteq journal'.objs
      BY <1>4, <2>2 DEF Plan, NoJournal
    <3> QED BY <1>4, <3>2, <3>3, QuietTold DEF Plan, Told
  <2> QED BY <2>1, <2>2
<1>5. CASE Trashed(p)
  <2>1. pc'[p] = "bury"
    BY <1>0, <1>5 DEF Trashed, Goto
  <2>2. Held(p)'
    BY <1>0, <1>5, <2>1 DEF Held, Trashed, Early
  <2> QED BY <1>5, <2>2, QuietTold DEF Trashed, Told
<1>6. CASE Bury(p)
  <2>1. pc'[p] = "mark"
    BY <1>0, <1>6 DEF Bury, Goto
  <2>2. Held(p)'
    BY <1>0, <1>6, <2>1 DEF Held, Bury, Early
  <2> QED BY <1>6, <2>2, QuietTold DEF Bury, Told
<1>7. CASE Mark(p)
  <2>1. pc'[p] = "meta" /\ journal'.objs = journal.objs
    BY <1>0, <1>7 DEF Mark, Goto, StoreTypes, JournalType
  <2>2. Held(p)'
    BY <1>0, <1>7, <2>1 DEF Held, Mark, Early
  <2> QED BY <1>7, <2>1, <2>2, QuietTold DEF Mark, Told
<1>8. CASE WriteMeta(p)
  <2>1. pc'[p] = "markMeta"
    BY <1>0, <1>8 DEF WriteMeta, Goto
  <2>2. Held(p)'
    BY <1>0, <1>8, <2>1 DEF Held, WriteMeta, Early
  <2> QED BY <1>8, <2>2, QuietTold DEF WriteMeta, Told
<1>9. CASE MarkMeta(p)
  <2>1. pc'[p] = "clear" /\ journal'.objs = journal.objs
    BY <1>0, <1>9 DEF MarkMeta, Goto, StoreTypes, JournalType
  <2>2. Held(p)'
    BY <1>0, <1>9, <2>1 DEF Held, MarkMeta, Early
  <2> QED BY <1>9, <2>1, <2>2, QuietTold DEF MarkMeta, Told
<1>10. CASE Clear(p)
  <2>1. pc'[p] = "flushed"
    BY <1>0, <1>10 DEF Clear, Flushed, Goto
  <2>2. Held(p)'
    BY <1>0, <1>10, <2>1 DEF Held, Clear, Early
  <2>3. journal' = journal \/ (journal' = NoJournal /\ journal.objs \subseteq tombs)
    BY <1>0, <1>10 DEF Clear, Held
  <2> QED BY <1>10, <2>2, <2>3, QuietTold DEF Clear, Told, NoJournal
<1>11. CASE FlushFails(p)
  <2>1. pc'[p] = "idle" /\ flush'[p] = Idle
    BY <1>0, <1>11 DEF FlushFails, Leave, Goto
  <2>2. Held(p)'
    BY <2>1 DEF Held, Early, Idle
  <2>3. CASE flush[p].op
    BY <1>11, <2>2, <2>3, SettleTold DEF FlushFails
  <2>4. CASE ~flush[p].op
    BY <1>11, <2>2, <2>4, QuietTold DEF FlushFails, Told
  <2> QED BY <2>3, <2>4
<1> QED BY <1>1, <1>2, <1>3, <1>4, <1>5, <1>6, <1>7, <1>8, <1>9, <1>10, <1>11
        DEF FlushStep

\* A step that fails: none takes a journal away that is not told.
LEMMA FailTold ==
  ASSUME StoreTypes, ToldInv, NEW p \in Procs, StepFails(p)
  PROVE  /\ Held(p)' /\ known' \ files' \subseteq Told'
         /\ known' \ Restored' \subseteq Told'
<1> USE DEF disk, history, Quiet, At
<1>0. Held(p) /\ pc \in [Procs -> Places] /\ flush \in [Procs -> FlushType]
  BY DEF ToldInv, StoreTypes
<1>1. CASE pc[p] \in Starting \union {"changed", "flushed"}
  <2>1. pc'[p] = "idle" /\ flush'[p] = Idle
    BY <1>0, <1>1 DEF StepFails, Starting, Leave, Goto
  <2>2. Held(p)'
    BY <2>1 DEF Held, Early, Idle
  <2>3. CASE pc[p] \in Starting \/ pc[p] = "changed"
    BY <2>2, <2>3, QuietTold DEF StepFails, Starting, Told
  <2>4. CASE pc[p] = "flushed"
    BY <2>2, <2>4, SettleTold DEF StepFails, Starting
  <2> QED BY <1>1, <2>3, <2>4
<1>2. CASE pc[p] = "clear"
  <2>1. pc'[p] = "flushed" /\ UNCHANGED <<holder, flush, disk>>
    BY <1>0, <1>2 DEF StepFails, Starting, Flushed, Goto
  <2>2. Held(p)'
    BY <1>0, <1>2, <2>1 DEF Held, Early
  <2> QED BY <2>1, <2>2, QuietTold DEF Told
<1>3. CASE pc[p] = "write"
  <2>1. /\ pc'[p] = "plan" /\ flush' = [flush EXCEPT ![p].failed = TRUE]
        /\ UNCHANGED <<holder, disk>>
    BY <1>0, <1>3 DEF StepFails, Starting, Goto
  <2>2. flush'[p].objs = flush[p].objs
    BY <1>0, <2>1 DEF FlushType
  <2>3. Held(p)'
    BY <1>0, <1>3, <2>1, <2>2 DEF Held, Early
  <2> QED BY <2>1, <2>3, QuietTold DEF Told
<1>4. CASE pc[p] \notin Starting \union {"changed", "write", "clear", "flushed"}
  <2>1. /\ pc'[p] = "failed" /\ UNCHANGED <<holder, disk>>
        /\ pc[p] \notin {"off", "idle"}
    BY <1>0, <1>4, StoreAssumption DEF StepFails, Goto, Steps
  <2>2. Held(p)'
    BY <1>0, <2>1 DEF Held, Early
  <2> QED BY <2>1, <2>2, QuietTold DEF Told
<1> QED BY <1>1, <1>2, <1>3, <1>4

\* Every step tells of what it takes away.
LEMMA ToldStep == StoreTypes /\ ToldInv /\ [StoreNext]_storeVars => ToldInv'
<1> SUFFICES ASSUME StoreTypes, ToldInv, [StoreNext]_storeVars PROVE ToldInv'
  OBVIOUS
<1>1. CASE UNCHANGED storeVars
  BY <1>1 DEF storeVars, disk, history, ToldInv, Held, Told, Restored
<1>2. CASE StoreNext
  <2>1. PICK p \in Procs : Step(p)
    BY <1>2 DEF StoreNext, Step
  <2>2. /\ Held(p)' /\ known' \ files' \subseteq Told'
        /\ known' \ Restored' \subseteq Told'
    <3> USE DEF disk, history, Quiet, At
    <3>0. Held(p) /\ pc \in [Procs -> Places] /\ flush \in [Procs -> FlushType]
      BY DEF ToldInv, StoreTypes
    <3>1. CASE Forget(p)
      BY <3>0, <3>1, QuietTold DEF Forget, Held, Told
    <3>2. CASE Sync(p)
      <4>1. /\ txn' = NoTxn /\ files' = Restored
        BY <3>2 DEF Sync, Settle, Restored
      <4>2. Restored' = files'
        BY <4>1 DEF Restored, NoTxn
      <4>3. Held(p)'
        BY <3>0, <3>2 DEF Sync, Held, Early
      <4> QED BY <3>2, <4>1, <4>2, <4>3 DEF Sync, ToldInv, Told
    <3>3. CASE Crash(p)
      <4>1. pc'[p] = "off" /\ flush'[p] = Idle
        BY <3>0, <3>3 DEF Crash, Goto
      <4>2. Held(p)'
        BY <4>1 DEF Held, Early, Idle
      <4> QED BY <3>3, <4>2, QuietTold DEF Crash, Told
    <3> QED BY <2>1, <3>1, <3>2, <3>3, BootTold, OperationTold, FlushTold, FailTold
            DEF Step
  <2> QED BY <2>1, <2>2, HeldByOthers DEF ToldInv
<1> QED BY <1>1, <1>2

\* The initial states.
LEMMA ToldStart == StoreInit => StoreTypes /\ ToldInv
<1> SUFFICES ASSUME StoreInit PROVE StoreTypes /\ ToldInv
  OBVIOUS
<1>1. meta \in MetaType
  BY StoreAssumption DEF StoreInit, MetaType
<1>2. StoreTypes
  BY <1>1, EmptyTypes, StoreAssumption DEF StoreInit, StoreTypes, Places
<1>3. ToldInv
  BY StoreAssumption DEF StoreInit, ToldInv, Held, Told, Restored, NoTxn, Early, Idle,
                         NoJournal
<1> QED BY <1>2, <1>3

\* The types hold in every reachable state, for any processes, objects and
\* failing steps.
THEOREM StoreTypeCorrect == StoreSpec => []StoreTypes
<1>1. StoreInit => StoreTypes
  BY ToldStart
<1> QED BY <1>1, StoreTypesStep, PTL DEF StoreSpec

\* An object the synchronisation knows never just disappears, whatever step of
\* whichever process fails (flush_save_queue, bootstrap_workspace).
THEOREM DeathsAreToldHolds == StoreSpec => []DeathsAreTold
<1>1. StoreTypes /\ ToldInv => DeathsAreTold
  BY DEF ToldInv, DeathsAreTold, Told
<1>2. StoreTypes /\ ToldInv /\ [StoreNext]_storeVars => (StoreTypes /\ ToldInv)'
  BY StoreTypesStep, ToldStep
<1> QED BY <1>1, <1>2, ToldStart, PTL DEF StoreSpec

-----------------------------------------------------------------------------
(* What was answered stands.                                               *)

\* One cache at a time, and the steps that may fail without a file out of
\* place; with both the registration and the write failing, one of them once.
OneStore == \A p, q \in Procs : p = q
Harmless ==
  /\ FailAt \subseteq {"changed", "write", "plan"}
  /\ {"changed", "write"} \subseteq FailAt => MaxFaults <= 1

\* What a recovery would make of graph.json.
RestoredMeta == IF txn.phase = "prepared" THEN txn.meta ELSE meta

\* The files F and the graph.json M keep what was answered.
Keeps(F, M) ==
  /\ added \ asked \subseteq M.members \cap F
  /\ deleted \cap (M.members \cup F) = {}
  /\ M.members \cap M.log = {}
  /\ M.members \subseteq used

\* The disk, as it is and as a recovery would leave it.
DiskInv ==
  /\ Keeps(files, meta) /\ Keeps(Restored, RestoredMeta)
  /\ RestoredMeta.members \ Restored \subseteq journal.objs
  /\ txn.phase = "prepared" \/ journal.phase = "GraphMetaWritten"
       => RestoredMeta.members \subseteq Restored
  /\ txn.phase = "prepared" => txn.graph
  /\ journal.objs \subseteq asked
  /\ journal = NoJournal \/ journal.objs # {}
  /\ deleted \cup asked \subseteq used

\* The places of a start, and those of a flush under way.
Booting == {"off", "boot", "bootMark", "bootMeta", "bootClear"}
Flushing == {"write", "plan", "move", "bury", "mark", "meta", "markMeta", "clear"}

\* The store that a process caches.
CacheInv(p) ==
  /\ ~mem[p].loaded => mem[p] = NoStore
  /\ pc[p] \in Booting => ~mem[p].loaded
  /\ pc[p] \notin Booting \cup {"idle", "load"} => mem[p].loaded
  /\ mem[p].dirty \subseteq mem[p].nodes /\ mem[p].nodes \cap mem[p].deleted = {}
  /\ mem[p].deleted \subseteq asked /\ mem[p].nodes \cap deleted = {}
  /\ mem[p].nodes \subseteq used
  /\ mem[p].nodes \ mem[p].dirty \subseteq files
  /\ mem[p].loaded => /\ mem[p].meta = meta
                      /\ meta.members \subseteq mem[p].nodes \cup mem[p].deleted
                      /\ added \ asked \subseteq mem[p].nodes
  /\ mem[p].dirty \cup mem[p].deleted # {} => mem[p].dirtyMeta

\* Changes that are left in the store come from a registration that failed.
Leftover == "changed" \in FailAt /\ faults > 0

\* The store has nothing to write; it has things to write and to delete; only
\* an operation of one kind is in it.
Clean(p) == mem[p].dirty = {} /\ mem[p].deleted = {} /\ ~mem[p].dirtyMeta
Mixed(p) == mem[p].dirty # {} /\ mem[p].deleted # {}
OneKind(p) == Leftover \/ (flush[p].op /\ ~Mixed(p))

\* Where an operation is.
PlaceInv(p) ==
  /\ pc[p] \in {"idle", "load", "open", "changed", "write", "plan", "failed",
                "flushed", "applied"} => journal = NoJournal
  /\ pc[p] \in {"boot", "bootMark", "bootMeta", "bootClear", "idle", "load", "open",
                "changed", "applied"} => txn.phase # "prepared"
  /\ pc[p] \in Flushing \cup {"failed", "flushed"} =>
       (txn.phase = "prepared" <=> flush[p].op)
  /\ At(p, "bootClear") => meta.members \subseteq files
  /\ pc[p] \in {"idle", "load", "open", "applied"} => Clean(p) \/ Leftover
  /\ pc[p] \in Flushing \cup {"changed", "failed"} => OneKind(p)
  /\ pc[p] \in {"load", "open", "changed"} =>
       flush[p] = [Idle EXCEPT !.op = TRUE, !.adds = flush[p].adds,
                               !.dels = flush[p].dels]
  /\ pc[p] \in {"load", "open"} => flush[p].adds = {} /\ flush[p].dels = {}

\* What an operation has asked for, and what its flush has done of it.
TaskInv(p) ==
  /\ pc[p] \notin Booting =>
       /\ flush[p].adds \subseteq mem[p].nodes
       /\ flush[p].dels \cap mem[p].nodes = {} /\ flush[p].dels \subseteq asked
       /\ flush[p].put \subseteq mem[p].nodes \cap files
  /\ pc[p] \in Flushing \cup {"changed"} =>
       /\ mem[p].dirtyMeta /\ flush[p].dels \subseteq mem[p].deleted
  /\ pc[p] \in Flushing =>
       /\ flush[p].op => mem[p].dirty \cup mem[p].deleted \subseteq txn.paths
       /\ mem[p].dirty = flush[p].todo \cup flush[p].put
       /\ IF flush[p].failed THEN mem[p].deleted = {}
                             ELSE At(p, "write") \/ flush[p].todo = {}
  /\ pc[p] \in {"write", "plan"} => flush[p].sent = {}
  /\ At(p, "write") => ~flush[p].failed
  /\ pc[p] \in {"move", "bury", "mark"} => journal.objs # {}
  /\ At(p, "move") =>
       /\ journal.objs = mem[p].deleted /\ journal.phase = "Planned"
       /\ mem[p].deleted = flush[p].left \cup flush[p].sent
       /\ flush[p].sent \cap files = {}
  /\ pc[p] \in {"bury", "mark", "meta", "markMeta", "clear"} =>
       /\ mem[p].deleted = flush[p].sent /\ journal.objs = mem[p].deleted
       /\ mem[p].deleted \cap files = {}
  /\ pc[p] \in {"markMeta", "clear"} =>
       ~flush[p].failed /\ meta.members = mem[p].nodes
  /\ At(p, "flushed") =>
       /\ Clean(p)
       /\ flush[p].dels \cap files = {} /\ meta.members = mem[p].nodes

\* The strengthening that is inductive.
StandsInv == DiskInv /\ \A p \in Procs : CacheInv(p) /\ PlaceInv(p) /\ TaskInv(p)

\* The same of one process.
Kept(p) == DiskInv /\ CacheInv(p) /\ PlaceInv(p) /\ TaskInv(p)

\* The start takes the lock and recovers the transaction.
LEMMA StartKept ==
  ASSUME StoreTypes, ToldInv, Harmless, NEW p \in Procs, Kept(p), Start(p)
  PROVE  Kept(p)'
<1> USE DEF disk, history, Quiet, At
<1>0. /\ pc \in [Procs -> Places] /\ flush \in [Procs -> FlushType]
      /\ mem \in [Procs -> StoreType] /\ Held(p)
  BY DEF StoreTypes, ToldInv
<1>1. pc'[p] = "boot" /\ mem'[p] = mem[p]
  BY <1>0 DEF Start, Goto, FlushType
<1>5. DiskInv'
  BY <1>0, <1>1 DEF Start, Take, Settle, Kept, DiskInv, Keeps, Restored, RestoredMeta, NoTxn
<1>6. CacheInv(p)'
  BY <1>0, <1>1 DEF Start, Kept, CacheInv, Booting, NoTxn, NoStore
<1>7. PlaceInv(p)'
  BY <1>0, <1>1 DEF Start, Take, Settle, PlaceInv, Flushing, NoTxn
<1>8. TaskInv(p)'
  BY <1>0, <1>1 DEF Start, TaskInv, Booting, Flushing
<1> QED BY <1>5, <1>6, <1>7, <1>8 DEF Kept

\* A deletion of the journal is done again.
LEMMA ReplayKept ==
  ASSUME StoreTypes, ToldInv, Harmless, NEW p \in Procs, Kept(p),
         NEW n \in Nodes, Replay(p, n)
  PROVE  Kept(p)'
<1> USE DEF disk, history, Quiet, At
<1>0. /\ pc \in [Procs -> Places] /\ flush \in [Procs -> FlushType]
      /\ mem \in [Procs -> StoreType] /\ Held(p)
  BY DEF StoreTypes, ToldInv
<1>1. /\ pc'[p] = "boot" /\ mem'[p] = mem[p] /\ n \in journal.objs /\ n \in asked
  BY <1>0 DEF Replay, MoveFile, Kept, DiskInv, Held
<1>5. DiskInv'
  BY <1>0, <1>1 DEF Replay, MoveFile, Kept, DiskInv, Keeps, Restored, RestoredMeta, PlaceInv
<1>6. CacheInv(p)'
  BY <1>0, <1>1 DEF Replay, Kept, CacheInv, Booting, NoStore
<1>7. PlaceInv(p)'
  BY <1>0, <1>1 DEF Replay, MoveFile, Kept, PlaceInv, OneKind, Mixed, Leftover
<1>8. TaskInv(p)'
  BY <1>0, <1>1 DEF Replay, MoveFile, Kept, TaskInv, Booting
<1> QED BY <1>5, <1>6, <1>7, <1>8 DEF Kept

\* The tombstones of the journal are there again.
LEMMA RebuildKept ==
  ASSUME StoreTypes, ToldInv, Harmless, NEW p \in Procs, Kept(p), RebuildTombs(p)
  PROVE  Kept(p)'
<1> USE DEF disk, history, Quiet, At
<1>0. /\ pc \in [Procs -> Places] /\ flush \in [Procs -> FlushType]
      /\ mem \in [Procs -> StoreType] /\ Held(p)
  BY DEF StoreTypes, ToldInv
<1>1. pc'[p] = "bootMark" /\ mem'[p] = mem[p]
  BY <1>0 DEF RebuildTombs, Goto, FlushType
<1>5. DiskInv'
  BY <1>0, <1>1 DEF RebuildTombs, Kept, DiskInv, Keeps, Restored, RestoredMeta
<1>6. CacheInv(p)'
  BY <1>0, <1>1 DEF RebuildTombs, Kept, CacheInv, Booting
<1>7. PlaceInv(p)'
  BY <1>0, <1>1 DEF RebuildTombs, Kept, PlaceInv, Flushing
<1>8. TaskInv(p)'
  BY <1>0, <1>1 DEF RebuildTombs, TaskInv, Booting, Flushing
<1> QED BY <1>5, <1>6, <1>7, <1>8 DEF Kept

\* The journal says so.
LEMMA ReplayedKept ==
  ASSUME StoreTypes, ToldInv, Harmless, NEW p \in Procs, Kept(p), MarkReplayed(p)
  PROVE  Kept(p)'
<1> USE DEF disk, history, Quiet, At
<1>0. /\ pc \in [Procs -> Places] /\ flush \in [Procs -> FlushType]
      /\ mem \in [Procs -> StoreType] /\ Held(p)
  BY DEF StoreTypes, ToldInv
<1>1. /\ pc'[p] \in {"bootMeta", "bootClear"} /\ mem'[p] = mem[p]
      /\ (pc'[p] = "bootClear") = (journal.phase = "GraphMetaWritten")
      /\ journal'.objs = journal.objs
      /\ (journal'.phase = "GraphMetaWritten") = (journal.phase = "GraphMetaWritten")
  BY <1>0 DEF MarkReplayed, Goto
<1>2. journal = NoJournal => journal' = NoJournal
  BY DEF MarkReplayed, NoJournal
<1>5. DiskInv'
  BY <1>0, <1>1, <1>2 DEF MarkReplayed, Kept, DiskInv, Keeps, Restored, RestoredMeta
<1>6. CacheInv(p)'
  BY <1>0, <1>1 DEF MarkReplayed, Kept, CacheInv, Booting
<1>7. PlaceInv(p)'
  BY <1>0, <1>1 DEF MarkReplayed, Kept, PlaceInv, Flushing, DiskInv, Restored, RestoredMeta
<1>8. TaskInv(p)'
  BY <1>0, <1>1 DEF MarkReplayed, TaskInv, Booting, Flushing
<1> QED BY <1>5, <1>6, <1>7, <1>8 DEF Kept

\* graph.json loses the objects of the journal.
LEMMA PatchKept ==
  ASSUME StoreTypes, ToldInv, Harmless, NEW p \in Procs, Kept(p), PatchMeta(p)
  PROVE  Kept(p)'
<1> USE DEF disk, history, Quiet, At
<1>0. /\ pc \in [Procs -> Places] /\ flush \in [Procs -> FlushType]
      /\ mem \in [Procs -> StoreType] /\ Held(p)
  BY DEF StoreTypes, ToldInv
<1>1. pc'[p] = "bootClear" /\ mem'[p] = mem[p] /\ meta'.members \cap journal.objs = {}
  BY <1>0 DEF PatchMeta, Goto, Kept, DiskInv, Keeps
<1>5. DiskInv'
  BY <1>0, <1>1 DEF PatchMeta, Kept, DiskInv, Keeps, Restored, RestoredMeta
<1>6. CacheInv(p)'
  BY <1>0, <1>1 DEF PatchMeta, Kept, CacheInv, Booting
<1>7. PlaceInv(p)'
  BY <1>0, <1>1 DEF PatchMeta, Kept, PlaceInv, Flushing, DiskInv, Restored, RestoredMeta
<1>8. TaskInv(p)'
  BY <1>0, <1>1 DEF PatchMeta, TaskInv, Booting, Flushing
<1> QED BY <1>5, <1>6, <1>7, <1>8 DEF Kept

\* The start ends: by now graph.json lists only what has a file.
LEMMA StartedKept ==
  ASSUME StoreTypes, ToldInv, Harmless, NEW p \in Procs, Kept(p), Started(p)
  PROVE  Kept(p)'
<1> USE DEF disk, history, Quiet, At
<1>0. /\ pc \in [Procs -> Places] /\ flush \in [Procs -> FlushType]
      /\ mem \in [Procs -> StoreType] /\ Held(p)
  BY DEF StoreTypes, ToldInv
<1>1. pc'[p] = "idle" /\ mem'[p] = mem[p] /\ flush'[p] = Idle
  BY <1>0 DEF Started, Leave, Goto
<1>5. DiskInv'
  BY <1>0, <1>1 DEF Started, Kept, DiskInv, Keeps, Restored, RestoredMeta, PlaceInv,
                    NoJournal
<1>6. CacheInv(p)'
  BY <1>0, <1>1 DEF Started, Kept, CacheInv, Booting
<1>7. PlaceInv(p)'
  BY <1>0, <1>1 DEF Started, Kept, PlaceInv, Clean, Booting, Flushing, CacheInv, Idle,
                    NoStore
<1>8. TaskInv(p)'
  BY <1>0, <1>1 DEF Started, TaskInv, Flushing, Idle, NoStore
<1> QED BY <1>5, <1>6, <1>7, <1>8 DEF Kept

\* An operation takes the lock and recovers the transaction.
LEMMA OpenKept ==
  ASSUME StoreTypes, ToldInv, Harmless, NEW p \in Procs, Kept(p), Open(p)
  PROVE  Kept(p)'
<1> USE DEF disk, history, Quiet, At
<1>0. /\ pc \in [Procs -> Places] /\ flush \in [Procs -> FlushType]
      /\ mem \in [Procs -> StoreType] /\ Held(p)
  BY DEF StoreTypes, ToldInv
<1>1. /\ pc'[p] = "load" /\ mem'[p] = mem[p] /\ flush[p] = Idle
      /\ flush'[p] = [Idle EXCEPT !.op = TRUE]
  BY <1>0 DEF Open, Goto, Held
<1>5. DiskInv'
  BY <1>0, <1>1 DEF Open, Take, Settle, Kept, DiskInv, Keeps, Restored, RestoredMeta,
                    NoTxn, Idle
<1>6. CacheInv(p)'
  BY <1>0, <1>1 DEF Open, Take, Settle, Kept, CacheInv, PlaceInv, Booting
<1>7. PlaceInv(p)'
  BY <1>0, <1>1 DEF Open, Take, Settle, Kept, PlaceInv, Mixed, Clean, Leftover, Flushing,
                    NoTxn, Idle
<1>8. TaskInv(p)'
  BY <1>0, <1>1 DEF Open, TaskInv, Flushing, NoTxn, Idle
<1> QED BY <1>5, <1>6, <1>7, <1>8 DEF Kept

\* The store is read, or the operation fails closed.
LEMMA LoadKept ==
  ASSUME StoreTypes, ToldInv, Harmless, NEW p \in Procs, Kept(p), Load(p)
  PROVE  Kept(p)'
<1> USE DEF disk, history, Quiet, At
<1>0. /\ pc \in [Procs -> Places] /\ flush \in [Procs -> FlushType]
      /\ mem \in [Procs -> StoreType] /\ Held(p)
  BY DEF StoreTypes, ToldInv
<1>1. /\ \/ pc'[p] = "open" /\ flush'[p] = flush[p]
         \/ pc'[p] = "idle" /\ flush'[p] = Idle
      /\ \/ mem'[p] = mem[p] /\ (pc'[p] = "open" => mem[p].loaded)
         \/ /\ mem'[p] = [NoStore EXCEPT !.loaded = TRUE, !.nodes = meta.members,
                                         !.meta = meta]
            /\ ~mem[p].loaded /\ meta.members \subseteq files
  BY <1>0 DEF Load, Leave, Goto, Loadable
<1>5. DiskInv'
  BY <1>0, <1>1 DEF Load, Loadable, Kept, DiskInv, Keeps, Restored, RestoredMeta
<1>6. CacheInv(p)'
  <2>1. CASE mem'[p] = mem[p]
    <3>1. /\ UNCHANGED <<files, meta, added, deleted, asked, used>>
          /\ pc[p] = "load" /\ pc'[p] \in {"open", "idle"}
          /\ pc'[p] = "open" => mem[p].loaded
      BY <1>0, <1>1, <2>1 DEF Load, NoStore
    <3> QED BY <2>1, <3>1 DEF Kept, CacheInv, Booting
  <2>2. CASE mem'[p] # mem[p]
    <3>1. /\ mem'[p].loaded = TRUE /\ mem'[p].nodes = meta.members /\ mem'[p].meta = meta
          /\ mem'[p].dirty = {} /\ mem'[p].deleted = {} /\ meta.members \subseteq files
      BY <1>1, <2>2 DEF NoStore
    <3>2. pc'[p] \notin Booting /\ UNCHANGED <<meta, files, added, deleted, asked, used>>
      BY <1>1 DEF Load, Booting
    <3> QED BY <3>1, <3>2 DEF Kept, CacheInv, DiskInv, Keeps
  <2> QED BY <2>1, <2>2
<1>7. PlaceInv(p)'
  BY <1>0, <1>1 DEF Load, Loadable, Kept, PlaceInv, Mixed, Clean, Leftover, Flushing,
                    NoStore, Idle
<1>8. TaskInv(p)'
  BY <1>0, <1>1 DEF Load, Loadable, Kept, TaskInv, CacheInv, PlaceInv, Booting, Flushing,
                    NoStore, Idle
<1> QED BY <1>5, <1>6, <1>7, <1>8 DEF Kept

\* The operation is refused.
LEMMA RefuseKept ==
  ASSUME StoreTypes, ToldInv, Harmless, NEW p \in Procs, Kept(p), Refuse(p)
  PROVE  Kept(p)'
<1> USE DEF disk, history, Quiet, At
<1>0. /\ pc \in [Procs -> Places] /\ flush \in [Procs -> FlushType]
      /\ mem \in [Procs -> StoreType] /\ Held(p)
  BY DEF StoreTypes, ToldInv
<1>1. pc'[p] = "idle" /\ mem'[p] = mem[p] /\ flush'[p] = Idle
  BY <1>0 DEF Refuse, Leave, Goto
<1>5. DiskInv'
  BY <1>0, <1>1 DEF Refuse, Kept, DiskInv, Keeps, Restored, RestoredMeta
<1>6. CacheInv(p)'
  BY <1>0, <1>1 DEF Refuse, Kept, CacheInv, Booting
<1>7. PlaceInv(p)'
  BY <1>0, <1>1 DEF Refuse, Kept, PlaceInv, Mixed, Clean, Leftover, Flushing
<1>8. TaskInv(p)'
  BY <1>0, <1>1 DEF Refuse, TaskInv, Flushing, Idle
<1> QED BY <1>5, <1>6, <1>7, <1>8 DEF Kept

\* A new object: nobody ever used its identifier.
LEMMA AddKept ==
  ASSUME StoreTypes, ToldInv, Harmless, NEW p \in Procs, Kept(p),
         NEW n \in Nodes, AddNode(p, n)
  PROVE  Kept(p)'
<1> USE DEF disk, history, Quiet, At
<1>0. /\ pc \in [Procs -> Places] /\ flush \in [Procs -> FlushType]
      /\ mem \in [Procs -> StoreType] /\ Held(p)
  BY DEF StoreTypes, ToldInv
<1>1. pc'[p] = "changed"
  BY <1>0 DEF AddNode, Changing, Goto
<1>2. /\ flush'[p] = [flush[p] EXCEPT !.adds = {n}]
      /\ mem'[p] = [mem[p] EXCEPT !.nodes = @ \cup {n}, !.dirty = @ \cup {n},
                                  !.deleted = @ \ {n}, !.dirtyMeta = TRUE]
  BY <1>0 DEF AddNode
<1>3. /\ flush'[p].op = flush[p].op /\ flush'[p].todo = flush[p].todo
      /\ flush'[p].put = flush[p].put /\ flush'[p].objs = flush[p].objs
      /\ flush'[p].left = flush[p].left /\ flush'[p].sent = flush[p].sent
      /\ flush'[p].failed = flush[p].failed /\ flush'[p].adds = {n}
      /\ flush'[p].dels = flush[p].dels /\ mem'[p].loaded = mem[p].loaded
      /\ mem'[p].nodes = mem[p].nodes \cup {n} /\ mem'[p].dirty = mem[p].dirty \cup {n}
      /\ mem'[p].deleted = mem[p].deleted \ {n} /\ mem'[p].dirtyMeta = TRUE
      /\ mem'[p].meta = mem[p].meta
  BY <1>0, <1>2 DEF FlushType, StoreType
<1>5. DiskInv'
  BY <1>0, <1>1, <1>3 DEF AddNode, Changing, Kept, DiskInv, Keeps, Restored, RestoredMeta
<1>6. CacheInv(p)'
  <2>1. /\ pc[p] = "open" /\ n \notin used /\ used' = used \cup {n}
        /\ UNCHANGED <<files, meta, added, deleted, asked>>
    BY DEF AddNode, Changing
  <2>2. /\ CacheInv(p) /\ mem[p].loaded /\ deleted \cup asked \subseteq used
    BY <2>1 DEF Kept, CacheInv, DiskInv, Booting
  <2> QED BY <1>1, <1>3, <2>1, <2>2 DEF CacheInv, Booting
<1>7. PlaceInv(p)'
  <2>1. /\ flush[p] = [Idle EXCEPT !.op = TRUE, !.adds = {}, !.dels = {}]
        /\ pc[p] = "open" /\ UNCHANGED <<journal, txn, faults>>
        /\ journal = NoJournal /\ txn.phase # "prepared" /\ (Clean(p) \/ Leftover)
    BY <1>0 DEF AddNode, Changing, Kept, PlaceInv
  <2>2. flush'[p] = [Idle EXCEPT !.op = TRUE, !.adds = flush'[p].adds,
                                 !.dels = flush'[p].dels]
    BY <1>2, <2>1
  <2>3. OneKind(p)'
    BY <1>3, <2>1 DEF OneKind, Mixed, Clean, Leftover
  <2> QED BY <1>1, <2>1, <2>2, <2>3 DEF PlaceInv, Flushing
<1>8. TaskInv(p)'
  <2>1. /\ pc[p] = "open" /\ UNCHANGED files
        /\ flush[p].put = {} /\ flush[p].adds = {} /\ flush[p].dels = {}
        /\ asked \subseteq asked'
    BY <1>0 DEF AddNode, Changing, Kept, PlaceInv, Idle
  <2> QED BY <1>1, <1>3, <2>1 DEF TaskInv, Flushing
<1> QED BY <1>5, <1>6, <1>7, <1>8 DEF Kept

\* A changed object.
LEMMA MoveKept ==
  ASSUME StoreTypes, ToldInv, Harmless, NEW p \in Procs, Kept(p),
         NEW n \in Nodes, MoveNode(p, n)
  PROVE  Kept(p)'
<1> USE DEF disk, history, Quiet, At
<1>0. /\ pc \in [Procs -> Places] /\ flush \in [Procs -> FlushType]
      /\ mem \in [Procs -> StoreType] /\ Held(p)
  BY DEF StoreTypes, ToldInv
<1>1. /\ pc'[p] = "changed" /\ flush'[p] = flush[p]
      /\ mem'[p] = [mem[p] EXCEPT !.dirty = @ \cup {n}, !.dirtyMeta = TRUE]
  BY <1>0 DEF MoveNode, Changing, Goto
<1>2. /\ mem'[p].loaded = mem[p].loaded /\ mem'[p].nodes = mem[p].nodes
      /\ mem'[p].dirty = mem[p].dirty \cup {n} /\ mem'[p].deleted = mem[p].deleted
      /\ mem'[p].dirtyMeta = TRUE /\ mem'[p].meta = mem[p].meta
  BY <1>0, <1>1 DEF StoreType
<1>5. DiskInv'
  BY <1>0, <1>1, <1>2 DEF MoveNode, Changing, Kept, DiskInv, Keeps, Restored, RestoredMeta
<1>6. CacheInv(p)'
  BY <1>0, <1>1, <1>2 DEF MoveNode, Changing, Kept, CacheInv, Booting
<1>7. PlaceInv(p)'
  BY <1>0, <1>1, <1>2 DEF MoveNode, Changing, Kept, PlaceInv, OneKind, Mixed, Clean,
                          Leftover, Flushing, Idle
<1>8. TaskInv(p)'
  BY <1>0, <1>1, <1>2 DEF MoveNode, Changing, Kept, TaskInv, PlaceInv, Booting, Flushing
<1> QED BY <1>5, <1>6, <1>7, <1>8 DEF Kept

\* A deleted object with its cascade.
LEMMA DeleteKept ==
  ASSUME StoreTypes, ToldInv, Harmless, NEW p \in Procs, Kept(p),
         NEW S \in SUBSET Nodes, DeleteNodes(p, S)
  PROVE  Kept(p)'
<1> USE DEF disk, history, Quiet, At
<1>0. /\ pc \in [Procs -> Places] /\ flush \in [Procs -> FlushType]
      /\ mem \in [Procs -> StoreType] /\ Held(p)
  BY DEF StoreTypes, ToldInv
<1>1. pc'[p] = "changed"
  BY <1>0 DEF DeleteNodes, Changing, Goto
<1>2. /\ flush'[p] = [flush[p] EXCEPT !.dels = S]
      /\ mem'[p] = [mem[p] EXCEPT !.nodes = @ \ S, !.dirty = @ \ S,
                                  !.deleted = @ \cup S, !.dirtyMeta = TRUE]
  BY <1>0 DEF DeleteNodes
<1>3. /\ flush'[p].op = flush[p].op /\ flush'[p].todo = flush[p].todo
      /\ flush'[p].put = flush[p].put /\ flush'[p].objs = flush[p].objs
      /\ flush'[p].left = flush[p].left /\ flush'[p].sent = flush[p].sent
      /\ flush'[p].failed = flush[p].failed /\ flush'[p].adds = flush[p].adds
      /\ flush'[p].dels = S /\ mem'[p].loaded = mem[p].loaded
      /\ mem'[p].nodes = mem[p].nodes \ S /\ mem'[p].dirty = mem[p].dirty \ S
      /\ mem'[p].deleted = mem[p].deleted \cup S /\ mem'[p].dirtyMeta = TRUE
      /\ mem'[p].meta = mem[p].meta
  BY <1>0, <1>2 DEF FlushType, StoreType
<1>5. DiskInv'
  BY <1>0, <1>1, <1>3 DEF DeleteNodes, Changing, Kept, DiskInv, Keeps, Restored,
                          RestoredMeta, CacheInv
<1>6. CacheInv(p)'
  <2>1. /\ pc[p] = "open" /\ S \subseteq mem[p].nodes /\ asked' = asked \cup S
        /\ UNCHANGED <<files, meta, added, deleted, used>>
    BY DEF DeleteNodes, Changing
  <2>2. /\ CacheInv(p) /\ mem[p].loaded
    BY <2>1 DEF Kept, CacheInv, Booting
  <2> QED BY <1>1, <1>3, <2>1, <2>2 DEF CacheInv, Booting
<1>7. PlaceInv(p)'
  <2>1. /\ flush[p] = [Idle EXCEPT !.op = TRUE, !.adds = {}, !.dels = {}]
        /\ pc[p] = "open" /\ UNCHANGED <<journal, txn, faults>>
        /\ journal = NoJournal /\ txn.phase # "prepared" /\ (Clean(p) \/ Leftover)
    BY <1>0 DEF DeleteNodes, Changing, Kept, PlaceInv
  <2>2. flush'[p] = [Idle EXCEPT !.op = TRUE, !.adds = flush'[p].adds,
                                 !.dels = flush'[p].dels]
    BY <1>2, <2>1
  <2>3. OneKind(p)'
    BY <1>3, <2>1 DEF OneKind, Mixed, Clean, Leftover
  <2> QED BY <1>1, <2>1, <2>2, <2>3 DEF PlaceInv, Flushing
<1>8. TaskInv(p)'
  <2>1. /\ pc[p] = "open" /\ UNCHANGED files
        /\ flush[p].put = {} /\ flush[p].adds = {} /\ flush[p].dels = {}
        /\ asked \subseteq asked'
    BY <1>0 DEF DeleteNodes, Changing, Kept, PlaceInv, Idle
  <2>2. S \subseteq asked'
    BY DEF DeleteNodes
  <2> QED BY <1>1, <1>3, <2>1, <2>2 DEF TaskInv, Flushing
<1> QED BY <1>5, <1>6, <1>7, <1>8 DEF Kept

\* The transaction notes the files and graph.json as they are.
LEMMA RegisterKept ==
  ASSUME StoreTypes, ToldInv, Harmless, NEW p \in Procs, Kept(p), Register(p)
  PROVE  Kept(p)'
<1> USE DEF disk, history, Quiet, At
<1>0. /\ pc \in [Procs -> Places] /\ flush \in [Procs -> FlushType]
      /\ mem \in [Procs -> StoreType] /\ Held(p)
  BY DEF StoreTypes, ToldInv
<1>1. pc'[p] = "write" /\ mem'[p] = mem[p]
  BY <1>0 DEF Register, Goto
<1>2. flush'[p] = [flush[p] EXCEPT !.todo = mem[p].dirty]
  BY <1>0 DEF Register
<1>3. /\ flush'[p].op = flush[p].op /\ flush'[p].todo = mem[p].dirty
      /\ flush'[p].put = flush[p].put /\ flush'[p].objs = flush[p].objs
      /\ flush'[p].left = flush[p].left /\ flush'[p].sent = flush[p].sent
      /\ flush'[p].failed = flush[p].failed /\ flush'[p].adds = flush[p].adds
      /\ flush'[p].dels = flush[p].dels
  BY <1>0, <1>2 DEF FlushType
<1>5. DiskInv'
  <2>1. /\ Restored' = files /\ RestoredMeta' = meta /\ UNCHANGED <<files, meta>>
        /\ txn'.graph = TRUE /\ journal = NoJournal /\ txn.phase # "prepared"
    BY <1>0 DEF Register, Restored, RestoredMeta, Kept, PlaceInv, TaskInv
  <2> QED BY <1>0, <2>1 DEF Register, Kept, DiskInv, Keeps, Restored, RestoredMeta,
                            NoJournal
<1>6. CacheInv(p)'
  BY <1>0, <1>1, <1>3 DEF Register, Kept, CacheInv, Booting
<1>7. PlaceInv(p)'
  BY <1>0, <1>1, <1>2, <1>3 DEF Register, Kept, PlaceInv, OneKind, Mixed, Leftover, Idle
<1>8. TaskInv(p)'
  <2>1. /\ pc[p] = "changed" /\ UNCHANGED <<files, asked>>
        /\ txn'.paths = mem[p].dirty \cup mem[p].deleted
        /\ flush[p].put = {} /\ flush[p].sent = {} /\ ~flush[p].failed
    BY <1>0 DEF Register, Kept, PlaceInv, Idle
  <2> QED BY <1>1, <1>3, <2>1 DEF Kept, TaskInv, Booting
<1> QED BY <1>5, <1>6, <1>7, <1>8 DEF Kept

\* A flush without an operation.
LEMMA DirectKept ==
  ASSUME StoreTypes, ToldInv, Harmless, NEW p \in Procs, Kept(p), FlushDirectly(p)
  PROVE  Kept(p)'
<1> USE DEF disk, history, Quiet, At
<1>0. /\ pc \in [Procs -> Places] /\ flush \in [Procs -> FlushType]
      /\ mem \in [Procs -> StoreType] /\ Held(p)
  BY DEF StoreTypes, ToldInv
<1>1. /\ pc'[p] = "write" /\ flush'[p] = [Idle EXCEPT !.todo = mem[p].dirty]
      /\ mem'[p] = mem[p] /\ mem[p].loaded
  BY <1>0 DEF FlushDirectly, Goto, Kept, CacheInv, Held, NoStore
<1>5. DiskInv'
  BY <1>0, <1>1 DEF FlushDirectly, Take, Settle, Kept, DiskInv, Keeps, Restored,
                    RestoredMeta, Idle, NoTxn
<1>6. CacheInv(p)'
  BY <1>0, <1>1 DEF FlushDirectly, Take, Settle, Kept, CacheInv, PlaceInv, Booting
<1>7. PlaceInv(p)'
  BY <1>0, <1>1 DEF FlushDirectly, Take, Settle, Kept, PlaceInv, OneKind, Mixed, Clean,
                    Leftover, Idle, NoTxn
<1>8. TaskInv(p)'
  BY <1>0, <1>1 DEF FlushDirectly, Kept, TaskInv, CacheInv, Idle, NoTxn
<1> QED BY <1>5, <1>6, <1>7, <1>8 DEF Kept

\* A file is written.
LEMMA WriteKept ==
  ASSUME StoreTypes, ToldInv, Harmless, NEW p \in Procs, Kept(p),
         NEW n \in Nodes, WriteFile(p, n)
  PROVE  Kept(p)'
<1> USE DEF disk, history, Quiet, At
<1>0. /\ pc \in [Procs -> Places] /\ flush \in [Procs -> FlushType]
      /\ mem \in [Procs -> StoreType] /\ Held(p)
  BY DEF StoreTypes, ToldInv
<1>1. /\ pc'[p] = "write" /\ mem'[p] = mem[p]
      /\ flush'[p] = [flush[p] EXCEPT !.todo = @ \ {n}, !.put = @ \cup {n}]
      /\ n \in mem[p].dirty
  BY <1>0 DEF WriteFile, Kept, TaskInv, Flushing
<1>2. /\ flush'[p].op = flush[p].op /\ flush'[p].todo = flush[p].todo \ {n}
      /\ flush'[p].put = flush[p].put \cup {n} /\ flush'[p].objs = flush[p].objs
      /\ flush'[p].left = flush[p].left /\ flush'[p].sent = flush[p].sent
      /\ flush'[p].failed = flush[p].failed /\ flush'[p].adds = flush[p].adds
      /\ flush'[p].dels = flush[p].dels
  BY <1>0, <1>1 DEF FlushType
<1>5. DiskInv'
  BY <1>0, <1>1, <1>2 DEF WriteFile, Kept, DiskInv, Keeps, Restored, RestoredMeta, CacheInv
<1>6. CacheInv(p)'
  BY <1>0, <1>1, <1>2 DEF WriteFile, Kept, CacheInv
<1>7. PlaceInv(p)'
  BY <1>0, <1>1, <1>2 DEF WriteFile, Kept, PlaceInv, OneKind, Mixed, Leftover
<1>8. TaskInv(p)'
  BY <1>0, <1>1, <1>2 DEF WriteFile, Kept, TaskInv, CacheInv
<1> QED BY <1>5, <1>6, <1>7, <1>8 DEF Kept

\* All files are written.
LEMMA WrittenKept ==
  ASSUME StoreTypes, ToldInv, Harmless, NEW p \in Procs, Kept(p), Written(p)
  PROVE  Kept(p)'
<1> USE DEF disk, history, Quiet, At
<1>0. /\ pc \in [Procs -> Places] /\ flush \in [Procs -> FlushType]
      /\ mem \in [Procs -> StoreType] /\ Held(p)
  BY DEF StoreTypes, ToldInv
<1>1. pc'[p] = "plan" /\ mem'[p] = mem[p]
  BY <1>0 DEF Written, Goto
<1>5. DiskInv'
  BY <1>0, <1>1 DEF Written, Kept, DiskInv, Keeps, Restored, RestoredMeta
<1>6. CacheInv(p)'
  BY <1>0, <1>1 DEF Written, Kept, CacheInv, Booting
<1>7. PlaceInv(p)'
  BY <1>0, <1>1 DEF Written, Kept, PlaceInv, OneKind, Mixed, Leftover, Flushing
<1>8. TaskInv(p)'
  BY <1>0, <1>1 DEF Written, Kept, TaskInv, Booting, Flushing
<1> QED BY <1>5, <1>6, <1>7, <1>8 DEF Kept

\* The journal of the deletions is written; there was none, as no failed
\* operation leaves one.
LEMMA PlanKept ==
  ASSUME StoreTypes, ToldInv, Harmless, NEW p \in Procs, Kept(p), Plan(p)
  PROVE  Kept(p)'
<1> USE DEF disk, history, Quiet, At
<1>0. /\ pc \in [Procs -> Places] /\ flush \in [Procs -> FlushType]
      /\ mem \in [Procs -> StoreType] /\ Held(p)
  BY DEF StoreTypes, ToldInv
<1>1. /\ mem'[p] = mem[p]
      /\ \/ /\ mem[p].deleted = {} /\ pc'[p] = "meta" /\ flush'[p] = flush[p]
            /\ journal' = journal
         \/ /\ mem[p].deleted # {} /\ pc'[p] = "move"
            /\ journal' = [phase |-> "Planned", objs |-> mem[p].deleted]
            /\ flush'[p] = [flush[p] EXCEPT !.objs = journal'.objs,
                                            !.left = journal'.objs]
  BY <1>0 DEF Plan, Goto, Kept, PlaceInv
<1>5. DiskInv'
  BY <1>0, <1>1 DEF Plan, Kept, DiskInv, Keeps, Restored, RestoredMeta, CacheInv,
                    FlushType, NoJournal
<1>6. CacheInv(p)'
  BY <1>0, <1>1 DEF Plan, Kept, CacheInv, Booting, FlushType
<1>7. PlaceInv(p)'
  BY <1>0, <1>1 DEF Plan, Kept, PlaceInv, OneKind, Mixed, Leftover, Flushing, FlushType
<1>8. TaskInv(p)'
  <2>1. CASE mem[p].deleted = {}
    BY <1>0, <1>1, <2>1 DEF Plan, Kept, TaskInv, PlaceInv, Booting, Flushing, NoJournal
  <2>2. CASE mem[p].deleted # {}
    <3>1. /\ journal'.objs = mem[p].deleted /\ journal'.phase = "Planned"
          /\ pc[p] = "plan" /\ pc'[p] = "move" /\ UNCHANGED <<files, meta, txn, asked>>
      BY <1>1, <2>2 DEF Plan
    <3>2. /\ flush'[p].left = mem[p].deleted
          /\ flush'[p].op = flush[p].op /\ flush'[p].todo = flush[p].todo
          /\ flush'[p].put = flush[p].put /\ flush'[p].sent = flush[p].sent
          /\ flush'[p].failed = flush[p].failed /\ flush'[p].adds = flush[p].adds
          /\ flush'[p].dels = flush[p].dels
      BY <1>0, <1>1, <2>2, <3>1 DEF FlushType
    <3> QED BY <1>1, <2>2, <3>1, <3>2 DEF Kept, TaskInv, Booting, Flushing
  <2> QED BY <2>1, <2>2
<1> QED BY <1>5, <1>6, <1>7, <1>8 DEF Kept

\* A file is moved to the trash.
LEMMA TrashKept ==
  ASSUME StoreTypes, ToldInv, Harmless, NEW p \in Procs, Kept(p),
         NEW n \in Nodes, Trash(p, n)
  PROVE  Kept(p)'
<1> USE DEF disk, history, Quiet, At
<1>0. /\ pc \in [Procs -> Places] /\ flush \in [Procs -> FlushType]
      /\ mem \in [Procs -> StoreType] /\ Held(p)
  BY DEF StoreTypes, ToldInv
<1>1. /\ pc'[p] = "move" /\ mem'[p] = mem[p] /\ n \in mem[p].deleted
      /\ flush'[p] = [flush[p] EXCEPT !.left = @ \ {n}, !.sent = @ \cup {n}]
  BY <1>0 DEF Trash, MoveFile, Kept, TaskInv
<1>2. /\ flush'[p].op = flush[p].op /\ flush'[p].todo = flush[p].todo
      /\ flush'[p].put = flush[p].put /\ flush'[p].objs = flush[p].objs
      /\ flush'[p].left = flush[p].left \ {n} /\ flush'[p].sent = flush[p].sent \cup {n}
      /\ flush'[p].failed = flush[p].failed /\ flush'[p].adds = flush[p].adds
      /\ flush'[p].dels = flush[p].dels
  BY <1>0, <1>1 DEF FlushType
<1>5. DiskInv'
  BY <1>0, <1>1, <1>2 DEF Trash, MoveFile, Kept, DiskInv, Keeps, Restored, RestoredMeta,
                          PlaceInv, TaskInv, Flushing
<1>6. CacheInv(p)'
  BY <1>0, <1>1, <1>2 DEF Trash, MoveFile, Kept, CacheInv
<1>7. PlaceInv(p)'
  BY <1>0, <1>1, <1>2 DEF Trash, MoveFile, Kept, PlaceInv, OneKind, Mixed, Leftover
<1>8. TaskInv(p)'
  BY <1>0, <1>1, <1>2 DEF Trash, MoveFile, Kept, TaskInv, CacheInv
<1> QED BY <1>5, <1>6, <1>7, <1>8 DEF Kept

\* All files are moved.
LEMMA TrashedKept ==
  ASSUME StoreTypes, ToldInv, Harmless, NEW p \in Procs, Kept(p), Trashed(p)
  PROVE  Kept(p)'
<1> USE DEF disk, history, Quiet, At
<1>0. /\ pc \in [Procs -> Places] /\ flush \in [Procs -> FlushType]
      /\ mem \in [Procs -> StoreType] /\ Held(p)
  BY DEF StoreTypes, ToldInv
<1>1. pc'[p] = "bury" /\ mem'[p] = mem[p]
  BY <1>0 DEF Trashed, Goto
<1>5. DiskInv'
  BY <1>0, <1>1 DEF Trashed, Kept, DiskInv, Keeps, Restored, RestoredMeta
<1>6. CacheInv(p)'
  BY <1>0, <1>1 DEF Trashed, Kept, CacheInv, Booting
<1>7. PlaceInv(p)'
  BY <1>0, <1>1 DEF Trashed, Kept, PlaceInv, OneKind, Mixed, Leftover, Flushing
<1>8. TaskInv(p)'
  BY <1>0, <1>1 DEF Trashed, Kept, TaskInv
<1> QED BY <1>5, <1>6, <1>7, <1>8 DEF Kept

\* The tombstones are written.
LEMMA BuryKept ==
  ASSUME StoreTypes, ToldInv, Harmless, NEW p \in Procs, Kept(p), Bury(p)
  PROVE  Kept(p)'
<1> USE DEF disk, history, Quiet, At
<1>0. /\ pc \in [Procs -> Places] /\ flush \in [Procs -> FlushType]
      /\ mem \in [Procs -> StoreType] /\ Held(p)
  BY DEF StoreTypes, ToldInv
<1>1. pc'[p] = "mark" /\ mem'[p] = mem[p]
  BY <1>0 DEF Bury, Goto
<1>5. DiskInv'
  BY <1>0, <1>1 DEF Bury, Kept, DiskInv, Keeps, Restored, RestoredMeta
<1>6. CacheInv(p)'
  BY <1>0, <1>1 DEF Bury, Kept, CacheInv, Booting
<1>7. PlaceInv(p)'
  BY <1>0, <1>1 DEF Bury, Kept, PlaceInv, OneKind, Mixed, Leftover, Flushing
<1>8. TaskInv(p)'
  BY <1>0, <1>1 DEF Bury, Kept, TaskInv, Booting, Flushing
<1> QED BY <1>5, <1>6, <1>7, <1>8 DEF Kept

\* The journal says so.
LEMMA MarkKept ==
  ASSUME StoreTypes, ToldInv, Harmless, NEW p \in Procs, Kept(p), Mark(p)
  PROVE  Kept(p)'
<1> USE DEF disk, history, Quiet, At
<1>0. /\ pc \in [Procs -> Places] /\ flush \in [Procs -> FlushType]
      /\ mem \in [Procs -> StoreType] /\ Held(p)
  BY DEF StoreTypes, ToldInv
<1>1. /\ pc'[p] = "meta" /\ mem'[p] = mem[p] /\ journal'.objs = journal.objs
      /\ journal'.phase = "Tombstoned" /\ journal.objs # {}
  BY <1>0 DEF Mark, Goto, Kept, TaskInv
<1>5. DiskInv'
  BY <1>0, <1>1 DEF Mark, Kept, DiskInv, Keeps, Restored, RestoredMeta
<1>6. CacheInv(p)'
  BY <1>0, <1>1 DEF Mark, Kept, CacheInv, Booting
<1>7. PlaceInv(p)'
  BY <1>0, <1>1 DEF Mark, Kept, PlaceInv, OneKind, Mixed, Leftover, Flushing
<1>8. TaskInv(p)'
  BY <1>0, <1>1 DEF Mark, Kept, TaskInv, Booting, Flushing
<1> QED BY <1>5, <1>6, <1>7, <1>8 DEF Kept

\* graph.json is written: it lists what the store has, and all of it is on the
\* disk by then.
LEMMA WriteMetaKept ==
  ASSUME StoreTypes, ToldInv, Harmless, NEW p \in Procs, Kept(p), WriteMeta(p)
  PROVE  Kept(p)'
<1> USE DEF disk, history, Quiet, At
<1>0. /\ pc \in [Procs -> Places] /\ flush \in [Procs -> FlushType]
      /\ mem \in [Procs -> StoreType] /\ Held(p)
  BY DEF StoreTypes, ToldInv
<1>1. /\ pc'[p] = "markMeta"
      /\ mem'[p] = [mem[p] EXCEPT !.meta = meta'] /\ ~flush[p].failed
      /\ meta'.members = (meta.members \cup mem[p].nodes) \ mem[p].deleted
      /\ meta'.log = (meta.log \cup mem[p].deleted) \ mem[p].nodes
  <2>1. /\ mem[p].meta = meta /\ mem[p].dirtyMeta /\ ~flush[p].failed
        /\ pc'[p] = "markMeta"
    BY <1>0 DEF WriteMeta, Goto, Kept, CacheInv, TaskInv, Booting, Flushing
  <2>2. ~(meta.rev > meta.rev)
    BY DEF StoreTypes, MetaType
  <2>3. meta' = Merged(p) /\ mem'[p] = [mem[p] EXCEPT !.meta = meta']
    BY <1>0, <2>1 DEF WriteMeta
  <2> QED BY <2>1, <2>2, <2>3 DEF Merged
<1>2. /\ mem'[p].loaded = mem[p].loaded /\ mem'[p].nodes = mem[p].nodes
      /\ mem'[p].dirty = mem[p].dirty /\ mem'[p].deleted = mem[p].deleted
      /\ mem'[p].dirtyMeta = mem[p].dirtyMeta /\ mem'[p].meta = meta'
  BY <1>0, <1>1 DEF StoreType
<1>5. DiskInv'
  <2>1. /\ UNCHANGED <<files, journal, txn, added, deleted, asked, used>>
        /\ Restored' = Restored /\ (txn.phase = "prepared" => RestoredMeta' = RestoredMeta)
    BY DEF WriteMeta, Restored, RestoredMeta
  <2>2. /\ mem[p].deleted \subseteq asked /\ mem[p].nodes \cap mem[p].deleted = {}
        /\ mem[p].nodes \cap deleted = {} /\ mem[p].nodes \subseteq used
    BY DEF Kept, CacheInv
  <2>3. Keeps(files, meta)'
    BY <1>1, <2>1, <2>2 DEF Kept, DiskInv, Keeps
  <2>4. Keeps(Restored, RestoredMeta)'
    BY <2>1, <2>3 DEF Kept, DiskInv, Keeps, Restored, RestoredMeta
  <2>5. CASE txn.phase = "prepared"
    BY <2>1, <2>3, <2>4, <2>5 DEF Kept, DiskInv
  <2>6. CASE txn.phase # "prepared"
    <3>1. Restored = files /\ RestoredMeta = meta /\ RestoredMeta' = meta'
      BY <2>1, <2>6 DEF Restored, RestoredMeta
    <3>2. meta'.members = mem[p].nodes
      BY <1>0, <1>1, <2>2 DEF WriteMeta, Kept, CacheInv, Booting
    <3>3. mem[p].nodes \subseteq files
      <4>1. pc[p] = "meta" /\ ~flush[p].failed
        BY <1>1 DEF WriteMeta
      <4>2. mem[p].dirty = flush[p].put /\ flush[p].put \subseteq files
        BY <4>1 DEF Kept, TaskInv, Flushing
      <4> QED BY <4>2 DEF Kept, CacheInv
    <3> QED BY <2>1, <2>3, <2>4, <2>6, <3>1, <3>2, <3>3 DEF Kept, DiskInv
  <2> QED BY <2>5, <2>6
<1>6. CacheInv(p)'
  BY <1>0, <1>1, <1>2 DEF WriteMeta, Kept, CacheInv, Booting
<1>7. PlaceInv(p)'
  BY <1>0, <1>1, <1>2 DEF WriteMeta, Kept, PlaceInv, OneKind, Mixed, Leftover, Flushing
<1>8. TaskInv(p)'
  BY <1>0, <1>1, <1>2 DEF WriteMeta, Kept, TaskInv, CacheInv, Booting, Flushing
<1> QED BY <1>5, <1>6, <1>7, <1>8 DEF Kept

\* The journal says so.
LEMMA MarkMetaKept ==
  ASSUME StoreTypes, ToldInv, Harmless, NEW p \in Procs, Kept(p), MarkMeta(p)
  PROVE  Kept(p)'
<1> USE DEF disk, history, Quiet, At
<1>0. /\ pc \in [Procs -> Places] /\ flush \in [Procs -> FlushType]
      /\ mem \in [Procs -> StoreType] /\ Held(p)
  BY DEF StoreTypes, ToldInv
<1>1. /\ pc'[p] = "clear" /\ mem'[p] = mem[p] /\ journal'.objs = journal.objs
      /\ journal' = journal \/ journal.objs # {}
  BY <1>0 DEF MarkMeta, Goto, StoreTypes, JournalType, Held
<1>5. DiskInv'
  BY <1>0, <1>1 DEF MarkMeta, Kept, DiskInv, Keeps, Restored, RestoredMeta, CacheInv,
                    TaskInv
<1>6. CacheInv(p)'
  BY <1>0, <1>1 DEF MarkMeta, Kept, CacheInv, Booting
<1>7. PlaceInv(p)'
  BY <1>0, <1>1 DEF MarkMeta, Kept, PlaceInv, OneKind, Mixed, Leftover, Flushing
<1>8. TaskInv(p)'
  BY <1>0, <1>1 DEF MarkMeta, Kept, TaskInv, Booting, Flushing
<1> QED BY <1>5, <1>6, <1>7, <1>8 DEF Kept

\* The journal is cleared and the store is clean.
LEMMA ClearKept ==
  ASSUME StoreTypes, ToldInv, Harmless, NEW p \in Procs, Kept(p), Clear(p)
  PROVE  Kept(p)'
<1> USE DEF disk, history, Quiet, At
<1>0. /\ pc \in [Procs -> Places] /\ flush \in [Procs -> FlushType]
      /\ mem \in [Procs -> StoreType] /\ Held(p)
  BY DEF StoreTypes, ToldInv
<1>1. /\ pc'[p] = "flushed" /\ journal' = NoJournal
      /\ mem'[p] = [mem[p] EXCEPT !.dirty = {}, !.deleted = {}, !.dirtyMeta = FALSE]
  BY <1>0 DEF Clear, Flushed, Kept, TaskInv, Flushing, StoreType
<1>2. /\ mem'[p].loaded = mem[p].loaded /\ mem'[p].nodes = mem[p].nodes /\ mem'[p].dirty = {}
      /\ mem'[p].deleted = {} /\ mem'[p].dirtyMeta = FALSE /\ mem'[p].meta = mem[p].meta
  BY <1>0, <1>1 DEF StoreType
<1>5. DiskInv'
  <2>1. /\ UNCHANGED <<files, meta, txn, added, deleted, asked, used>>
        /\ Restored' = Restored /\ RestoredMeta' = RestoredMeta
    BY DEF Clear, Flushed, Restored, RestoredMeta
  <2>2. Keeps(files, meta)' /\ Keeps(Restored, RestoredMeta)'
    BY <2>1 DEF Kept, DiskInv, Keeps
  <2>3. meta.members \subseteq files
    <3>1. pc[p] = "clear"
      BY DEF Clear
    <3>2. /\ mem[p].dirty = flush[p].put /\ flush[p].put \subseteq files
          /\ meta.members = mem[p].nodes
      BY <3>1 DEF Kept, TaskInv, Flushing
    <3> QED BY <3>2 DEF Kept, CacheInv
  <2>4. RestoredMeta.members \subseteq Restored
    BY <2>3 DEF Kept, DiskInv, Restored, RestoredMeta
  <2> QED BY <1>1, <2>1, <2>2, <2>4 DEF Kept, DiskInv, NoJournal
<1>6. CacheInv(p)'
  BY <1>0, <1>1, <1>2 DEF Clear, Flushed, Kept, CacheInv, TaskInv, Booting, Flushing
<1>7. PlaceInv(p)'
  BY <1>0, <1>1, <1>2 DEF Clear, Flushed, Kept, PlaceInv, Flushing
<1>8. TaskInv(p)'
  BY <1>0, <1>1, <1>2 DEF Clear, Flushed, Kept, TaskInv, Clean, Booting, Flushing
<1> QED BY <1>5, <1>6, <1>7, <1>8 DEF Kept

\* The operation is applied: what it added is listed and has its file, what it
\* deleted is neither.
LEMMA ApplyKept ==
  ASSUME StoreTypes, ToldInv, Harmless, NEW p \in Procs, Kept(p), Apply(p)
  PROVE  Kept(p)'
<1> USE DEF disk, history, Quiet, At
<1>0. /\ pc \in [Procs -> Places] /\ flush \in [Procs -> FlushType]
      /\ mem \in [Procs -> StoreType] /\ Held(p)
  BY DEF StoreTypes, ToldInv
<1>1. /\ mem'[p] = mem[p]
      /\ \/ flush[p].op /\ pc'[p] = "applied" /\ flush'[p] = flush[p]
            /\ txn'.phase = "applied"
         \/ ~flush[p].op /\ pc'[p] = "idle" /\ flush'[p] = Idle /\ txn' = txn
  BY <1>0 DEF Apply, Leave, Goto, StoreTypes, TxnType
<1>5. DiskInv'
  <2>1. CASE flush[p].op
    <3>1. /\ UNCHANGED <<files, meta, journal, asked, used>> /\ txn'.phase = "applied"
          /\ added' = added \cup flush[p].adds /\ deleted' = deleted \cup flush[p].dels
      BY <1>1, <2>1 DEF Apply
    <3>2. /\ flush[p].adds \subseteq mem[p].nodes /\ flush[p].dels \subseteq asked
          /\ flush[p].dels \cap mem[p].nodes = {} /\ flush[p].dels \cap files = {}
          /\ meta.members = mem[p].nodes /\ mem[p].nodes \subseteq files
          /\ journal = NoJournal
      BY DEF Apply, Kept, CacheInv, TaskInv, PlaceInv, Clean, Booting
    <3>3. Keeps(files, meta)'
      BY <3>1, <3>2 DEF Kept, DiskInv, Keeps
    <3>4. Restored' = files /\ RestoredMeta' = meta
      BY <3>1 DEF Restored, RestoredMeta
    <3> QED BY <3>1, <3>2, <3>3, <3>4 DEF Kept, DiskInv
  <2>2. CASE ~flush[p].op
    BY <1>1, <2>2 DEF Apply, Kept, DiskInv, Keeps, Restored, RestoredMeta
  <2> QED BY <2>1, <2>2
<1>6. CacheInv(p)'
  BY <1>0, <1>1 DEF Apply, Kept, CacheInv, TaskInv, Booting
<1>7. PlaceInv(p)'
  <2>1. CASE flush[p].op
    BY <1>0, <1>1, <2>1 DEF Apply, Kept, PlaceInv, TaskInv, Clean, Flushing
  <2>2. CASE ~flush[p].op
    BY <1>0, <1>1, <2>2 DEF Apply, Kept, PlaceInv, TaskInv, Clean, Flushing
  <2> QED BY <2>1, <2>2
<1>8. TaskInv(p)'
  BY <1>0, <1>1 DEF Apply, Kept, TaskInv, Booting, Flushing, Idle
<1> QED BY <1>5, <1>6, <1>7, <1>8 DEF Kept

\* The caller is told.
LEMMA AnswerKept ==
  ASSUME StoreTypes, ToldInv, Harmless, NEW p \in Procs, Kept(p), Answer(p)
  PROVE  Kept(p)'
<1> USE DEF disk, history, Quiet, At
<1>0. /\ pc \in [Procs -> Places] /\ flush \in [Procs -> FlushType]
      /\ mem \in [Procs -> StoreType] /\ Held(p)
  BY DEF StoreTypes, ToldInv
<1>1. pc'[p] = "idle" /\ mem'[p] = mem[p] /\ flush'[p] = Idle
  BY <1>0 DEF Answer, Leave, Goto
<1>5. DiskInv'
  BY <1>0, <1>1 DEF Answer, Kept, DiskInv, Keeps, Restored, RestoredMeta, PlaceInv, Idle,
                    NoTxn
<1>6. CacheInv(p)'
  BY <1>0, <1>1 DEF Answer, Kept, CacheInv, Booting
<1>7. PlaceInv(p)'
  BY <1>0, <1>1 DEF Answer, Kept, PlaceInv, Mixed, Clean, Leftover, Flushing, Idle, NoTxn
<1>8. TaskInv(p)'
  BY <1>0, <1>1 DEF Answer, TaskInv, Flushing, Idle, NoTxn
<1> QED BY <1>5, <1>6, <1>7, <1>8 DEF Kept

\* A flush that failed: the transaction takes back what the operation wrote, and
\* nothing was deleted yet.
LEMMA FlushFailsKept ==
  ASSUME StoreTypes, ToldInv, Harmless, NEW p \in Procs, Kept(p), FlushFails(p)
  PROVE  Kept(p)'
<1> USE DEF disk, history, Quiet, At
<1>0. /\ pc \in [Procs -> Places] /\ flush \in [Procs -> FlushType]
      /\ mem \in [Procs -> StoreType] /\ Held(p)
  BY DEF StoreTypes, ToldInv
<1>1. /\ pc'[p] = "idle" /\ flush'[p] = Idle
      /\ mem'[p] = IF flush[p].op THEN NoStore ELSE mem[p]
      /\ journal = NoJournal
  BY <1>0 DEF FlushFails, Leave, Goto, Kept, PlaceInv, TaskInv, DiskInv, Flushing
<1>5. DiskInv'
  BY <1>0, <1>1 DEF FlushFails, Settle, Kept, DiskInv, Keeps, Restored, RestoredMeta, Idle,
                    NoTxn, NoStore
<1>6. CacheInv(p)'
  BY <1>0, <1>1 DEF FlushFails, Kept, CacheInv, Booting, Idle, NoTxn, NoStore
<1>7. PlaceInv(p)'
  BY <1>0, <1>1 DEF FlushFails, Settle, Kept, PlaceInv, OneKind, Mixed, Clean, Leftover,
                    Flushing, Idle, NoTxn, NoStore
<1>8. TaskInv(p)'
  BY <1>0, <1>1 DEF FlushFails, TaskInv, Flushing, Idle, NoTxn, NoStore
<1> QED BY <1>5, <1>6, <1>7, <1>8 DEF Kept

\* The store leaves the cache.
LEMMA ForgetKept ==
  ASSUME StoreTypes, ToldInv, Harmless, NEW p \in Procs, Kept(p), Forget(p)
  PROVE  Kept(p)'
<1> USE DEF disk, history, Quiet, At
<1>0. /\ pc \in [Procs -> Places] /\ flush \in [Procs -> FlushType]
      /\ mem \in [Procs -> StoreType] /\ Held(p)
  BY DEF StoreTypes, ToldInv
<1>1. pc'[p] = "idle" /\ mem'[p] = NoStore /\ flush'[p] = Idle
  BY <1>0 DEF Forget, Held
<1>5. DiskInv'
  BY <1>0, <1>1 DEF Forget, Kept, DiskInv, Keeps, Restored, RestoredMeta
<1>6. CacheInv(p)'
  BY <1>0, <1>1 DEF Forget, CacheInv, Idle, NoStore
<1>7. PlaceInv(p)'
  BY <1>0, <1>1 DEF Forget, Kept, PlaceInv, OneKind, Mixed, Clean, Leftover, Idle, NoStore
<1>8. TaskInv(p)'
  BY <1>0, <1>1 DEF Forget, TaskInv, Flushing, Idle, NoStore
<1> QED BY <1>5, <1>6, <1>7, <1>8 DEF Kept

\* A round of the synchronisation recovers the transaction.
LEMMA SyncKept ==
  ASSUME StoreTypes, ToldInv, Harmless, NEW p \in Procs, Kept(p), Sync(p)
  PROVE  Kept(p)'
<1> USE DEF disk, history, Quiet, At
<1>0. /\ pc \in [Procs -> Places] /\ flush \in [Procs -> FlushType]
      /\ mem \in [Procs -> StoreType] /\ Held(p)
  BY DEF StoreTypes, ToldInv
<1>1. pc'[p] = "idle" /\ mem'[p] = mem[p] /\ flush'[p] = Idle
  BY <1>0 DEF Sync, Held
<1>5. DiskInv'
  BY <1>0, <1>1 DEF Sync, Settle, Kept, DiskInv, Keeps, Restored, RestoredMeta, Idle, NoTxn
<1>6. CacheInv(p)'
  BY <1>0, <1>1 DEF Sync, Settle, Kept, CacheInv, PlaceInv
<1>7. PlaceInv(p)'
  BY <1>0, <1>1 DEF Sync, Settle, Kept, PlaceInv, OneKind, Mixed, Clean, Leftover, Idle,
                    NoTxn
<1>8. TaskInv(p)'
  BY <1>0, <1>1 DEF Sync, Kept, TaskInv, Idle, NoTxn
<1> QED BY <1>5, <1>6, <1>7, <1>8 DEF Kept

\* A crash leaves the disk as it is.
LEMMA CrashKept ==
  ASSUME StoreTypes, ToldInv, Harmless, NEW p \in Procs, Kept(p), Crash(p)
  PROVE  Kept(p)'
<1> USE DEF disk, history, Quiet, At
<1>0. /\ pc \in [Procs -> Places] /\ flush \in [Procs -> FlushType]
      /\ mem \in [Procs -> StoreType] /\ Held(p)
  BY DEF StoreTypes, ToldInv
<1>1. pc'[p] = "off" /\ mem'[p] = NoStore /\ flush'[p] = Idle
  BY <1>0 DEF Crash, Goto
<1>5. DiskInv'
  BY <1>0, <1>1 DEF Crash, Kept, DiskInv, Keeps, Restored, RestoredMeta
<1>6. CacheInv(p)'
  BY <1>0, <1>1 DEF Crash, CacheInv, Booting, NoStore
<1>7. PlaceInv(p)'
  BY <1>0, <1>1 DEF Crash, PlaceInv, Flushing
<1>8. TaskInv(p)'
  BY <1>0, <1>1 DEF Crash, TaskInv, Booting, Flushing
<1> QED BY <1>5, <1>6, <1>7, <1>8 DEF Kept

\* A step that fails.
LEMMA FailKept ==
  ASSUME StoreTypes, ToldInv, Harmless, NEW p \in Procs, Kept(p), StepFails(p)
  PROVE  Kept(p)'
<1> USE DEF disk, history, Quiet, At
<1>0. /\ pc \in [Procs -> Places] /\ flush \in [Procs -> FlushType]
      /\ mem \in [Procs -> StoreType] /\ Held(p)
  BY DEF StoreTypes, ToldInv
<1>1. /\ pc[p] \in {"changed", "write", "plan"} /\ pc[p] \in FailAt
      /\ faults < MaxFaults /\ faults' = faults + 1 /\ faults \in Nat /\ MaxFaults \in Nat
      /\ UNCHANGED <<disk, mem, history>>
  BY StoreAssumption DEF StepFails, Harmless, StoreTypes
<1>2. DiskInv'
  BY <1>1 DEF Kept, DiskInv, Keeps, Restored, RestoredMeta
<1>3. CASE pc[p] = "changed"
  <2>1. pc'[p] = "idle" /\ flush'[p] = Idle
    BY <1>0, <1>3 DEF StepFails, Starting, Leave, Goto
  <2>2. Leftover'
    BY <1>1, <1>3 DEF Leftover
  <2>3. CacheInv(p)'
    BY <1>1, <1>3, <2>1 DEF Kept, CacheInv, Booting
  <2>4. PlaceInv(p)'
    BY <1>1, <1>3, <2>1, <2>2 DEF Kept, PlaceInv, Flushing
  <2>5. TaskInv(p)'
    BY <2>1 DEF TaskInv, Idle, Booting, Flushing
  <2> QED BY <1>2, <2>3, <2>4, <2>5 DEF Kept
<1>4. CASE pc[p] = "write"
  <2>1. /\ pc'[p] = "plan" /\ flush' = [flush EXCEPT ![p].failed = TRUE]
        /\ flush[p].todo # {}
    BY <1>0, <1>4 DEF StepFails, Starting, Goto
  <2>2. flush'[p] = [flush[p] EXCEPT !.failed = TRUE]
    BY <1>0, <2>1
  <2>3. /\ flush'[p].op = flush[p].op /\ flush'[p].todo = flush[p].todo
        /\ flush'[p].put = flush[p].put /\ flush'[p].sent = flush[p].sent
        /\ flush'[p].adds = flush[p].adds /\ flush'[p].dels = flush[p].dels
        /\ flush'[p].failed = TRUE
    BY <1>0, <2>2 DEF FlushType
  <2>4. ~Leftover
    BY <1>1, <1>4 DEF Leftover, Harmless
  <2>5. flush[p].op /\ ~Mixed(p)
    BY <1>4, <2>4 DEF Kept, PlaceInv, OneKind, Flushing
  <2>6. mem[p].dirty # {}
    BY <1>4, <2>1 DEF Kept, TaskInv, Flushing
  <2>7. mem[p].deleted = {}
    BY <2>5, <2>6 DEF Mixed
  <2>8. CacheInv(p)'
    BY <1>1, <1>4, <2>1 DEF Kept, CacheInv, Booting
  <2>9. PlaceInv(p)'
    BY <1>1, <1>4, <2>1, <2>3, <2>5 DEF Kept, PlaceInv, Flushing, OneKind, Mixed
  <2>10. TaskInv(p)'
    BY <1>1, <1>4, <2>1, <2>3, <2>7 DEF Kept, TaskInv, Booting, Flushing
  <2> QED BY <1>2, <2>8, <2>9, <2>10 DEF Kept
<1>5. CASE pc[p] = "plan"
  <2>1. pc'[p] = "failed" /\ flush' = [flush EXCEPT ![p].failed = TRUE]
    BY <1>0, <1>5 DEF StepFails, Starting, Goto
  <2>2. flush'[p] = [flush[p] EXCEPT !.failed = TRUE]
    BY <1>0, <2>1
  <2>3. /\ flush'[p].op = flush[p].op /\ flush'[p].put = flush[p].put
        /\ flush'[p].adds = flush[p].adds /\ flush'[p].dels = flush[p].dels
    BY <1>0, <2>2 DEF FlushType
  <2>4. Leftover => Leftover'
    BY <1>1 DEF Leftover
  <2>5. CacheInv(p)'
    BY <1>1, <1>5, <2>1 DEF Kept, CacheInv, Booting
  <2>6. PlaceInv(p)'
    BY <1>1, <1>5, <2>1, <2>3, <2>4 DEF Kept, PlaceInv, Flushing, OneKind, Mixed
  <2>7. TaskInv(p)'
    BY <1>1, <1>5, <2>1, <2>3 DEF Kept, TaskInv, Booting, Flushing
  <2> QED BY <1>2, <2>5, <2>6, <2>7 DEF Kept
<1> QED BY <1>1, <1>3, <1>4, <1>5

\* Every step keeps what was answered.
LEMMA StandsStep ==
  ASSUME OneStore, Harmless, StoreTypes, ToldInv, StandsInv, [StoreNext]_storeVars
  PROVE  StandsInv'
<1>1. CASE UNCHANGED storeVars
  <2>1. DiskInv'
    BY <1>1 DEF StandsInv, storeVars, disk, history, DiskInv, Keeps, Restored, RestoredMeta
  <2>2. ASSUME NEW p \in Procs PROVE CacheInv(p)' /\ PlaceInv(p)' /\ TaskInv(p)'
    <3>1. CacheInv(p)'
      BY <1>1 DEF StandsInv, storeVars, disk, history, CacheInv
    <3>2. PlaceInv(p)'
      BY <1>1 DEF StandsInv, storeVars, disk, history, PlaceInv, OneKind, Mixed, Clean,
                  Leftover, At
    <3>3. TaskInv(p)'
      BY <1>1 DEF StandsInv, storeVars, disk, history, TaskInv, Clean, At
    <3> QED BY <3>1, <3>2, <3>3
  <2> QED BY <2>1, <2>2 DEF StandsInv
<1>2. CASE StoreNext
  <2>1. PICK p \in Procs : Step(p)
    BY <1>2 DEF StoreNext, Step
  <2>2. Kept(p)
    BY DEF StandsInv, Kept
  <2>3. ASSUME Operation(p) PROVE Kept(p)'
    BY <2>2, <2>3, OpenKept, LoadKept, RefuseKept, RegisterKept, AddKept, MoveKept,
       DeleteKept, DirectKept, ApplyKept, AnswerKept DEF Operation
  <2>4. ASSUME FlushStep(p) PROVE Kept(p)'
    BY <2>2, <2>4, WriteKept, TrashKept, WrittenKept, PlanKept, TrashedKept, BuryKept,
       MarkKept, WriteMetaKept, MarkMetaKept, ClearKept, FlushFailsKept DEF FlushStep
  <2>5. ASSUME Bootstrap(p) PROVE Kept(p)'
    BY <2>2, <2>5, StartKept, RebuildKept, ReplayedKept, PatchKept, StartedKept, ReplayKept
       DEF Bootstrap
  <2>6. Kept(p)'
    BY <2>1, <2>2, <2>3, <2>4, <2>5, FailKept, ForgetKept, SyncKept, CrashKept DEF Step
  <2> QED BY <2>6 DEF OneStore, StandsInv, Kept
<1> QED BY <1>1, <1>2

\* The initial states.
LEMMA StandsStart == StoreInit => StandsInv
<1> SUFFICES ASSUME StoreInit PROVE StandsInv
  OBVIOUS
<1>1. DiskInv
  BY StoreAssumption DEF StoreInit, DiskInv, Keeps, Restored, RestoredMeta, NoTxn, NoJournal
<1>2. ASSUME NEW p \in Procs PROVE CacheInv(p) /\ PlaceInv(p) /\ TaskInv(p)
  <2>1. pc[p] = "off" /\ mem[p] = NoStore /\ flush[p] = Idle
    BY DEF StoreInit
  <2>2. CacheInv(p)
    BY <2>1 DEF CacheInv, NoStore, Booting, StoreInit
  <2>3. PlaceInv(p)
    BY <2>1 DEF PlaceInv, Flushing, At
  <2>4. TaskInv(p)
    BY <2>1 DEF TaskInv, Flushing, Booting, At
  <2> QED BY <2>2, <2>3, <2>4
<1> QED BY <1>1, <1>2 DEF StandsInv

\* One store, with nothing but harmless failures, keeps what it answered.
LEMMA StandsAlways ==
  ASSUME OneStore, Harmless
  PROVE  StoreSpec => [](StoreTypes /\ ToldInv /\ StandsInv)
<1>1. /\ StoreTypes /\ ToldInv /\ StandsInv /\ [StoreNext]_storeVars
      => (StoreTypes /\ ToldInv /\ StandsInv)'
  BY OneStore, Harmless, StoreTypesStep, ToldStep, StandsStep
<1>2. StoreInit => StoreTypes /\ ToldInv /\ StandsInv
  BY ToldStart, StandsStart
<1> QED BY <1>1, <1>2, PTL DEF StoreSpec

\* The map can be opened whenever nothing is under way, for any objects, crashes
\* and operations (load_full fails closed on a member without a file).
THEOREM MembersLoadableHolds ==
  ASSUME OneStore, Harmless
  PROVE  StoreSpec => []MembersLoadable
<1>1. StandsInv => MembersLoadable
  BY DEF StandsInv, DiskInv, MembersLoadable, AtRest, Restored, RestoredMeta
<1> QED BY <1>1, StandsAlways, PTL

\* What passed object_applied stands, for any objects, crashes and operations.
THEOREM AppliedStandsHolds ==
  ASSUME OneStore, Harmless
  PROVE  StoreSpec => []AppliedStands
<1>1. StandsInv => AppliedStands
  BY DEF StandsInv, DiskInv, Keeps, AppliedStands
<1> QED BY <1>1, StandsAlways, PTL
=============================================================================
