---------------------------- MODULE StarMapSync ----------------------------
(***************************************************************************)
(* One star map on several devices.  A map is a file graph.json, which     *)
(* lists its members with their revisions and the deletions, and a file    *)
(* per object.  Between a device and the remote each of these files goes   *)
(* its own way: of two versions the later one wins, as MetadataSync shows  *)
(* of any single file.  Only the commit of a round sees the map as a       *)
(* whole: it merges what the round started from, what the device has now   *)
(* and what the round brings, object by object, and rewrites graph.json.   *)
(*                                                                         *)
(* A tick is a change of a user or a commit that writes, so no two times   *)
(* are equal, and the clocks agree; MetadataSync has the other cases.  An  *)
(* object is known by the tick of its last change, 0 if there is no file.  *)
(* An id is never used again and a map is never deleted.                   *)
(***************************************************************************)
EXTENDS Naturals, FiniteSets

CONSTANTS N,            \* devices, 1..N
          Objs,         \* objects of the map, then or later
          Existing,     \* those that it has at the beginning
          Kind(_),      \* node, edge, embed or link
          MaxEvents     \* bound on users' changes and rounds broken off

Devices == 1..N

ASSUME StarMapAssumption ==
  /\ N \in Nat \ {0}
  /\ Existing \subseteq Objs /\ IsFiniteSet(Objs)
  /\ MaxEvents \in Nat

VARIABLES
  now,
  graph, written,       \* graph.json of a device and when it was written
  file,                 \* its object files
  grec, rec,            \* its manifest: the records of graph.json and objects
  tomb,                 \* when its user deleted an object
  remote,               \* the remote's records
  job,                  \* the round a device is in
  latest,               \* when an object was last changed by a user
  events

mapVars == <<graph, written, file, tomb, latest>>
vars == <<now, mapVars, grec, rec, remote, job, events>>

\* GraphMeta.  Revision 0: not a member, or not in the log of deletions.  The
\* revisions are kept in hash maps and written in any order: form is one.
Graph(pkg, rev, dead, at, form) ==
  [pkg |-> pkg, rev |-> rev, dead |-> dead, at |-> at, form |-> form]
Nothing == [o \in Objs |-> 0]
Members(g) == {o \in Objs : g.rev[o] > 0}

\* Maps of two entries and more are written in more than one way.
Forms(rev) ==
  IF \E o, p \in Objs : o # p /\ Kind(o) = Kind(p) /\ rev[o] > 0 /\ rev[p] > 0
  THEN {0, 1} ELSE {0}

\* Records of the manifest: the content, and the time.  A record without
\* content is a delete if it has a time, and otherwise none.
NoRecord == [c |-> 0, t |-> 0]
Upsert(c) == [c |-> c, t |-> c]
Deletion(t) == [c |-> 0, t |-> t]
IsDelete(r) == r.c = 0 /\ r.t > 0
GraphRecord(g, t) == [g |-> g, t |-> t]

\* A round: the map it started from, what it merged and is to publish, if that
\* differs from the remote, and whether another published since.
NoGraph == Graph(0, Nothing, Nothing, 0, 0)
NoJob == [at |-> "idle", base |-> [g |-> NoGraph, f |-> Nothing],
          graph |-> GraphRecord(NoGraph, 0), objs |-> [o \in Objs |-> NoRecord],
          stale |-> FALSE]

\* A map that all devices share.
Init ==
  LET first == [o \in Objs |-> IF o \in Existing THEN 1 ELSE 0]
      shared == [graph |-> GraphRecord(Graph(1, first, Nothing, 1, 0), 1),
                 objs |-> [o \in Objs |-> Upsert(first[o])]] IN
  /\ now = 1
  /\ graph = [d \in Devices |-> shared.graph.g]
  /\ written = [d \in Devices |-> 1]
  /\ file = [d \in Devices |-> first]
  /\ grec = [d \in Devices |-> shared.graph]
  /\ rec = [d \in Devices |-> shared.objs]
  /\ tomb = [d \in Devices |-> Nothing]
  /\ remote = shared
  /\ job = [d \in Devices |-> NoJob]
  /\ latest = first
  /\ events = 0

-----------------------------------------------------------------------------
(* The user.  A change and the flush that saves it are one step: StarMapStore *)
(* has the steps between.                                                  *)

Event == events < MaxEvents /\ events' = events + 1

Flush(d, o, content) ==
  LET g == graph[d]
      pkg == g.pkg + 1
      rev == [g.rev EXCEPT ![o] = IF content = 0 THEN 0 ELSE pkg]
      dead == [g.dead EXCEPT ![o] = IF content = 0 THEN pkg ELSE 0] IN
  /\ Event
  /\ now' = now + 1
  /\ graph' = [graph EXCEPT ![d] = Graph(pkg, rev, dead, now', 0)]
  /\ written' = [written EXCEPT ![d] = now']
  /\ file' = [file EXCEPT ![d][o] = content]
  /\ UNCHANGED <<grec, rec, remote, job>>

Change(d, o) ==
  /\ file[d][o] > 0
  /\ Flush(d, o, now + 1)
  /\ latest' = [latest EXCEPT ![o] = now']
  /\ UNCHANGED tomb

Add(d, o) ==
  /\ latest[o] = 0
  /\ Flush(d, o, now + 1)
  /\ latest' = [latest EXCEPT ![o] = now']
  /\ UNCHANGED tomb

\* A device deletes an object once: for the second time see MetadataSync.
Delete(d, o) ==
  /\ file[d][o] > 0 /\ tomb[d][o] = 0
  /\ Flush(d, o, 0)
  /\ tomb' = [tomb EXCEPT ![d][o] = now']
  /\ UNCHANGED latest

-----------------------------------------------------------------------------
(* Files one by one: the snapshot of a device and the merge with the remote. *)

\* build_local_snapshot.  The time of an object's file is that of its change:
\* a file that differs from its record was written by the device's user.
ObjectRecord(d, o) ==
  IF file[d][o] > 0 THEN Upsert(file[d][o]) ELSE
  IF rec[d][o].c > 0 /\ tomb[d][o] > 0 THEN Deletion(tomb[d][o]) ELSE
  IF IsDelete(rec[d][o]) THEN rec[d][o] ELSE NoRecord

OwnGraphRecord(d) ==
  IF graph[d] = grec[d].g THEN grec[d] ELSE GraphRecord(graph[d], written[d])

\* A mutant: the local file stays.
LaterLocal(l, r) == IF l.t = 0 THEN r ELSE l

\* resolve_lww_path, where no two times are equal.
Later(l, r) == IF r.t > l.t THEN r ELSE l

\* What a round works on: the map is copied, the remote fetched, and each file
\* merged.  Only this device changes the first and only others the second, so
\* the three are a step.
StartSync(d) ==
  LET g == Later(OwnGraphRecord(d), remote.graph)
      objs == [o \in Objs |-> Later(ObjectRecord(d, o), remote.objs[o])]
      dirty == remote # [graph |-> g, objs |-> objs] IN
  /\ job[d].at = "idle"
  /\ job' = [job EXCEPT ![d] =
       [NoJob EXCEPT !.at = IF dirty THEN "merged" ELSE "published",
                     !.base = [g |-> graph[d], f |-> file[d]],
                     !.graph = g, !.objs = objs]]
  /\ UNCHANGED <<now, mapVars, grec, rec, remote, events>>

Publish(d) ==
  /\ job[d].at = "merged" /\ ~job[d].stale
  /\ remote' = [graph |-> job[d].graph, objs |-> job[d].objs]
  /\ job' = [e \in Devices |->
       IF e = d THEN [job[d] EXCEPT !.at = "published"]
                ELSE [job[e] EXCEPT !.stale = (job[e].at = "merged")]]
  /\ UNCHANGED <<now, mapVars, grec, rec, events>>

Rejected(d) ==
  /\ job[d].at = "merged" /\ job[d].stale
  /\ job' = [job EXCEPT ![d] = NoJob]
  /\ UNCHANGED <<now, mapVars, grec, rec, remote, events>>

BreakOff(d) ==
  /\ Event
  /\ job[d].at # "idle"
  /\ job' = [job EXCEPT ![d] = NoJob]
  /\ UNCHANGED <<now, mapVars, grec, rec, remote>>

-----------------------------------------------------------------------------
(* The map as a whole: what the round started from, what the device has and *)
(* what the round brings (b, l, i).                                        *)

Larger(x, y) == IF x > y THEN x ELSE y

\* extract_modified_ids, of the revisions b and those of a side s.
Modified(b, s) == {o \in Objs : s[o] > 0 /\ s[o] # b[o]}

\* A mutant: what the other side changed goes with what one side dropped.
InitialDropped(b, l, i) ==
  {o \in Members(l) \union Members(i) :
     o \notin Members(b) \/ o \in Members(l) \intersect Members(i)}

\* three_way_merge_id_set, of graphs: an object one side has dropped stays if
\* the other side changed it or added it.
Initial(b, l, i) ==
  {o \in Members(l) \union Members(i) :
     \/ o \notin Members(b)
     \/ o \in Members(l) \intersect Members(i)
     \/ o \in Modified(b.rev, l.rev) \union Modified(b.rev, i.rev)}

\* A mutant: the round's content, without a look at the base.
WinningBrought(b, l, i) == i.c

\* merge_starmap_object_with_versions: the content an object gets, 0 for none.
\* A side has a content and the time of its last change or deletion.
Winning(b, l, i) ==
  IF l.c = i.c \/ i.c = b THEN l.c ELSE
  IF l.c = b THEN i.c ELSE Later(l, i).c

\* A mutant: the revision that the round brought, if any.
RevisionBrought(b, l, i) == i

\* merge_revision_value, for an object that stays.
MergedRevision(b, l, i) ==
  LET changed == {r \in {l, i} : r # 0 /\ r # b} IN
  IF changed = {} THEN b ELSE CHOOSE r \in changed : \A s \in changed : r >= s

\* apply_revision_by_decisions: what the round brought is as new as the map.
Revisions(won, applied, pkg, b, l, i) ==
  [o \in Objs |-> IF won[o] = 0 THEN 0 ELSE
                  IF o \in applied THEN pkg ELSE MergedRevision(b[o], l[o], i[o])]

\* merge_deletions.
Deaths(won, b, l, i) ==
  [o \in Objs |-> IF won[o] > 0 THEN 0 ELSE Larger(b[o], Larger(l[o], i[o]))]

\* merge_starmap_graph_with_object_versions: the graph, given what the objects
\* get; found are those with a file somewhere, f the files of the device.
Graphs(found, won, b, l, i, f) ==
  LET applied == {o \in found : won[o] > 0 /\ won[o] # f[o]}
      changed == applied # {} \/ \E o \in found : won[o] = 0
      pkg == Larger(l.pkg, i.pkg) + IF changed THEN 1 ELSE 0
      rev == Revisions(won, applied, pkg, b.rev, l.rev, i.rev) IN
  {Graph(pkg, rev, Deaths(won, b.dead, l.dead, i.dead), Larger(l.at, i.at), form) :
     form \in Forms(rev)}

\* write_starmap_delete_records_to_manifest: the records the round brought,
\* and new deletions of pruned objects that are not in them already.
Undeleted(pruned, own, brought) ==
  {o \in pruned : ~(IsDelete(brought[o]) /\ own[o].t <= brought[o].t)}

LocalSide(d, o) ==
  [c |-> file[d][o], t |-> IF file[d][o] > 0 THEN file[d][o] ELSE tomb[d][o]]

\* compute_commit_plan, for the star map, and the transaction that applies it.
Commit(d) ==
  LET j == job[d]
      found == {o \in Objs : j.base.f[o] > 0 \/ file[d][o] > 0 \/ j.objs[o].c > 0}
      members == Initial(j.base.g, graph[d], j.graph.g)
      won == [o \in Objs |->
                IF o \in found \intersect members
                THEN Winning(j.base.f[o], LocalSide(d, o), j.objs[o]) ELSE 0]
      pruned == Undeleted({o \in found : won[o] = 0}, rec[d], j.objs) IN
  /\ j.at = "published"
  /\ \E g \in Graphs(found, won, j.base.g, graph[d], j.graph.g, file[d]) :
       graph' = [graph EXCEPT ![d] = g]
  /\ file' = [file EXCEPT ![d] = won]
  /\ now' = IF graph' = graph /\ pruned = {} THEN now ELSE now + 1
  /\ written' = IF graph' = graph THEN written ELSE [written EXCEPT ![d] = now']
  /\ grec' = [grec EXCEPT ![d] = j.graph]
  /\ rec' = [rec EXCEPT ![d] =
       [o \in Objs |-> IF o \in pruned THEN Deletion(now') ELSE j.objs[o]]]
  /\ job' = [job EXCEPT ![d] = NoJob]
  /\ UNCHANGED <<tomb, latest, remote, events>>

-----------------------------------------------------------------------------
Round(d) == StartSync(d) \/ Publish(d) \/ Rejected(d) \/ Commit(d)

Next ==
  \E d \in Devices :
    \/ Round(d) \/ BreakOff(d)
    \/ \E o \in Objs : Change(d, o) \/ Add(d, o) \/ Delete(d, o)

\* A device goes on syncing.
Fairness == \A d \in Devices : WF_vars(Round(d))

Spec == Init /\ [][Next]_vars /\ Fairness

-----------------------------------------------------------------------------
(* Properties.                                                             *)

\* The members of a device's map are the objects it has files of, though the
\* list and the files are brought and decided on apart: the map opens
\* (check_member_object_consistency, load_current_objects).
MembersHaveFiles ==
  \A d \in Devices : Members(graph[d]) = {o \in Objs : file[d][o] > 0}

Deleted(o) == \E d \in Devices : tomb[d][o] > 0

\* The last change of an object is never lost, whatever else becomes of the
\* graph.json that went with it (merge_starmap_object_with_versions).  Of the
\* objects that the devices shared, as long as no user deletes them.
LastEditStands ==
  \A o \in Existing : ~Deleted(o) => \E d \in Devices : file[d][o] = latest[o]

\* What a user changes or adds while a round is out, the commit does not take
\* from him, but for a later change or deletion that the round brings
\* (compute_commit_plan compares with what the round started from).
WorkInRoundKept ==
  [][\A d \in Devices, o \in Objs :
       file'[d][o] < file[d][o] /\ tomb' = tomb
         => file[d][o] = job[d].base.f[o] \/ job[d].objs[o].t > file[d][o]]_vars

Everywhere(o, c) == remote.objs[o].c = c /\ \A d \in Devices : file[d][o] = c

\* When the users stop, all devices come to show the same map, the remote's,
\* and an object of it that was deleted after its last change is gone: what
\* an overtaken graph.json said of it is made good by the next commits.
Converges ==
  <>[](/\ \A d \in Devices : Members(graph[d]) = Members(remote.graph.g)
       /\ \A o \in Objs : \E c \in 0..now : Everywhere(o, c)
       /\ \A o \in Existing :
            (\E d \in Devices : tomb[d][o] > latest[o]) => Everywhere(o, 0))

\* starmap_merge.rs:10 says that additions that do not conflict are kept: an
\* object that was added, and that no user deleted, is somewhere.
AdditionsKept ==
  \A o \in Objs : latest[o] > 0 /\ ~Deleted(o) =>
    remote.objs[o].c > 0 \/ \E d \in Devices : file[d][o] > 0
=============================================================================
