--------------------------- MODULE MCStarMapSync ---------------------------
(* Model checking of StarMapSync: a node and an edge, of which graph.json *)
(* can be written in one way only, and two nodes, in two.                  *)
EXTENDS StarMapSync

CONSTANTS n1, n2, e1
KindOf(o) == IF o = e1 THEN "edge" ELSE "node"

\* The fairness of Spec said of states, which TLC checks faster: only rounds,
\* and few times BreakOff, change where a device is, a round never comes back
\* to where it was, and one can always be started.
StateFairness ==
  \A d \in Devices : []<>(job[d].at = "idle") /\ []<>(job[d].at # "idle")

\* The devices start alike: what differs first happens on the first of them.
FirstOnOne ==
  events = 0 /\ events' = 1 => \A d \in Devices \ {1} : UNCHANGED <<graph[d], job[d]>>

FairInStates == Init /\ [][Next /\ FirstOnOne]_vars /\ StateFairness
=============================================================================
