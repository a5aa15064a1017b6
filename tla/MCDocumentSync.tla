--------------------------- MODULE MCDocumentSync ---------------------------
(* Model checking of DocumentSync.                                          *)
EXTENDS DocumentSync

\* The user deletes the document, or another program removes its file.
OneKindOfLoss == Init /\ [][Next /\ (deletes' = 0 \/ vanishes' = 0)]_vars

\* The fairness of FairSpec said of states, which TLC checks faster: only
\* rounds, and few times faults, change whether a device is idle, and a round
\* can always be started or go on.
StateFairness ==
  \A d \in Devices : []<>(pc[d] = "idle") /\ []<>(pc[d] # "idle")

FairOneKindOfLoss == OneKindOfLoss /\ StateFairness
=============================================================================
