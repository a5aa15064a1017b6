----------------------------- MODULE MCFullSync -----------------------------
(* Model checking of FullSync.                                              *)
EXTENDS FullSync

\* The fairness of Spec said of states, which TLC checks faster: only rounds,
\* and few times faults, change whether a device is idle, a round can always
\* be started unless the device skips the work, and a journal is queued.
StateFairness ==
  \A d \in Devices :
    /\ []<>(pc[d] = "idle") /\ []<>(pc[d] # "idle" \/ Skips(d))
    /\ []<>(journal[d] = 0)

FairInStates == Init /\ [][Next]_vars /\ StateFairness
=============================================================================
