CONSTANTS
    a = a  b = b  c = c
    Procs = {app}
    Nodes = {a, b, c}
    None = None
    Original <- OldNodes
    FailAt = {"changed", "write", "plan"}
    MaxFaults = 1
    MaxCrashes = 2
    MaxOps = 4
SPECIFICATION StoreSpec
INVARIANTS MembersLoadable DeathsAreTold AppliedStands
