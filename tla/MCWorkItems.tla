---------------------------- MODULE MCWorkItems ----------------------------
(***************************************************************************)
(* The lifecycle, dependencies, blocked work and retries of WmsMemory in   *)
(* one run: every initial state has one of the four workloads of           *)
(* MCWmsMemory, with its own callers and bounds; those of the constants    *)
(* themselves are the ones of the lifecycle.                               *)
(***************************************************************************)
EXTENDS MCWmsMemory

\* The Job Sites that compete in the lifecycle, and the approvals, are only
\* compared for equality; the other workloads use Job Sites of their own.
Symmetry == Permutations(Sites) \cup Permutations(Approvals)

VARIABLE workload

Dependencies == INSTANCE WmsMemory WITH
    Calls <- DependencyCalls, Reports <- {"ready"},
    Observations <- DependencyObservations, Grants <- DependencyGrants,
    Approvals <- {a1}, Keys <- {}, MaxVersion <- 5, MaxTime <- 0, MaxLag <- 0

BlockedWork == INSTANCE WmsMemory WITH
    Calls <- BlockedWorkCalls, Reports <- {"ready", "blocker"},
    Observations <- {}, Grants <- BlockedWorkGrants,
    Keys <- {}, MaxVersion <- 5, MaxTime <- 1, MaxLag <- 0

Retries == INSTANCE WmsMemory WITH
    Calls <- RetryCalls, Reports <- {"ready"},
    Observations <- {}, Grants <- RetryGrants,
    MaxVersion <- 3, MaxTime <- 0, MaxLag <- 1

\* Bound: how many resolutions are submitted.
Submissions == [lifecycle |-> 0, dependencies |-> 1, blocked |-> 3, retries |-> 2]

WorkInit == Init /\ workload \in DOMAIN Submissions

WorkNext ==
    /\ \/ workload = "lifecycle" /\ Next
       \/ workload = "dependencies" /\ Dependencies!Next
       \/ workload = "blocked" /\ BlockedWork!Next
       \/ workload = "retries" /\ Retries!Next
    /\ nextSubmission' <= Submissions[workload]
    /\ UNCHANGED workload

WorkSpec == WorkInit /\ [][WorkNext]_<<vars, workload>>
=============================================================================
