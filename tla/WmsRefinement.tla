--------------------------- MODULE WmsRefinement ---------------------------
(***************************************************************************)
(* The in-memory WMS implements WorkItemContract.  Waiting, ready and      *)
(* blocked items are open; building and inspecting are one attempt, which  *)
(* the fencing token of the lease numbers.  Planning commands, tests-pass, *)
(* renew-lease, everything about approvals and submissions, rejections and *)
(* retries are steps the contract does not see.                            *)
(***************************************************************************)
EXTENDS WmsMemory

PhaseOf(state) ==
    CASE state = "initial" -> "none"
      [] state \in {"waiting", "ready-for-building", "blocked"} -> "open"
      [] state \in {"building", "inspecting"} -> "attempt"
      [] OTHER -> state

phases == [i \in Items |-> PhaseOf(workItems[i].state)]
attempts == [i \in Items |-> workItems[i].lease.token]
inspections == [i \in Items |-> workItems[i].inspected]
targets == [i \in Items |-> workItems[i].expected.target]

Contract == INSTANCE WorkItemContract WITH
    phase <- phases, attempt <- attempts, issued <- nextFencingToken,
    inspected <- inspections, target <- targets

\* Every lifecycle command, hook and observation is a step of the contract of
\* a work item, or changes nothing the contract speaks of: attempts are
\* numbered afresh on every way back to building, only what was inspected in
\* this attempt merges, its target is settled once, and outcomes are final.
ImplementsContract == Contract!Spec
=============================================================================
