-------------------------- MODULE MCGithubAdapter --------------------------
(***************************************************************************)
(* Instances of GithubAdapter for TLC: the calls callers make, each as     *)
(* often as they like, over a network with at most two faults in a call.   *)
(***************************************************************************)
EXTENDS GithubAdapter

CONSTANTS js, mat, i1, i2, ca, cb, cc, cs1, low, high, a1,
          k1, k2, k3, k4, m1, m2, d1

Blank == [op |-> "create", role |-> "drafting-table", subject |-> mat,
          key |-> k1, req |-> 0, rev |-> 0, content |-> None, related |-> 0,
          approval |-> None, prio |-> None, cs |-> None, item |-> None,
          mkey |-> None, source |-> NoSource, expState |-> "initial",
          expVersion |-> 0]

CreateCall(k, x) == [Blank EXCEPT !.key = k, !.content = x]
RefineCall(k, r, n, x, a, rel) ==
    [Blank EXCEPT !.op = "refine", !.key = k, !.req = r, !.rev = n,
                  !.content = x, !.approval = a, !.related = rel]
PriorityCall(k, r, n, p) ==
    [Blank EXCEPT !.op = "update-priority", !.key = k, !.req = r, !.rev = n,
                  !.prio = p]
LinkSetCall(k, r, n) ==
    [Blank EXCEPT !.op = "link-change-set", !.key = k, !.req = r, !.rev = n,
                  !.cs = cs1]
LinkItemCall(k, r, n, i) ==
    [Blank EXCEPT !.op = "link-work-item", !.key = k, !.req = r, !.rev = n,
                  !.item = i]
SourceOf(i, deps) ==
    [item |-> i, deps |-> deps, readiness |-> "ready", required |-> TRUE,
     target |-> None, defect |-> "none"]
MaterializeCall(k, m, source) ==
    [Blank EXCEPT !.op = "materialize", !.role = "materializer", !.key = k,
                  !.item = source.item, !.mkey = m, !.source = source]
ClaimCall(k, i) ==
    [Blank EXCEPT !.op = "claim", !.role = "job-site", !.subject = js,
                  !.key = k, !.item = i, !.expState = "ready-for-building",
                  !.expVersion = 1]

Scopes == [a \in Approvals |-> [req |-> 1, content |-> cb]]
SeedsOf == {[s \in ChangeSets |-> [rev |-> "proposed", prio |-> low]]}

\* Creations of which two compete for a key, and two refinements that name
\* the same approval.
RefineCalls ==
    {CreateCall(k1, ca), CreateCall(k2, cc),
     RefineCall(k3, 1, 1, cb, a1, 0), RefineCall(k4, 1, 2, cb, a1, 2)}

CreateCalls == {CreateCall(k1, ca), CreateCall(k1, cb), CreateCall(k2, ca)}

\* A request, its work item and its priority; its change set and priority.
LinkCalls ==
    {CreateCall(k1, ca), MaterializeCall(k2, m1, SourceOf(i1, {})),
     LinkItemCall(k3, 1, 1, i1), PriorityCall(k4, 1, 2, high)}

SetCalls ==
    {CreateCall(k1, ca), PriorityCall(k2, 1, 1, low), LinkSetCall(k3, 1, 1),
     PriorityCall(k4, 1, 2, high)}

\* A request that has a work item when its change set brings a priority.
ItemSetCalls ==
    {CreateCall(k1, ca), MaterializeCall(k2, m1, SourceOf(i1, {})),
     LinkItemCall(k3, 1, 1, i1), LinkSetCall(k4, 1, 2)}

\* Materializations that compete for a key and an item, and claims.
ItemCalls ==
    {MaterializeCall(k1, m1, SourceOf(i1, {})),
     MaterializeCall(k2, m1, SourceOf(i1, {})),
     ClaimCall(k3, i1), ClaimCall(k4, i1)}

KeyCalls ==
    {MaterializeCall(k1, m1, SourceOf(i1, {i2})),
     MaterializeCall(k2, m1, SourceOf(i2, {})),
     MaterializeCall(k3, m2, [SourceOf(i2, {}) EXCEPT !.required = FALSE]),
     MaterializeCall(k4, m2, SourceOf(i1, {}))}

AllWorkloads ==
    {CreateCalls, RefineCalls, LinkCalls, SetCalls, ItemSetCalls, ItemCalls,
     KeyCalls}

ItemWorkload == {ItemCalls}
=============================================================================
