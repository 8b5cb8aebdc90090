---------------------------- MODULE MCWmsMemory ----------------------------
(***************************************************************************)
(* Callers, observations and grants of WmsMemory for TLC.  The run of      *)
(* MCWorkItems gives Calls, Observations, Reports and Grants these sets,   *)
(* one workload after the other; the other constants are sets of model     *)
(* values and small numbers.                                               *)
(***************************************************************************)
EXTENDS WmsRefinement, TLC

CONSTANTS i1, i2, i3,        \* work items
          s1, s2, s3, s4,    \* Job Sites
          mat, dt, human, rcn, \* the Materializer, the Drafting Table, ...
          m1, m2, m3,        \* materialization keys
          c1, c2,            \* tested candidates
          t1, t2,            \* merge targets
          cs1,               \* change set
          d1,                \* digest
          a1, a2, a3,        \* approvals
          k1, k2             \* idempotency keys

Sites == {s1, s2}


\* A call without payload, from the state the caller believes the item is in.
Call(op, role, subject, item, from) ==
    [op |-> op, role |-> role, subject |-> subject, item |-> item,
     key |-> None, mkey |-> None, source |-> NoSource, expState |-> from,
     expVersion |-> 0, token |-> 0, proof |-> TRUE, envelope |-> NoEnvelope,
     submission |-> 0, kind |-> None, cs |-> None, approval |-> None,
     digest |-> None]

\* No change set plans build work.
NoPlannedItem == [cs \in ChangeSets |-> None]

From(op) == {t[2] : t \in {u \in v1Transitions : u[1] = op}}

\* The payload-free calls of one principal for the given operations.
Plain(role, subject, ops, items) ==
    UNION {{Call(op, role, subject, i, from) : i \in items, from \in From(op)} :
              op \in ops}

SourceOf(item, deps, readiness, target) ==
    [item |-> item, deps |-> deps, readiness |-> readiness,
     required |-> TRUE, target |-> target, defect |-> "none"]

MaterializeCall(item, mkey, source) ==
    [Call("materialize", "materializer", mat, item, "initial") EXCEPT
        !.mkey = mkey, !.source = source]

\* A tested candidate, and the merge of one.
Tested(candidate, target) ==
    [candidate |-> candidate, target |-> target, commit |-> FALSE,
     version |-> 0]
Merged(candidate, target) == [Tested(candidate, target) EXCEPT !.commit = TRUE]

BeginMergeCall(subject, item, envelope) ==
    [Call("begin-merge", "job-site", subject, item, "inspecting") EXCEPT
        !.envelope = envelope]

RecordMergeCall(subject, item, envelope) ==
    [Call("record-merge", "job-site", subject, item, "merging") EXCEPT
        !.envelope = envelope]

Plainly(kind) == [kind |-> kind, envelope |-> NoEnvelope]
MergeSeen(candidate, target) ==
    [kind |-> "merge-recorded", envelope |-> Merged(candidate, target)]

-----------------------------------------------------------------------------
(* One item through its whole lifecycle, two Job Sites competing for it.   *)
(* Its materialization is sent again at any time.  Its contract names no   *)
(* merge target, so the first merge chooses one.                           *)

LifecycleCalls ==
    UNION {
      {[MaterializeCall(i1, m1, SourceOf(i1, {}, "ready", None)) EXCEPT
          !.key = k1]},
      UNION {Plain("job-site", s, {"claim", "renew-lease", "tests-pass",
                "raise-spec-question", "refresh-active",
                "return-to-building", "merge-conflict"}, {i1}) : s \in Sites},
      {BeginMergeCall(s, i1, Tested(c1, t)) : s \in Sites, t \in {t1, t2}},
      {RecordMergeCall(s, i1, e) :
          s \in Sites, e \in {Merged(c1, t1), Merged(c1, t2), Merged(c2, t1)}},
      Plain("reconciler", rcn, {"recover-lease", "merge-conflict",
                                "merge-not-applied", "record-merge"}, {i1}),
      Plain("human-maintainer", human, {"abandon"}, {i1})}

LifecycleObservations ==
    {Plainly(k) : k \in {"conflict", "not-applied", "lease-recovered",
                         "not-integrated"}}
      \cup {MergeSeen(c1, t1)}

\* What VR-017 is about: one Job Site, one merge attempt after another.
MergeCalls ==
    UNION {
      {MaterializeCall(i1, m1, SourceOf(i1, {}, "ready", t1))},
      Plain("job-site", s1, {"claim", "tests-pass", "merge-conflict"}, {i1}),
      {BeginMergeCall(s1, i1, Tested(c1, t1))},
      {RecordMergeCall(s1, i1, Merged(c1, t1))},
      Plain("reconciler", rcn, {"merge-not-applied"}, {i1})}

MergeObservations == {Plainly("not-applied")}

-----------------------------------------------------------------------------
(* Items that depend on each other, possibly in a cycle, and competing     *)
(* materializations of the same item and of the same key.  i1 may also be  *)
(* blocked on a requirement that change set cs1 adds and i2 builds.  A     *)
(* contract may name the target that the merge has to have.                *)

SubmitCall(kind, cs, approval) ==
    [Call("submit-resolution", "drafting-table", dt, i1, "blocked") EXCEPT
        !.kind = kind, !.cs = cs, !.approval = approval, !.digest = d1]

ResolveCall(submission, kind, cs, approval) ==
    [Call("resolve-block", "materializer", mat, i1, "blocked") EXCEPT
        !.submission = submission, !.kind = kind, !.cs = cs,
        !.approval = approval, !.digest = d1]

\* The Gate fills in the state and the version at which it grants a scope.
ResolutionGrant(kind, cs) ==
    ResolutionScope(mat, i1, kind, cs, d1, "blocked", 0)

Planned == [cs \in ChangeSets |-> i2]

DependencyCalls ==
    UNION {
      {MaterializeCall(i1, m1, SourceOf(i1, deps, "ready", None)) :
          deps \in {{}, {i2}}},
      {MaterializeCall(i1, m1, SourceOf(i1, {}, "blocker", t1))},
      {MaterializeCall(i2, m, SourceOf(i2, {i1}, "ready", None)) :
          m \in {m1, m2}},
      {MaterializeCall(i2, m2, SourceOf(i2, {}, "ready", t1))},
      Plain("materializer", mat, {"refresh-dependencies", "revalidate"},
            {i1, i2}),
      Plain("job-site", s3, {"claim", "tests-pass"}, {i1, i2}),
      {BeginMergeCall(s3, i, Tested(c1, t)) : i \in {i1, i2}, t \in Targets},
      {RecordMergeCall(s3, i, Merged(c1, t1)) : i \in {i1, i2}},
      Plain("human-maintainer", human, {"abandon"}, {i1, i2}),
      {SubmitCall("add-requirement", cs1, a) : a \in Approvals},
      {ResolveCall(s, "add-requirement", cs1, a) :
          s \in SubmissionIds, a \in Approvals}}

DependencyGrants == {ResolutionGrant("add-requirement", cs1)}

DependencyObservations == {Plainly("not-integrated")}

-----------------------------------------------------------------------------
(* i1 blocks, again and again, and is resolved on human decisions.  (That  *)
(* a blocked item is abandoned is part of the workload before.)            *)

BlockedWorkCalls ==
    UNION {
      {MaterializeCall(i1, m1, SourceOf(i1, {}, "blocker", t1))},
      Plain("materializer", mat, {"revalidate"}, {i1}),
      Plain("job-site", s3, {"claim", "raise-spec-question",
                             "refresh-active"}, {i1}),
      {SubmitCall("out-of-scope", None, a) : a \in Approvals},
      {SubmitCall("impact-amendment", cs1, a) : a \in Approvals},
      {[Call("acknowledge", "drafting-table", dt, i1, "blocked") EXCEPT
          !.approval = a, !.digest = d1] : a \in Approvals},
      {ResolveCall(s, "out-of-scope", None, a) :
          s \in SubmissionIds, a \in Approvals},
      {ResolveCall(s, "impact-amendment", cs1, a) :
          s \in SubmissionIds, a \in Approvals}}

BlockedWorkGrants ==
    {ResolutionGrant("out-of-scope", None),
     ResolutionGrant("impact-amendment", cs1),
     [ResolutionGrant(None, None) EXCEPT !.action = "acknowledge",
                                         !.principal = dt]}

-----------------------------------------------------------------------------
(* Calls that are repeated under their idempotency key, among them         *)
(* resolutions that leave it to the submission to name the change set.     *)

ResolutionRetryCalls ==
    UNION {
      {MaterializeCall(i1, m1, SourceOf(i1, {}, "blocker", t1))},
      {[SubmitCall("impact-amendment", cs1, a) EXCEPT !.key = k] :
          a \in Approvals, k \in Keys \cup {None}},
      {[Call("acknowledge", "drafting-table", dt, i1, "blocked") EXCEPT
          !.approval = a, !.digest = d1, !.key = k] :
          a \in Approvals, k \in Keys},
      {[ResolveCall(s, "impact-amendment", cs, a) EXCEPT !.key = k] :
          s \in SubmissionIds, cs \in {cs1, None}, a \in Approvals,
          k \in Keys}}

RetryCalls ==
    ResolutionRetryCalls \cup
    UNION {{[c EXCEPT !.key = k] : k \in Keys \cup {None}} : c \in UNION {
      {MaterializeCall(i1, m1, SourceOf(i1, {}, "ready", t)) :
          t \in {None, t1}},
      Plain("materializer", mat, {"revalidate"}, {i1}),
      Plain("job-site", s3, {"claim"}, {i1}),
      Plain("job-site", s4, {"claim", "renew-lease"}, {i1})}}

RetryGrants == {ResolutionGrant("impact-amendment", cs1),
     [ResolutionGrant(None, None) EXCEPT !.action = "acknowledge",
                                         !.principal = dt]}
=============================================================================
