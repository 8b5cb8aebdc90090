-------------------------- MODULE ValidationRules --------------------------
(***************************************************************************)
(* The Validation Rules evaluator of wms/validation: a pure function from  *)
(* a request, the current work-item record and an evaluation context to a  *)
(* verdict.  Evaluate never changes anything; the adapters (WmsMemory)     *)
(* call it under their lock and apply what it allows.                      *)
(*                                                                         *)
(* Data abstraction.  A nil work item is the record in state "initial" at  *)
(* version 0.  Readiness keeps the three outcomes the rules tell apart.    *)
(* Dependency states keep "completed or not": a record has the set deps of *)
(* its dependencies and the set done of those stored as completed.  The    *)
(* three inspection flags are always written together and only ever tested *)
(* together, so one flag stands for them.  The (status, git_mutation) pair *)
(* of reconciliation evidence is one name.  None is the empty string.      *)
(***************************************************************************)
EXTENDS Integers, FiniteSets

CONSTANTS Items,        \* work-item identities
          Subjects,     \* principals the Gate can resolve
          Candidates,   \* tested candidates (tree digest, run, head)
          Targets,      \* merge targets
          ChangeSets,   \* change sets a resolution can name
          Digests,      \* digests of approved resolutions
          Approvals,    \* Gate approval identities
          None          \* the empty value

ASSUME NoneAssumption ==
    None \notin Items \cup Subjects \cup Candidates \cup Targets
                \cup ChangeSets \cup Digests \cup Approvals

Roles == {"human-maintainer", "drafting-table", "materializer", "job-site",
          "reconciler"}

States == {"initial", "waiting", "ready-for-building", "building",
           "inspecting", "merging", "completed", "blocked", "abandoned"}

Terminal == {"completed", "abandoned"}

\* The (operation, from) pairs of the transition table.
v1Transitions ==
    UNION { {"materialize"}          \X {"initial"},
            {"refresh-dependencies"} \X {"waiting"},
            {"revalidate"}           \X {"waiting", "ready-for-building"},
            {"resolve-block"}        \X {"blocked"},
            {"claim"}                \X {"ready-for-building"},
            {"tests-pass"}           \X {"building"},
            {"renew-lease", "raise-spec-question", "refresh-active",
             "recover-lease"}        \X {"building", "inspecting"},
            {"return-to-building", "begin-merge"} \X {"inspecting"},
            {"merge-conflict", "merge-not-applied",
             "record-merge"}         \X {"merging"},
            {"abandon"} \X {"waiting", "ready-for-building", "building",
                            "inspecting", "blocked"} }

LifecycleOperations == { t[1] : t \in v1Transitions }

BlockedWorkOperations == {"submit-resolution", "acknowledge"}

Operations == LifecycleOperations \cup BlockedWorkOperations

\* The exclusive role families of the Gate policy.
RoleAllows(role, op) ==
    \/ role = "human-maintainer" /\ op = "abandon"
    \/ role = "drafting-table" /\ op \in BlockedWorkOperations
    \/ role = "materializer" /\ op \in {"materialize", "refresh-dependencies",
                                        "revalidate", "resolve-block"}
    \/ role = "job-site" /\ op \in {"claim", "renew-lease", "tests-pass",
            "raise-spec-question", "refresh-active", "return-to-building",
            "begin-merge", "merge-conflict", "record-merge"}
    \/ role = "reconciler" /\ op \in {"recover-lease", "merge-conflict",
            "merge-not-applied", "record-merge"}

-----------------------------------------------------------------------------
(* Records.                                                                *)

Readiness == {"ready", "blocker", "contract-failure"}

Lease == [owner: Subjects \cup {None}, token: Nat, expires: Nat]
NoLease == [owner |-> None, token |-> 0, expires |-> 0]

\* candidate = None: one of tree digest, inspection run or head is empty.
Envelope == [candidate: Candidates \cup {None}, target: Targets \cup {None},
             commit: BOOLEAN, version: Nat]
NoEnvelope == [candidate |-> None, target |-> None, commit |-> FALSE,
               version |-> 0]

\* "other": any status/mutation pair the rules match against nothing.
EvidenceKinds == {"empty", "conflict", "not-applied", "merge-recorded",
                  "lease-recovered", "not-integrated", "other"}
Evidence == [kind: EvidenceKinds, envelope: Envelope]

\* A materialization source: defect names what makes its contract invalid.
Source == [item: Items \cup {None}, deps: SUBSET Items, readiness: Readiness,
           required: BOOLEAN, target: Targets \cup {None},
           defect: {"none", "change-type", "tested-candidate"}]
NoSource == [item |-> None, deps |-> {}, readiness |-> "contract-failure",
             required |-> FALSE, target |-> None, defect |-> "none"]

Kinds == {"add-requirement", "out-of-scope", "impact-amendment"}

\* What a Gate approval is bound to, field by field.
Scope == [action: {"resolve-block", "acknowledge"}, principal: Subjects,
          item: Items, kind: Kinds \cup {None}, cs: ChangeSets \cup {None},
          digest: Digests, state: States, version: Nat]

-----------------------------------------------------------------------------
(* Helpers of the rules.                                                   *)

HasLease(item) == item.lease.token # 0

hasActiveLease(item, now) == HasLease(item) /\ item.lease.expires > now

\* The operations a Job Site may run only with its live fence: all but claim.
requiresLiveFence(r) == r.role = "job-site" /\ r.op # "claim"

validateLiveFence(r, item, now) ==
    /\ hasActiveLease(item, now)
    /\ item.lease.owner = r.subject
    /\ item.lease.token = r.token

\* A source may name the merge target only, and that is all it is bound by.
SourceFingerprint(source) ==
    [source EXCEPT !.defect = IF @ = "tested-candidate" THEN "none" ELSE @]

testedCandidate(r, item) ==
    /\ r.envelope.candidate # None
    /\ r.envelope.target # None
    /\ ~r.envelope.commit
    /\ r.envelope.version = item.version + 1
    /\ item.expected.target \in {None, r.envelope.target}

\* Mutation: the contract version of the merge is not compared.
MatchesAtAnyVersion(expected, actual, version) ==
    /\ actual.candidate # None
    /\ actual.target # None
    /\ actual.commit
    /\ expected.candidate = actual.candidate
    /\ expected.target = actual.target

mergeEnvelopeMatches(expected, actual, version) ==
    /\ actual.candidate # None
    /\ actual.target # None
    /\ actual.commit
    /\ actual.version = version
    /\ expected.candidate = actual.candidate
    /\ expected.target = actual.target
    /\ expected.version = actual.version

\* Every Gate binding must agree, in both directions.
ValidateApproval(approval, scope, now) ==
    /\ approval.status = "unused"
    /\ now < approval.expires
    /\ approval.scope = scope

ResolutionScope(principal, item, kind, cs, digest, state, version) ==
    [action |-> "resolve-block", principal |-> principal, item |-> item,
     kind |-> kind, cs |-> cs, digest |-> digest, state |-> state,
     version |-> version]

\* Mutation: the approval is not validated again when it is consumed.
BindsWithoutApproval(r, ev) ==
    /\ r.submission # 0
    /\ ev.active = r.submission
    /\ ev.submission.status = "pending"
    /\ ev.submission.item = r.item
    /\ ev.submission.kind = r.kind
    /\ ev.submission.approval = r.approval
    /\ ev.submission.digest = r.digest

\* resolve-block names the active pending submission and its approval.
validateResolutionBinding(r, ev) ==
    /\ r.submission # 0
    /\ r.approval # None
    /\ r.digest # None
    /\ ev.active = r.submission
    /\ ev.submission.status = "pending"
    /\ ev.submission.item = r.item
    /\ ev.submission.kind = r.kind
    /\ ev.submission.approval = r.approval
    /\ ev.submission.digest = r.digest
    /\ ValidateApproval(ev.approval,
                        ResolutionScope(r.subject, r.item, r.kind,
                                        ev.submission.cs, r.digest,
                                        r.expState, r.expVersion), ev.now)

validateResolutionRefresh(ev) ==
    \/ ev.submission.kind = "add-requirement" /\ ev.planned
    \/ ev.submission.kind = "out-of-scope" /\ ev.submission.confirmed
    \/ ev.submission.kind = "impact-amendment"

-----------------------------------------------------------------------------
(* The verdict.  "allowed" and "omitted" are the two ways to commit, every *)
(* other value is the code of the first check that fails.                  *)

\* Mutation: the expected contract version is not compared.
PreconditionsAtAnyVersion(r, item, ev) ==
    IF r.op = "resolve-block" /\ ~validateResolutionBinding(r, ev)
      THEN "UNAUTHORIZED_ACTION"
    ELSE IF item.state \in Terminal THEN "ALREADY_TERMINAL"
    ELSE IF r.op = "claim" /\ hasActiveLease(item, ev.now)
      THEN "DUPLICATE_CLAIM"
    ELSE IF r.expState # item.state THEN "STALE_STATE"
    ELSE IF requiresLiveFence(r) /\ ~validateLiveFence(r, item, ev.now)
      THEN "STALE_FENCING_TOKEN"
    ELSE "allowed"

validateMutationPreconditions(r, item, ev) ==
    IF r.op = "resolve-block" /\ ~validateResolutionBinding(r, ev)
      THEN "UNAUTHORIZED_ACTION"
    ELSE IF item.state \in Terminal THEN "ALREADY_TERMINAL"
    ELSE IF r.op = "claim" /\ hasActiveLease(item, ev.now)
      THEN "DUPLICATE_CLAIM"
    ELSE IF r.expState # item.state THEN "STALE_STATE"
    ELSE IF r.expVersion # item.version THEN "STALE_CONTRACT_VERSION"
    ELSE IF requiresLiveFence(r) /\ ~validateLiveFence(r, item, ev.now)
      THEN "STALE_FENCING_TOKEN"
    ELSE "allowed"

\* Mutation: dependencies are not looked at.
BuildableByReadiness(item, ev) == ev.readiness = "ready"

\* Refreshed evidence lets the item be built: contract, blockers, dependencies.
Buildable(item, ev) == ev.readiness = "ready" /\ item.deps = ev.done

\* The command-specific precondition of every operation but materialize.
evaluateTransition(r, item, ev) ==
    \/ r.op = "refresh-dependencies" /\ Buildable(item, ev)
    \/ r.op = "revalidate" /\ ev.readiness # "ready"
    \/ /\ r.op = "resolve-block"
       /\ validateResolutionRefresh(ev)
       /\ Buildable(item, ev)
    \/ /\ r.op = "claim"
       /\ item.readiness = "ready"
       /\ item.deps = item.done
    \/ r.op \in {"renew-lease", "refresh-active"}
    \/ r.op \in {"tests-pass", "raise-spec-question", "return-to-building"}
       /\ r.proof
    \/ r.op = "begin-merge" /\ item.inspected /\ testedCandidate(r, item)
    \/ /\ r.op = "merge-conflict"
       /\ item.rec.kind \in (IF r.role = "reconciler" THEN {"conflict"}
                                                      ELSE {"empty", "conflict"})
    \/ r.op = "merge-not-applied" /\ item.rec.kind = "not-applied"
    \/ /\ r.op = "record-merge"
       /\ IF r.role = "reconciler"
            THEN /\ item.rec.kind = "merge-recorded"
                 /\ mergeEnvelopeMatches(item.expected, item.rec.envelope,
                                         item.version)
            ELSE mergeEnvelopeMatches(item.expected, r.envelope, item.version)
    \/ /\ r.op = "recover-lease"
       /\ ~hasActiveLease(item, ev.now)
       /\ item.rec.kind = "lease-recovered"
    \/ r.op = "abandon" /\ r.proof /\ item.rec.kind = "not-integrated"

evaluateMaterialization(r) ==
    IF r.mkey = None \/ r.source.item # r.item THEN "PRECONDITION_FAILED"
    ELSE IF r.source.defect = "change-type" THEN "INVALID_CHANGE_TYPE"
    ELSE IF \/ r.source.readiness = "contract-failure"
            \/ r.source.defect = "tested-candidate"
      THEN "PRECONDITION_FAILED"
    ELSE IF ~r.source.required THEN "omitted"
    ELSE "allowed"

\* The state a materialization that is allowed starts in.
MaterializedState(source, done) ==
    IF source.readiness = "blocker" THEN "blocked"
    ELSE IF source.deps # done THEN "waiting"
    ELSE "ready-for-building"

Evaluate(r, item, ev) ==
    LET precondition == validateMutationPreconditions(r, item, ev) IN
    IF r.op # "materialize" /\ item.state = "initial" THEN "NOT_FOUND"
    ELSE IF r.op = "materialize" /\ item.state # "initial"
      THEN "IDEMPOTENCY_CONFLICT"
    ELSE IF precondition # "allowed" THEN precondition
    ELSE IF <<r.op, item.state>> \notin v1Transitions THEN "INVALID_TRANSITION"
    ELSE IF r.op = "materialize" THEN evaluateMaterialization(r)
    ELSE IF evaluateTransition(r, item, ev) THEN "allowed"
    ELSE "PRECONDITION_FAILED"

Verdicts == {"allowed", "omitted", "NOT_FOUND", "UNAUTHORIZED_ACTION",
             "IDEMPOTENCY_CONFLICT", "ALREADY_TERMINAL", "DUPLICATE_CLAIM",
             "STALE_STATE", "STALE_CONTRACT_VERSION", "STALE_FENCING_TOKEN",
             "INVALID_TRANSITION", "INVALID_CHANGE_TYPE",
             "PRECONDITION_FAILED", "INVALID_REQUEST"}
=============================================================================
