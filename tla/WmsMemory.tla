----------------------------- MODULE WmsMemory -----------------------------
(***************************************************************************)
(* The in-memory WMS adapter (wms/memory): work items, leases and fencing  *)
(* tokens, idempotency results, materialization reservations, resolution   *)
(* submissions and Gate approvals, all changed under one mutex, so every   *)
(* call of Execute and every Observe hook is one atomic step.              *)
(*                                                                         *)
(* A call the Gate refuses, and a rejected call, change nothing but the    *)
(* idempotency table; they are steps only when they carry a key that may   *)
(* be used again.  The key None stands for a fresh key that no later call  *)
(* repeats: what is remembered under it can never be read again.           *)
(***************************************************************************)
EXTENDS ValidationRules

CONSTANTS Keys,          \* idempotency keys that callers may use again
          MKeys,         \* materialization keys
          PlannedItem,   \* change set -> its build work item, or None
          Materializer,  \* the configured MaterializerSubject
          LeaseDuration, \* ticks a lease lasts
          Calls,         \* the requests callers make, up to the fields
                         \* Next fills in from what callers have read
          Reports,       \* readiness the WMS observes
          Observations,  \* reconciliation evidence the integration reports
          Grants,        \* the scopes humans approve
          MaxVersion,    \* bound: contract versions
          MaxTime,       \* bound: clock
          MaxLag,        \* bound: how old a caller's snapshot may be
          MaxSubmissions \* bound: resolution submissions

SubmissionIds == 1..MaxSubmissions

Request == [op: Operations, role: Roles, subject: Subjects, item: Items,
            key: Keys \cup {None}, mkey: MKeys \cup {None}, source: Source,
            expState: States, expVersion: Nat, token: Nat, proof: BOOLEAN,
            envelope: Envelope, submission: Nat, kind: Kinds \cup {None},
            cs: ChangeSets \cup {None}, approval: Approvals \cup {None},
            digest: Digests \cup {None}]

ASSUME ConstantsAssumption ==
    /\ None \notin Keys \cup MKeys
    /\ PlannedItem \in [ChangeSets -> Items \cup {None}]
    /\ Materializer \in Subjects
    /\ LeaseDuration \in Nat \ {0}
    /\ Calls \subseteq Request
    /\ Reports \subseteq Readiness
    /\ Observations \subseteq Evidence
    /\ Grants \subseteq Scope
    /\ MaxVersion \in Nat
    /\ MaxTime \in Nat
    /\ MaxLag \in Nat
    /\ MaxSubmissions \in Nat

VARIABLES workItems,          \* stored work items
          nextFencingToken,   \* tokens issued so far
          idempotency,        \* remembered results, by key
          materializations,   \* reservations, by materialization key
          observedReadiness,  \* readiness the WMS has observed
          approvals,          \* Gate approvals
          submissions,        \* resolution submissions
          activeSubmissions,  \* the active submission of each item, or 0
          revisions,          \* resolution revision of each item
          nextSubmission,     \* submissions made so far
          acknowledgements,   \* acknowledgement records by approval
          now,                \* the clock
          consumed,           \* history: versions accepted commands expected
          claimedAt,          \* history: version at which the lease was claimed
          answered            \* history: results given to keyed calls

storeVars == <<workItems, nextFencingToken, consumed, claimedAt>>
keyVars == <<idempotency, answered>>
blockedVars == <<approvals, submissions, activeSubmissions, revisions,
                 nextSubmission, acknowledgements>>
vars == <<storeVars, keyVars, blockedVars, materializations,
          observedReadiness, now>>

-----------------------------------------------------------------------------
(* Records.  rec.seen is history: the contract version of the item when    *)
(* the evidence was observed.                                              *)

NoRecord == [kind |-> "empty", envelope |-> NoEnvelope, seen |-> 0]

WorkItem == [state: States, version: Nat, mkey: MKeys \cup {None},
             deps: SUBSET Items, done: SUBSET Items, readiness: Readiness,
             lease: Lease, inspected: BOOLEAN,
             rec: [kind: EvidenceKinds, envelope: Envelope, seen: Nat],
             expected: Envelope]

NoItem == [state |-> "initial", version |-> 0, mkey |-> None, deps |-> {},
           done |-> {}, readiness |-> "contract-failure", lease |-> NoLease,
           inspected |-> FALSE, rec |-> NoRecord, expected |-> NoEnvelope]

Submission == [status: {"absent", "pending", "consumed", "superseded"},
               item: Items \cup {None}, kind: Kinds \cup {None},
               cs: ChangeSets \cup {None}, approval: Approvals \cup {None},
               digest: Digests \cup {None}, confirmed: BOOLEAN, revision: Nat]

NoSubmission == [status |-> "absent", item |-> None, kind |-> None,
                 cs |-> None, approval |-> None, digest |-> None,
                 confirmed |-> FALSE, revision |-> 0]

\* An approval exists once the Gate has granted it, bound to one scope.
Approval == [status: {"absent", "unused", "consumed", "revoked"},
             scope: Scope \cup {None}, expires: Nat]
NoApproval == [status |-> "absent", scope |-> None, expires |-> 0]

\* issued is the fencing token or the submission the call was given, or 0.
Result == [verdict: Verdicts, state: States, version: Nat, issued: Nat]
Applied(item, issued) ==
    [verdict |-> "allowed", state |-> item.state, version |-> item.version,
     issued |-> issued]
Rejected(code) ==
    [verdict |-> code, state |-> "initial", version |-> 0, issued |-> 0]

Init ==
    /\ workItems = [i \in Items |-> NoItem]
    /\ nextFencingToken = 0
    /\ idempotency = {}
    /\ materializations = {}
    /\ observedReadiness = [i \in Items |-> None]
    /\ approvals = [a \in Approvals |-> NoApproval]
    /\ submissions = [s \in SubmissionIds |-> NoSubmission]
    /\ activeSubmissions = [i \in Items |-> 0]
    /\ revisions = [i \in Items |-> 0]
    /\ nextSubmission = 0
    /\ acknowledgements = [a \in Approvals |-> 0]
    /\ now = 0
    /\ consumed = [i \in Items |-> {}]
    /\ claimedAt = [i \in Items |-> 0]
    /\ answered = {}

-----------------------------------------------------------------------------
(* Reading the store.                                                      *)

liveDependencies(deps) == {d \in deps : workItems[d].state = "completed"}

plannedDependencyComplete(cs) ==
    /\ cs # None
    /\ PlannedItem[cs] # None
    /\ workItems[PlannedItem[cs]].state = "completed"

SubmissionOf(id) ==
    IF id \in SubmissionIds THEN submissions[id] ELSE NoSubmission

ApprovalOf(id) == IF id = None THEN NoApproval ELSE approvals[id]

\* The trusted evaluation context Execute assembles for a request.
Context(r) ==
    LET submission == SubmissionOf(r.submission)
    IN  [now |-> now,
         readiness |-> IF observedReadiness[r.item] = None
                         THEN workItems[r.item].readiness
                         ELSE observedReadiness[r.item],
         done |-> liveDependencies(workItems[r.item].deps),
         active |-> activeSubmissions[r.item],
         submission |-> submission,
         approval |-> ApprovalOf(r.approval),
         planned |-> plannedDependencyComplete(submission.cs)]

\* A submission that exists fills in the change set the caller left out.
normalizeLifecycleRequest(r) ==
    IF r.op \in LifecycleOperations /\ r.cs = None
      THEN [r EXCEPT !.cs = SubmissionOf(r.submission).cs]
      ELSE r

-----------------------------------------------------------------------------
(* Committing a lifecycle command.                                         *)

\* First use of the key by a caller whose role may run the operation.
Enters(r) ==
    /\ RoleAllows(r.role, r.op)
    /\ \A e \in idempotency : e.key # r.key

Verdict(r) ==
    Evaluate(normalizeLifecycleRequest(r), workItems[r.item], Context(r))

Allowed(r) ==
    /\ Enters(r)
    /\ workItems[r.item].version < MaxVersion
    /\ Verdict(r) = "allowed"

\* Mutation: rejections are answered but not remembered.
RememberSuccess(r, result) ==
    IF r.key = None THEN UNCHANGED keyVars
    ELSE /\ idempotency' = IF result.verdict \in {"allowed", "omitted"}
              THEN idempotency \cup
                {[key |-> r.key, request |-> normalizeLifecycleRequest(r),
                  result |-> result]}
              ELSE idempotency
         /\ answered' = answered \cup
              {[key |-> r.key, request |-> r, result |-> result]}

rememberIdempotency(r, result) ==
    IF r.key = None THEN UNCHANGED keyVars
    ELSE /\ idempotency' = idempotency \cup
              {[key |-> r.key, request |-> normalizeLifecycleRequest(r),
                result |-> result]}
         /\ answered' = answered \cup
              {[key |-> r.key, request |-> r, result |-> result]}

\* Mutation: rework keeps the inspection evidence of the earlier cycle.
AdvancedInspected(r, to) ==
    [workItems[r.item] EXCEPT !.state = to, !.version = @ + 1]

\* The record after a command that leads to state to: the version moves by
\* one, and inspection evidence survives only towards completion.
Advanced(r, to) ==
    [workItems[r.item] EXCEPT
        !.state = to,
        !.version = @ + 1,
        !.inspected = IF to \in {"inspecting", "merging", "completed",
                                 "abandoned"} THEN @ ELSE FALSE]

\* The fencing token the next lease gets.
nextToken == nextFencingToken + 1

startLease(r) ==
    [owner |-> r.subject, token |-> nextToken, expires |-> now + LeaseDuration]

\* Store item; token is the token issued with it, 0 if none is.
Commit(r, item, token) ==
    /\ workItems' = [workItems EXCEPT ![r.item] = item]
    /\ nextFencingToken' = nextFencingToken + (IF token = 0 THEN 0 ELSE 1)
    /\ consumed' = [consumed EXCEPT ![r.item] = @ \cup {r.expVersion}]
    /\ claimedAt' = IF r.op = "claim"
                      THEN [claimedAt EXCEPT ![r.item] = item.version]
                      ELSE claimedAt
    /\ rememberIdempotency(r, Applied(item, token))
    /\ UNCHANGED <<observedReadiness, now>>

-----------------------------------------------------------------------------
(* Materialization: create-or-return by materialization key.               *)

\* Mutation: the reservation of a materialization key is not looked up.
ReservationsMissed(r) == {}

Reservations(r) == {e \in materializations : e.mkey = r.mkey}

reserve(r, result) ==
    materializations' = materializations \cup
        {[mkey |-> r.mkey, source |-> SourceFingerprint(r.source),
          result |-> result]}

Materialize(r) ==
    LET done == liveDependencies(r.source.deps)
        item == [NoItem EXCEPT
                   !.state = MaterializedState(r.source, done),
                   !.version = 1,
                   !.mkey = r.mkey,
                   !.deps = r.source.deps,
                   !.done = done,
                   !.readiness = r.source.readiness,
                   !.expected.target = r.source.target]
    IN  /\ r.op = "materialize"
        /\ Reservations(r) = {}
        /\ Allowed(r)
        /\ Commit(r, item, 0)
        /\ reserve(r, Applied(item, 0))
        /\ UNCHANGED blockedVars

\* A change set that needs no implementation reserves its key only.
Omit(r) ==
    /\ r.op = "materialize"
    /\ Reservations(r) = {}
    /\ Enters(r)
    /\ Verdict(r) = "omitted"
    /\ reserve(r, Rejected("omitted"))
    /\ rememberIdempotency(r, Rejected("omitted"))
    /\ UNCHANGED <<storeVars, blockedVars, observedReadiness, now>>

\* What a bound materialization key answers.
checkMaterialization(r) ==
    LET entry == CHOOSE e \in Reservations(r) : TRUE
    IN  IF \/ r.source.item # r.item
           \/ r.source.defect = "tested-candidate"
          THEN Rejected("PRECONDITION_FAILED")
        ELSE IF SourceFingerprint(r.source) # entry.source
          THEN Rejected("IDEMPOTENCY_CONFLICT")
        ELSE entry.result

ReturnMaterialized(r) ==
    /\ r.op = "materialize"
    /\ Reservations(r) # {}
    /\ r.key # None
    /\ Enters(r)
    /\ rememberIdempotency(r, checkMaterialization(r))
    /\ UNCHANGED <<storeVars, blockedVars, materializations,
                   observedReadiness, now>>

-----------------------------------------------------------------------------
(* Planning commands of the Materializer.  The refresh operations store    *)
(* the readiness and the dependency states they were decided on.           *)

Refreshed(r, to) ==
    [Advanced(r, to) EXCEPT !.readiness = Context(r).readiness,
                            !.done = Context(r).done]

RefreshDependencies(r) ==
    /\ r.op = "refresh-dependencies"
    /\ Allowed(r)
    /\ Commit(r, Refreshed(r, "ready-for-building"), 0)
    /\ UNCHANGED <<blockedVars, materializations>>

Revalidate(r) ==
    /\ r.op = "revalidate"
    /\ Allowed(r)
    /\ Commit(r, Refreshed(r, "blocked"), 0)
    /\ UNCHANGED <<blockedVars, materializations>>

\* The approval and the submission are consumed with the transition.
ResolveBlock(r) ==
    /\ r.op = "resolve-block"
    /\ Allowed(r)
    /\ Commit(r, Refreshed(r, "ready-for-building"), 0)
    /\ approvals' = [approvals EXCEPT ![r.approval].status = "consumed"]
    /\ submissions' = [submissions EXCEPT ![r.submission].status = "consumed"]
    /\ activeSubmissions' = [activeSubmissions EXCEPT ![r.item] = 0]
    /\ UNCHANGED <<revisions, nextSubmission, acknowledgements,
                   materializations>>

-----------------------------------------------------------------------------
(* Execution commands of the Job Site.                                     *)

Claim(r) ==
    /\ r.op = "claim"
    /\ Allowed(r)
    /\ Commit(r, [Advanced(r, "building") EXCEPT !.rec = NoRecord,
                                                 !.lease = startLease(r)],
              nextToken)
    /\ UNCHANGED <<blockedVars, materializations>>

RenewLease(r) ==
    /\ r.op = "renew-lease"
    /\ Allowed(r)
    /\ Commit(r, [Advanced(r, workItems[r.item].state) EXCEPT
                    !.lease.expires = now + LeaseDuration], 0)
    /\ UNCHANGED <<blockedVars, materializations>>

TestsPass(r) ==
    /\ r.op = "tests-pass"
    /\ Allowed(r)
    /\ Commit(r, Advanced(r, "inspecting"), 0)
    /\ UNCHANGED <<blockedVars, materializations>>

\* Mutation: the lease is not released.
RaiseKeepsLease(r) ==
    /\ r.op = "raise-spec-question"
    /\ Allowed(r)
    /\ Commit(r, Advanced(r, "blocked"), 0)
    /\ UNCHANGED <<blockedVars, materializations>>

RaiseSpecQuestion(r) ==
    /\ r.op = "raise-spec-question"
    /\ Allowed(r)
    /\ Commit(r, [Advanced(r, "blocked") EXCEPT !.lease = NoLease], 0)
    /\ UNCHANGED <<blockedVars, materializations>>

\* Either a new fence for the same work, or the item blocks.
RefreshActive(r) ==
    /\ r.op = "refresh-active"
    /\ Allowed(r)
    /\ IF Buildable(workItems[r.item], Context(r))
         THEN Commit(r, [Refreshed(r, "building") EXCEPT
                           !.lease = startLease(r)], nextToken)
         ELSE Commit(r, [Refreshed(r, "blocked") EXCEPT !.lease = NoLease], 0)
    /\ UNCHANGED <<blockedVars, materializations>>

\* Mutation: the attempt keeps the fence of the one before.
ReturnKeepsFence(r) ==
    /\ r.op = "return-to-building"
    /\ Allowed(r)
    /\ Commit(r, Advanced(r, "building"), 0)
    /\ UNCHANGED <<blockedVars, materializations>>

ReturnToBuilding(r) ==
    /\ r.op = "return-to-building"
    /\ Allowed(r)
    /\ Commit(r, [Advanced(r, "building") EXCEPT !.lease = startLease(r)],
              nextToken)
    /\ UNCHANGED <<blockedVars, materializations>>

BeginMerge(r) ==
    /\ r.op = "begin-merge"
    /\ Allowed(r)
    /\ Commit(r, [Advanced(r, "merging") EXCEPT !.expected = r.envelope], 0)
    /\ UNCHANGED <<blockedVars, materializations>>

-----------------------------------------------------------------------------
(* Leaving merging, recovery and cancellation.                             *)

\* Mutation: the evidence of the failed merge stays on the record.
MergeConflictKeepsEvidence(r) ==
    /\ r.op = "merge-conflict"
    /\ Allowed(r)
    /\ IF r.role = "reconciler"
         THEN Commit(r, [Advanced(r, "ready-for-building") EXCEPT
                           !.lease = NoLease], 0)
         ELSE Commit(r, [Advanced(r, "building") EXCEPT
                           !.lease = startLease(r)], nextToken)
    /\ UNCHANGED <<blockedVars, materializations>>

\* The Job Site keeps the work under a new fence; the reconciler frees it.
MergeConflict(r) ==
    /\ r.op = "merge-conflict"
    /\ Allowed(r)
    /\ IF r.role = "reconciler"
         THEN Commit(r, [Advanced(r, "ready-for-building") EXCEPT
                           !.rec = NoRecord, !.lease = NoLease], 0)
         ELSE Commit(r, [Advanced(r, "building") EXCEPT
                           !.rec = NoRecord, !.lease = startLease(r)],
                     nextToken)
    /\ UNCHANGED <<blockedVars, materializations>>

\* merge-not-applied and recover-lease free the item in the same way.
Free(r) ==
    /\ r.op \in {"merge-not-applied", "recover-lease"}
    /\ Allowed(r)
    /\ Commit(r, [Advanced(r, "ready-for-building") EXCEPT
                    !.rec = NoRecord, !.lease = NoLease], 0)
    /\ UNCHANGED <<blockedVars, materializations>>

RecordMerge(r) ==
    LET envelope == IF r.role = "reconciler"
                      THEN workItems[r.item].rec.envelope ELSE r.envelope
    IN  /\ r.op = "record-merge"
        /\ Allowed(r)
        /\ Commit(r, [Advanced(r, "completed") EXCEPT
                        !.rec = [kind |-> "merge-recorded",
                                 envelope |-> envelope,
                                 seen |-> workItems[r.item].version],
                        !.lease = NoLease], 0)
        /\ UNCHANGED <<blockedVars, materializations>>

Abandon(r) ==
    /\ r.op = "abandon"
    /\ Allowed(r)
    /\ Commit(r, [Advanced(r, "abandoned") EXCEPT !.lease = NoLease], 0)
    /\ UNCHANGED <<blockedVars, materializations>>

-----------------------------------------------------------------------------
(* Blocked work: resolutions a human approved, for the Materializer to     *)
(* apply with resolve-block, and acknowledgements.                         *)

validateBlockedExpected(r) ==
    LET item == workItems[r.item] IN
    IF item.state = "initial" THEN "NOT_FOUND"
    ELSE IF r.expState # item.state THEN "STALE_STATE"
    ELSE IF r.expVersion # item.version THEN "STALE_CONTRACT_VERSION"
    ELSE IF item.state # "blocked" THEN "INVALID_TRANSITION"
    ELSE "allowed"

SubmitVerdict(r) ==
    IF validateBlockedExpected(r) # "allowed" THEN validateBlockedExpected(r)
    ELSE IF r.kind = None THEN "INVALID_REQUEST"
    ELSE IF r.digest = None \/ r.approval = None THEN "UNAUTHORIZED_ACTION"
    ELSE IF r.kind # "out-of-scope" /\ r.cs = None THEN "NOT_FOUND"
    ELSE IF ~ValidateApproval(approvals[r.approval],
                ResolutionScope(Materializer, r.item, r.kind, r.cs, r.digest,
                                r.expState, r.expVersion), now)
      THEN "UNAUTHORIZED_ACTION"
    ELSE "allowed"

AcknowledgeVerdict(r) ==
    IF validateBlockedExpected(r) # "allowed" THEN validateBlockedExpected(r)
    ELSE IF ~r.proof \/ r.digest = None \/ r.approval = None
      THEN "UNAUTHORIZED_ACTION"
    ELSE IF ~ValidateApproval(approvals[r.approval],
                [action |-> "acknowledge", principal |-> r.subject,
                 item |-> r.item, kind |-> None, cs |-> None,
                 digest |-> r.digest, state |-> r.expState,
                 version |-> r.expVersion], now)
      THEN "UNAUTHORIZED_ACTION"
    ELSE "allowed"

\* Mutation: the submission that was active stays pending.
SubmitKeepsPrior(r) ==
    LET id == nextSubmission + 1
        new == [status |-> "pending", item |-> r.item, kind |-> r.kind,
                cs |-> r.cs, approval |-> r.approval, digest |-> r.digest,
                confirmed |-> FALSE, revision |-> revisions[r.item] + 1]
    IN  /\ r.op = "submit-resolution"
        /\ nextSubmission < MaxSubmissions
        /\ Enters(r)
        /\ SubmitVerdict(r) = "allowed"
        /\ submissions' = [submissions EXCEPT ![id] = new]
        /\ activeSubmissions' = [activeSubmissions EXCEPT ![r.item] = id]
        /\ revisions' = [revisions EXCEPT ![r.item] = @ + 1]
        /\ nextSubmission' = id
        /\ rememberIdempotency(r, Applied(workItems[r.item], id))
        /\ UNCHANGED <<storeVars, approvals, acknowledgements,
                       materializations, observedReadiness, now>>

\* A new submission supersedes the pending one and revokes its approval,
\* unless both rest on the same approval.
SubmitResolution(r) ==
    LET id == nextSubmission + 1
        prior == activeSubmissions[r.item]
        supersedes == prior # 0 /\ SubmissionOf(prior).status = "pending"
        new == [status |-> "pending", item |-> r.item, kind |-> r.kind,
                cs |-> r.cs, approval |-> r.approval, digest |-> r.digest,
                confirmed |-> FALSE, revision |-> revisions[r.item] + 1]
    IN  /\ r.op = "submit-resolution"
        /\ nextSubmission < MaxSubmissions
        /\ Enters(r)
        /\ SubmitVerdict(r) = "allowed"
        /\ submissions' = [s \in SubmissionIds |->
              IF s = id THEN new
              ELSE IF supersedes /\ s = prior
                THEN [submissions[s] EXCEPT !.status = "superseded"]
              ELSE submissions[s]]
        /\ approvals' =
              IF supersedes /\ SubmissionOf(prior).approval # r.approval
                THEN [approvals EXCEPT
                        ![SubmissionOf(prior).approval].status = "revoked"]
                ELSE approvals
        /\ activeSubmissions' = [activeSubmissions EXCEPT ![r.item] = id]
        /\ revisions' = [revisions EXCEPT ![r.item] = @ + 1]
        /\ nextSubmission' = id
        /\ rememberIdempotency(r, Applied(workItems[r.item], id))
        /\ UNCHANGED <<storeVars, acknowledgements, materializations,
                       observedReadiness, now>>

\* Mutation: the approval is not consumed.
AcknowledgeKeepsApproval(r) ==
    /\ r.op = "acknowledge"
    /\ Enters(r)
    /\ AcknowledgeVerdict(r) = "allowed"
    /\ acknowledgements' = [acknowledgements EXCEPT ![r.approval] = @ + 1]
    /\ rememberIdempotency(r, Applied(workItems[r.item], 0))
    /\ UNCHANGED <<storeVars, approvals, submissions, activeSubmissions,
                   revisions, nextSubmission, materializations,
                   observedReadiness, now>>

Acknowledge(r) ==
    /\ r.op = "acknowledge"
    /\ Enters(r)
    /\ AcknowledgeVerdict(r) = "allowed"
    /\ approvals' = [approvals EXCEPT ![r.approval].status = "consumed"]
    /\ acknowledgements' = [acknowledgements EXCEPT ![r.approval] = @ + 1]
    /\ rememberIdempotency(r, Applied(workItems[r.item], 0))
    /\ UNCHANGED <<storeVars, submissions, activeSubmissions, revisions,
                   nextSubmission, materializations, observedReadiness, now>>

-----------------------------------------------------------------------------
(* Rejections and retries.                                                 *)

CallVerdict(r) ==
    IF r.op = "submit-resolution" THEN SubmitVerdict(r)
    ELSE IF r.op = "acknowledge" THEN AcknowledgeVerdict(r)
    ELSE Verdict(r)

\* A rejection is remembered like a success.
Reject(r) ==
    /\ r.key # None
    /\ Enters(r)
    /\ r.op = "materialize" => Reservations(r) = {}
    /\ CallVerdict(r) \notin {"allowed", "omitted"}
    /\ rememberIdempotency(r, Rejected(CallVerdict(r)))
    /\ UNCHANGED <<storeVars, blockedVars, materializations,
                   observedReadiness, now>>

\* The answer to a key that is already recorded.
checkIdempotency(r) ==
    LET entry == CHOOSE e \in idempotency : e.key = r.key
    IN  IF entry.request = normalizeLifecycleRequest(r)
          THEN entry.result
          ELSE Rejected("IDEMPOTENCY_CONFLICT")

\* A caller that lost the response sends the very same call again.
\* (Another call under a recorded key is refused and changes nothing.)
Retry(r) ==
    /\ \E e \in idempotency : e.key = r.key
    /\ answered' = answered \cup
          {[key |-> r.key, request |-> r, result |-> checkIdempotency(r)]}
    /\ UNCHANGED <<storeVars, blockedVars, idempotency, materializations,
                   observedReadiness, now>>

-----------------------------------------------------------------------------
(* Trusted observations and the Gate.                                      *)

Exists(i) == workItems[i].state # "initial"

ObserveReadiness(i, readiness) ==
    /\ Exists(i)
    /\ observedReadiness' = [observedReadiness EXCEPT ![i] = readiness]
    /\ UNCHANGED <<storeVars, keyVars, blockedVars, materializations, now>>

ObserveInspection(i, complete) ==
    /\ workItems[i].state = "inspecting"
    /\ workItems' = [workItems EXCEPT ![i].inspected = complete]
    /\ UNCHANGED <<nextFencingToken, consumed, claimedAt, keyVars, blockedVars,
                   materializations, observedReadiness, now>>

ObserveReconciliation(i, evidence) ==
    /\ Exists(i)
    /\ workItems' = [workItems EXCEPT
          ![i].rec = [kind |-> evidence.kind, envelope |-> evidence.envelope,
                      seen |-> workItems[i].version]]
    /\ UNCHANGED <<nextFencingToken, consumed, claimedAt, keyVars, blockedVars,
                   materializations, observedReadiness, now>>

ObserveIndependentInspectorConfirmation(id) ==
    /\ submissions[id].status = "pending"
    /\ submissions[id].kind = "out-of-scope"
    /\ activeSubmissions[submissions[id].item] = id
    /\ ~submissions[id].confirmed
    /\ submissions' = [submissions EXCEPT
          ![id].confirmed = TRUE,
          ![id].revision = revisions[submissions[id].item] + 1]
    /\ revisions' = [revisions EXCEPT ![submissions[id].item] = @ + 1]
    /\ UNCHANGED <<storeVars, keyVars, approvals, activeSubmissions,
                   nextSubmission, acknowledgements, materializations,
                   observedReadiness, now>>

SeedApproval(a, scope, expires) ==
    /\ approvals[a].status = "absent"
    /\ approvals' = [approvals EXCEPT
          ![a] = [status |-> "unused", scope |-> scope, expires |-> expires]]
    /\ UNCHANGED <<storeVars, keyVars, submissions, activeSubmissions,
                   revisions, nextSubmission, acknowledgements, materializations,
                   observedReadiness, now>>

Tick ==
    /\ now < MaxTime
    /\ now' = now + 1
    /\ UNCHANGED <<storeVars, keyVars, blockedVars, materializations,
                   observedReadiness>>

-----------------------------------------------------------------------------
(* The next-state relation.  A caller fills a call in from what it has     *)
(* read: a contract version that may be stale, a fencing token that was    *)
(* issued at some time, and the version its merge envelope names.          *)

\* State and version are read together: a current version comes with the
\* current state, an older one with whatever state the call expects.
Versions(c) ==
    LET item == workItems[c.item]
    IN  {v \in item.version - MaxLag..item.version :
            v >= 0 /\ (v = item.version => c.expState = item.state)}

Tokens(c) == IF requiresLiveFence(c) THEN 0..nextFencingToken ELSE {0}

Named(c, v) == IF c.envelope = NoEnvelope THEN {0} ELSE {v, v + 1}

\* A refused call that no key remembers leaves nothing behind: it is no step.
Matters(r) == r.key # None \/ CallVerdict(r) \in {"allowed", "omitted"}

Execute(r) ==
    /\ Matters(r)
    /\ \/ Materialize(r)         \/ Omit(r)          \/ ReturnMaterialized(r)
       \/ RefreshDependencies(r) \/ Revalidate(r)    \/ ResolveBlock(r)
       \/ Claim(r)               \/ RenewLease(r)    \/ TestsPass(r)
       \/ RaiseSpecQuestion(r)   \/ RefreshActive(r) \/ ReturnToBuilding(r)
       \/ BeginMerge(r)          \/ MergeConflict(r) \/ Free(r)
       \/ RecordMerge(r)         \/ Abandon(r)       \/ SubmitResolution(r)
       \/ Acknowledge(r)         \/ Reject(r)

\* Evidence about a merge names the version the item had at most MaxLag ago.
Observe ==
    \E i \in Items :
        \/ \E readiness \in Reports : ObserveReadiness(i, readiness)
        \/ \E complete \in BOOLEAN : ObserveInspection(i, complete)
        \/ \E e \in Observations, lag \in 0..MaxLag :
              /\ lag <= workItems[i].version
              /\ ObserveReconciliation(i,
                    IF e.kind # "merge-recorded" THEN e
                    ELSE [e EXCEPT !.envelope.version =
                                      workItems[i].version - lag])

\* A human approves what the item is when the approval is granted.
Grant ==
    \E a \in Approvals, g \in Grants, x \in 1..(MaxTime + 1) :
        SeedApproval(a, [g EXCEPT !.state = workItems[g.item].state,
                                  !.version = workItems[g.item].version], x)

Next ==
    \/ \E c \in Calls : \E v \in Versions(c), t \in Tokens(c) :
          \E n \in Named(c, v) :
              Execute([c EXCEPT !.expVersion = v, !.token = t,
                                !.envelope.version = n])
    \/ \E a \in answered : Retry(a.request)
    \/ Observe
    \/ \E id \in SubmissionIds : ObserveIndependentInspectorConfirmation(id)
    \/ Grant
    \/ Tick

Spec == Init /\ [][Next]_vars
-----------------------------------------------------------------------------
(* Properties of one work item's lifecycle.                                *)

StoreTypeOK ==
    /\ workItems \in [Items -> WorkItem]
    /\ nextFencingToken \in Nat
    /\ consumed \in [Items -> SUBSET Nat]
    /\ claimedAt \in [Items -> Nat]
    /\ observedReadiness \in [Items -> Readiness \cup {None}]
    /\ now \in Nat

KeyTypeOK ==
    /\ idempotency \subseteq [key: Keys, request: Request, result: Result]
    /\ answered \subseteq [key: Keys, request: Request, result: Result]

MaterializationTypeOK ==
    materializations \subseteq [mkey: MKeys, source: Source, result: Result]

BlockedTypeOK ==
    /\ approvals \in [Approvals -> Approval]
    /\ submissions \in [SubmissionIds -> Submission]
    /\ activeSubmissions \in [Items -> SubmissionIds \cup {0}]
    /\ revisions \in [Items -> Nat]
    /\ nextSubmission \in 0..MaxSubmissions
    /\ acknowledgements \in [Approvals -> Nat]

\* The maps of the Memory struct and their records have their types.
TypeOK == StoreTypeOK /\ KeyTypeOK /\ MaterializationTypeOK /\ BlockedTypeOK

Executing == {"building", "inspecting", "merging"}

\* An item holds a lease exactly while a Job Site executes it, its fencing
\* token was issued, and no two items hold the same token: startLease and
\* releaseLease are called on every path in and out of execution.
ExecutionIsFenced ==
    \A i \in Items :
        /\ HasLease(workItems[i]) <=> workItems[i].state \in Executing
        /\ workItems[i].lease.token <= nextFencingToken
        /\ \A j \in Items :
              /\ HasLease(workItems[i])
              /\ workItems[i].lease.token = workItems[j].lease.token
              => i = j

\* Every step that brings an item back to building (claim, return-to-building,
\* refresh-active, merge-conflict) and every other change of a fence issues a
\* token no one was given before, so the fence of an earlier attempt is dead.
FreshFencePerAttempt ==
    [][\A i \in Items :
          LET old == workItems[i]
              new == workItems'[i]
          IN  \/ new.state = "building" /\ old.state # "building"
              \/ HasLease(new) /\ new.lease.token # old.lease.token
              => new.lease.token > nextFencingToken]_vars

\* Inspection evidence exists only from inspecting on, so a cycle of rework
\* cannot begin a merge on the sealed inspection of an earlier cycle, and
\* nothing merges or completes without it (applyLifecycleMutationLocked).
InspectionIsCurrent ==
    \A i \in Items :
        /\ workItems[i].inspected =>
             workItems[i].state \in {"inspecting", "merging", "completed",
                                     "abandoned"}
        /\ workItems[i].state \in {"merging", "completed"} =>
             workItems[i].inspected

\* A completed item records a merge of exactly the candidate that was tested,
\* into the target and under the contract version begin-merge named, whether
\* the Job Site or the reconciler records it.
CompletionIsBound ==
    [][\A i \in Items :
          LET old == workItems[i]
              merged == workItems'[i].rec.envelope
          IN  workItems'[i].state = "completed" /\ old.state # "completed" =>
                /\ old.state = "merging"
                /\ old.expected.version = old.version
                /\ merged.commit
                /\ merged.candidate \in Candidates
                /\ merged.target \in Targets
                /\ merged = [old.expected EXCEPT !.commit = TRUE]]_vars

\* The commands an item has accepted expected the versions 0, 1, ... up to
\* the one before the current, each once: of two commands prepared on the
\* same version at most one commits.
EveryVersionConsumedOnce ==
    \A i \in Items : consumed[i] = 0..(workItems[i].version - 1)

\* No command and no observation changes the outcome of a terminal item;
\* only the reconciliation evidence may still be observed.
TerminalIsFrozen ==
    [][\A i \in Items :
          workItems[i].state \in Terminal =>
            workItems'[i] = [workItems[i] EXCEPT !.rec =
                                workItems'[i].rec]]_vars

\* Reconciliation evidence is never older than what it is used to decide.  On
\* an executing item it was observed in the tenure of the Job Site that holds
\* it: claim clears what was observed before.  Outside merging it is younger
\* than the last merge attempt, so abandon can never rule out integration
\* with an observation made before Git may have been mutated.
EvidenceIsFresh ==
    \A i \in Items :
        LET item == workItems[i]
        IN  item.rec.kind # "empty" =>
              /\ item.state \in Executing => item.rec.seen >= claimedAt[i]
              /\ item.state \notin {"merging", "completed"} =>
                   item.rec.seen > item.expected.version

\* What VR-017 says of merge-not-applied and the reconciler's merge-conflict:
\* the observation that frees a merging item was made while it was merging.
MergeFreedOnItsOwnEvidence ==
    [][\A i \in Items :
          /\ workItems[i].state = "merging"
          /\ workItems'[i].state = "ready-for-building"
          => workItems[i].rec.seen = workItems[i].version]_vars

-----------------------------------------------------------------------------
(* Properties across work items.                                           *)

\* Work is ready, executed and completed only when every dependency really is
\* completed, and a dependency stored as completed is: the states are always
\* the WMS's own live observation, and completion is final.
DependenciesCompleted ==
    \A i \in Items :
        /\ workItems[i].done \subseteq liveDependencies(workItems[i].deps)
        /\ workItems[i].state \in Executing \cup
              {"ready-for-building", "completed"} =>
             workItems[i].deps = liveDependencies(workItems[i].deps)

\* A materialization key is bound to one source and one result for good, and
\* every work item stands for the key it was created under, alone.
OneItemPerKey ==
    /\ \A e, f \in materializations : e.mkey = f.mkey => e = f
    /\ \A i \in Items : Exists(i) =>
          \E e \in materializations :
              /\ e.mkey = workItems[i].mkey
              /\ e.source.item = i
              /\ e.result.verdict = "allowed"
              /\ e.source.deps = workItems[i].deps

-----------------------------------------------------------------------------
(* Properties of blocked work and its approvals.                           *)

\* An item has at most one pending submission, the active one; it carries the
\* item's latest revision and an approval that is still unused and bound to
\* exactly this resolution, and the item is blocked unless it was abandoned.
PendingIsActive ==
    \A id \in SubmissionIds :
        LET s == submissions[id]
        IN  s.status = "pending" =>
              /\ activeSubmissions[s.item] = id
              /\ s.revision = revisions[s.item]
              /\ approvals[s.approval].status = "unused"
              /\ workItems[s.item].state \in {"blocked", "abandoned"}
              /\ workItems[s.item].state = "blocked" =>
                   approvals[s.approval].scope =
                     ResolutionScope(Materializer, s.item, s.kind, s.cs,
                                     s.digest, "blocked",
                                     workItems[s.item].version)

\* A Gate approval authorizes one mutation: one unblock or one acknowledgement.
ApprovalAuthorizesOnce ==
    \A a \in Approvals :
        LET unblocks == {id \in SubmissionIds :
                           /\ submissions[id].status = "consumed"
                           /\ submissions[id].approval = a}
        IN  Cardinality(unblocks) + acknowledgements[a] <=
              (IF approvals[a].status = "consumed" THEN 1 ELSE 0)

\* An item leaves blocked for building only on a human decision about the very
\* contract version it is blocked at, not expired, and only with what the kind
\* of the resolution demands: completed planned work or an Inspector's word.
UnblockedByHuman ==
    [][\A i \in Items :
          /\ workItems[i].state = "blocked"
          /\ workItems'[i].state = "ready-for-building"
          => \E id \in SubmissionIds :
                LET s == submissions[id]
                    a == approvals[s.approval]
                IN  /\ s.status = "pending" /\ s.item = i
                    /\ a.status = "unused" /\ now < a.expires
                    /\ a.scope.item = i
                    /\ a.scope.version = workItems[i].version
                    /\ a.scope.kind = s.kind
                    /\ s.kind = "add-requirement" =>
                         workItems[PlannedItem[s.cs]].state = "completed"
                    /\ s.kind = "out-of-scope" => s.confirmed
                    /\ submissions'[id].status = "consumed"
                    /\ approvals'[s.approval].status = "consumed"]_vars

-----------------------------------------------------------------------------
(* Properties of retries.                                                  *)

\* The call is not what its key was recorded for: it leaves its change set to
\* a submission that was issued since, so what normalizeLifecycleRequest makes
\* of it, and the fingerprint with it, is another call.
Reread(r) ==
    \A e \in idempotency :
        e.key = r.key => e.request # normalizeLifecycleRequest(r)

\* A call that is sent again under its idempotency key gets the answer it got
\* the first time, success or rejection, however the store has moved since.
\* One that is read as another call by now is answered IDEMPOTENCY_CONFLICT,
\* and nothing else: it has no second effect.
RetryReturnsOriginal ==
    \A a, b \in answered :
        a.key = b.key /\ a.request = b.request =>
            \/ a.result = b.result
            \/ /\ Reread(a.request)
               /\ Rejected("IDEMPOTENCY_CONFLICT") \in {a.result, b.result}
=============================================================================
