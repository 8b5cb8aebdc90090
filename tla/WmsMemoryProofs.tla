-------------------------- MODULE WmsMemoryProofs --------------------------
(***************************************************************************)
(* WmsMemory, proved for every value of its constants: what the evaluator  *)
(* establishes, type correctness, and what a step can do to the store.     *)
(* StepEffect says that once; the invariants and action properties of the  *)
(* lifecycle after it are consequences of it.  Then come materialization   *)
(* keys, blocked work with its Gate approvals, and retries; the last part  *)
(* shows that the store implements WorkItemContract, with the properties   *)
(* of merge targets and of evidence that the refinement rests on.          *)
(***************************************************************************)
EXTENDS WmsRefinement, FiniteSetTheorems, TLAPS

-----------------------------------------------------------------------------
(* The evaluator.                                                          *)

\* The transition table: where each command may start.
LEMMA FromStates ==
    ASSUME NEW op, NEW state, <<op, state>> \in v1Transitions
    PROVE  /\ state \notin Terminal
           /\ op = "refresh-dependencies" => state = "waiting"
           /\ op = "revalidate" => state \in {"waiting", "ready-for-building"}
           /\ op = "resolve-block" => state = "blocked"
           /\ op = "claim" => state = "ready-for-building"
           /\ op = "tests-pass" => state = "building"
           /\ op \in {"renew-lease", "raise-spec-question", "refresh-active",
                      "recover-lease"} => state \in {"building", "inspecting"}
           /\ op \in {"return-to-building", "begin-merge"} =>
                state = "inspecting"
           /\ op \in {"merge-conflict", "merge-not-applied", "record-merge"} =>
                state = "merging"
           /\ op = "abandon" => state \in {"waiting", "ready-for-building",
                                  "building", "inspecting", "blocked"}
           /\ op = "materialize" <=> state = "initial"
           /\ state = "blocked" => op \in {"resolve-block", "abandon"}
    BY DEF v1Transitions, Terminal

\* Evaluate answers with a verdict of the vocabulary.
LEMMA EvaluateType ==
    ASSUME NEW r, NEW item, NEW ev
    PROVE  Evaluate(r, item, ev) \in Verdicts
    BY DEF Evaluate, validateMutationPreconditions, evaluateMaterialization,
           Verdicts

\* What an allowed command has passed.
LEMMA EvaluateAllowed ==
    ASSUME NEW r, NEW item, NEW ev, Evaluate(r, item, ev) = "allowed"
    PROVE  /\ <<r.op, item.state>> \in v1Transitions
           /\ r.op # "materialize" => evaluateTransition(r, item, ev)
           /\ r.op = "materialize" => evaluateMaterialization(r) = "allowed"
           /\ r.expState = item.state
           /\ r.expVersion = item.version
           /\ r.op = "resolve-block" => validateResolutionBinding(r, ev)
    BY DEF Evaluate, validateMutationPreconditions

-----------------------------------------------------------------------------
(* Type correctness.                                                       *)

\* What a caller sends is a request.
LEMMA RequestType ==
    ASSUME TypeOK, NEW c \in Calls, NEW v \in Versions(c),
           NEW t \in Tokens(c), NEW n \in Named(c, v)
    PROVE  [c EXCEPT !.expVersion = v, !.token = t, !.envelope.version = n]
             \in Request
  <1>1. c \in Request
    BY ConstantsAssumption
  <1>2. v \in Nat /\ t \in Nat /\ n \in Nat
    BY <1>1 DEF TypeOK, StoreTypeOK, Versions, Tokens, Named, WorkItem, Request
  <1> QED
    BY <1>1, <1>2 DEF Request, Envelope

\* Normalizing a request keeps it a request and keeps the fields rules read.
LEMMA NormalizedType ==
    ASSUME TypeOK, NEW r \in Request
    PROVE  /\ normalizeLifecycleRequest(r) \in Request
           /\ normalizeLifecycleRequest(r) =
                [r EXCEPT !.cs = normalizeLifecycleRequest(r).cs]
  <1>1. SubmissionOf(r.submission).cs \in ChangeSets \cup {None}
    BY DEF TypeOK, BlockedTypeOK, SubmissionOf, NoSubmission, Submission
  <1> QED
    BY <1>1 DEF normalizeLifecycleRequest, Request

\* The records the commands start from.
LEMMA RecordTypes ==
    /\ NoLease \in Lease
    /\ NoEnvelope \in Envelope
    /\ NoRecord \in [kind: EvidenceKinds, envelope: Envelope, seen: Nat]
    /\ NoItem \in WorkItem
    /\ NoSubmission \in Submission
    /\ NoApproval \in Approval
  <1>1. NoLease \in Lease /\ NoEnvelope \in Envelope
    BY DEF NoLease, Lease, NoEnvelope, Envelope
  <1>2. NoRecord \in [kind: EvidenceKinds, envelope: Envelope, seen: Nat]
    BY <1>1 DEF NoRecord, EvidenceKinds
  <1>3. NoItem \in WorkItem
    BY <1>1, <1>2 DEF NoItem, WorkItem, States, Readiness
  <1>4. NoSubmission \in Submission /\ NoApproval \in Approval
    BY DEF NoSubmission, Submission, NoApproval, Approval
  <1> QED
    BY <1>1, <1>2, <1>3, <1>4

\* The context a request is evaluated in, and the records commands compute.
LEMMA ComputedTypes ==
    ASSUME TypeOK, NEW r \in Request, NEW to \in States
    PROVE  /\ Advanced(r, to) \in WorkItem
           /\ Refreshed(r, to) \in WorkItem
           /\ startLease(r) \in Lease
           /\ nextToken \in Nat \ {0}
  <1>1. r.item \in Items /\ r.subject \in Subjects
    BY DEF Request
  <1>2. workItems[r.item] \in WorkItem
    BY <1>1 DEF TypeOK, StoreTypeOK
  <1>3. Advanced(r, to) \in WorkItem
    <2> DEFINE old == workItems[r.item]
               inspected == IF to \in {"inspecting", "merging", "completed",
                                       "abandoned"}
                              THEN old.inspected ELSE FALSE
    <2>1. inspected \in BOOLEAN
      BY <1>2 DEF WorkItem
    <2>2. old.version + 1 \in Nat
      BY <1>2 DEF WorkItem
    <2>3. Advanced(r, to) = [old EXCEPT !.state = to, !.version = @ + 1,
                                        !.inspected = inspected]
      BY DEF Advanced
    <2> QED
      <3> HIDE DEF inspected
      <3> QED
        BY <1>2, <2>1, <2>2, <2>3 DEF WorkItem
  <1>4. Context(r).readiness \in Readiness
    BY <1>1, <1>2 DEF Context, TypeOK, StoreTypeOK, WorkItem
  <1>5. Context(r).done \in SUBSET Items
    BY <1>2 DEF Context, liveDependencies, WorkItem
  <1>6. Refreshed(r, to) \in WorkItem
    BY <1>3, <1>4, <1>5 DEF Refreshed, WorkItem
  <1>7. nextToken \in Nat \ {0}
    BY DEF nextToken, TypeOK, StoreTypeOK
  <1>8. startLease(r) \in Lease
    BY <1>1, <1>7, ConstantsAssumption DEF startLease, Lease, TypeOK, StoreTypeOK
  <1> QED
    BY <1>3, <1>6, <1>7, <1>8

\* Remembering a result keeps the idempotency table well typed.
LEMMA RememberType ==
    ASSUME TypeOK, NEW r \in Request, NEW result \in Result,
           rememberIdempotency(r, result)
    PROVE  KeyTypeOK'
  <1>1. CASE r.key = None
    BY <1>1 DEF rememberIdempotency, keyVars, TypeOK, KeyTypeOK
  <1>2. CASE r.key # None
    <2>1. r.key \in Keys /\ normalizeLifecycleRequest(r) \in Request
      BY <1>2, NormalizedType DEF Request
    <2>2. [key |-> r.key, request |-> normalizeLifecycleRequest(r),
           result |-> result] \in [key: Keys, request: Request, result: Result]
      BY <2>1
    <2>3. [key |-> r.key, request |-> r, result |-> result]
            \in [key: Keys, request: Request, result: Result]
      BY <2>1
    <2> QED
      BY <1>2, <2>2, <2>3 DEF rememberIdempotency, TypeOK, KeyTypeOK
  <1> QED
    BY <1>1, <1>2

\* Committing a work item keeps the store well typed.
LEMMA CommitType ==
    ASSUME TypeOK, NEW r \in Request, NEW item \in WorkItem,
           NEW token \in Nat, Commit(r, item, token)
    PROVE  StoreTypeOK' /\ KeyTypeOK'
  <1>1. r.item \in Items /\ r.expVersion \in Nat /\ item.version \in Nat
    BY DEF Request, WorkItem
  <1>2. Applied(item, token) \in Result
    BY DEF Applied, Result, Verdicts, WorkItem
  <1>3. KeyTypeOK'
    BY <1>2, RememberType DEF Commit
  <1>4. /\ workItems' \in [Items -> WorkItem]
        /\ nextFencingToken' \in Nat
        /\ observedReadiness' \in [Items -> Readiness \cup {None}]
        /\ now' \in Nat
    BY <1>1 DEF Commit, TypeOK, StoreTypeOK
  <1>5. consumed' \in [Items -> SUBSET Nat]
    BY <1>1 DEF Commit, TypeOK, StoreTypeOK
  <1>6. claimedAt' \in [Items -> Nat]
    BY <1>1 DEF Commit, TypeOK, StoreTypeOK
  <1> QED
    BY <1>3, <1>4, <1>5, <1>6 DEF StoreTypeOK

\* A command that changes only its work item.
LEMMA CommitOnlyType ==
    ASSUME TypeOK, NEW r \in Request, NEW item \in WorkItem,
           NEW token \in Nat, Commit(r, item, token),
           UNCHANGED <<blockedVars, materializations>>
    PROVE  TypeOK'
  <1>1. StoreTypeOK' /\ KeyTypeOK'
    BY CommitType
  <1>2. MaterializationTypeOK' /\ BlockedTypeOK'
    BY DEF TypeOK, MaterializationTypeOK, BlockedTypeOK, blockedVars
  <1> QED
    BY <1>1, <1>2 DEF TypeOK

\* A step that leaves the store alone.
LEMMA StoreUnchangedType ==
    ASSUME TypeOK, UNCHANGED <<storeVars, observedReadiness, now>>
    PROVE  StoreTypeOK'
    BY DEF TypeOK, StoreTypeOK, storeVars

\* Steps that leave the blocked-work tables alone keep them well typed.
LEMMA BlockedUnchangedType ==
    ASSUME TypeOK, UNCHANGED blockedVars
    PROVE  BlockedTypeOK'
    BY DEF TypeOK, BlockedTypeOK, blockedVars

\* Results of rejections, and what the reservations answer.
LEMMA ResultTypes ==
    /\ \A code \in Verdicts : Rejected(code) \in Result
    /\ \A item \in WorkItem, n \in Nat : Applied(item, n) \in Result
    BY DEF Rejected, Result, States, Applied, WorkItem, Verdicts

\* Reserving a materialization key keeps the reservations well typed.
LEMMA ReserveType ==
    ASSUME TypeOK, NEW r \in Request, r.mkey # None, NEW result \in Result,
           reserve(r, result)
    PROVE  MaterializationTypeOK'
  <1>1. r.mkey \in MKeys /\ SourceFingerprint(r.source) \in Source
    BY DEF Request, SourceFingerprint, Source
  <1> QED
    BY <1>1 DEF reserve, TypeOK, MaterializationTypeOK

\* A materialization that is let through names its key.
LEMMA MaterializationHasKey ==
    ASSUME TypeOK, NEW r \in Request, r.op = "materialize",
           Verdict(r) \in {"allowed", "omitted"}
    PROVE  r.mkey # None
  <1> DEFINE n == normalizeLifecycleRequest(r)
  <1>1. n.op = r.op /\ n.mkey = r.mkey
    BY NormalizedType DEF Request
  <1>2. evaluateMaterialization(n) \in {"allowed", "omitted"}
    BY <1>1 DEF Verdict, Evaluate, validateMutationPreconditions
  <1> QED
    BY <1>1, <1>2 DEF evaluateMaterialization

\* Creating a work item keeps every table well typed.
LEMMA MaterializeType ==
    ASSUME TypeOK, NEW r \in Request, Materialize(r)
    PROVE  TypeOK'
  <1> DEFINE done == liveDependencies(r.source.deps)
             item == [NoItem EXCEPT
                        !.state = MaterializedState(r.source, done),
                        !.version = 1,
                        !.mkey = r.mkey,
                        !.deps = r.source.deps,
                        !.done = done,
                        !.readiness = r.source.readiness,
                        !.expected.target = r.source.target]
  <1>1. r.source \in Source /\ r.mkey \in MKeys \cup {None}
    BY DEF Request
  <1>2. done \in SUBSET Items /\ MaterializedState(r.source, done) \in States
    BY <1>1 DEF Source, liveDependencies, MaterializedState, States
  <1>3. item \in WorkItem
    <2> HIDE DEF done
    <2> QED
      BY <1>1, <1>2, RecordTypes DEF WorkItem, Source, Envelope
  <1>4. /\ Commit(r, item, 0) /\ reserve(r, Applied(item, 0))
        /\ UNCHANGED blockedVars
        /\ r.op = "materialize" /\ Verdict(r) = "allowed"
    BY DEF Materialize, Allowed
  <1> HIDE DEF item
  <1>5. StoreTypeOK' /\ KeyTypeOK'
    BY <1>3, <1>4, CommitType
  <1>6. Applied(item, 0) \in Result
    BY <1>3, ResultTypes
  <1>7. MaterializationTypeOK'
    BY <1>4, <1>6, MaterializationHasKey, ReserveType
  <1> QED
    BY <1>4, <1>5, <1>7, BlockedUnchangedType DEF TypeOK

\* Recording that a change set needs no work keeps every table well typed.
LEMMA OmitType ==
    ASSUME TypeOK, NEW r \in Request, Omit(r)
    PROVE  TypeOK'
  <1>1. Rejected("omitted") \in Result
    BY ResultTypes DEF Verdicts
  <1>2. MaterializationTypeOK'
    BY <1>1, MaterializationHasKey, ReserveType DEF Omit
  <1>3. KeyTypeOK'
    BY <1>1, RememberType DEF Omit
  <1> QED
    BY <1>2, <1>3, StoreUnchangedType, BlockedUnchangedType DEF Omit, TypeOK

\* Answering a bound materialization key keeps every table well typed.
LEMMA ReturnMaterializedType ==
    ASSUME TypeOK, NEW r \in Request, ReturnMaterialized(r)
    PROVE  TypeOK'
  <1>1. checkMaterialization(r) \in Result
    <2>1. PICK e \in Reservations(r) : e = CHOOSE f \in Reservations(r) : TRUE
      BY DEF ReturnMaterialized
    <2>2. e.result \in Result
      BY <2>1 DEF Reservations, TypeOK, MaterializationTypeOK
    <2> QED
      BY <2>1, <2>2, ResultTypes DEF checkMaterialization, Verdicts
  <1>2. KeyTypeOK'
    BY <1>1, RememberType DEF ReturnMaterialized
  <1>3. MaterializationTypeOK'
    BY DEF ReturnMaterialized, TypeOK, MaterializationTypeOK
  <1> QED
    BY <1>2, <1>3, StoreUnchangedType, BlockedUnchangedType
       DEF ReturnMaterialized, TypeOK

\* The commands that change their work item and nothing else but the keys.
Lifecycle(r) ==
    \/ RefreshDependencies(r) \/ Revalidate(r)    \/ Claim(r)
    \/ RenewLease(r)          \/ TestsPass(r)     \/ RaiseSpecQuestion(r)
    \/ RefreshActive(r)       \/ ReturnToBuilding(r) \/ BeginMerge(r)
    \/ MergeConflict(r)       \/ Free(r)          \/ RecordMerge(r)
    \/ Abandon(r)

\* Every lifecycle command that only rewrites its item keeps the types.
LEMMA LifecycleType ==
    ASSUME TypeOK, NEW r \in Request, Lifecycle(r)
    PROVE  TypeOK'
  <1> DEFINE old == workItems[r.item]
  <1>1. /\ r.item \in Items /\ r.envelope \in Envelope /\ old \in WorkItem
        /\ old.state \in States
        /\ {"waiting", "ready-for-building", "building", "inspecting",
            "merging", "completed", "blocked", "abandoned"} \subseteq States
    BY DEF Request, TypeOK, StoreTypeOK, WorkItem, States
  <1>2. \A to \in States : /\ Advanced(r, to) \in WorkItem
                           /\ Refreshed(r, to) \in WorkItem
    BY ComputedTypes
  <1>3. /\ startLease(r) \in Lease /\ nextToken \in Nat /\ NoLease \in Lease
        /\ NoRecord \in [kind: EvidenceKinds, envelope: Envelope, seen: Nat]
    BY <1>1, ComputedTypes, RecordTypes
  <1>4. /\ UNCHANGED <<blockedVars, materializations>>
        /\ \E item \in WorkItem, token \in Nat : Commit(r, item, token)
    <2>1. CASE RefreshDependencies(r)
      BY <2>1, <1>1, <1>2 DEF RefreshDependencies
    <2>2. CASE Revalidate(r)
      BY <2>2, <1>1, <1>2 DEF Revalidate
    <2>3. CASE Claim(r)
      <3>1. [Advanced(r, "building") EXCEPT !.rec = NoRecord,
                !.lease = startLease(r)] \in WorkItem
        BY <1>1, <1>2, <1>3 DEF WorkItem
      <3> QED
        BY <2>3, <3>1, <1>3 DEF Claim
    <2>4. CASE RenewLease(r)
      <3>1. now + LeaseDuration \in Nat
        BY ConstantsAssumption DEF TypeOK, StoreTypeOK
      <3>2. [Advanced(r, old.state) EXCEPT
               !.lease.expires = now + LeaseDuration] \in WorkItem
        BY <3>1, <1>1, <1>2 DEF WorkItem, Lease
      <3> QED
        BY <2>4, <3>2 DEF RenewLease
    <2>5. CASE TestsPass(r)
      BY <2>5, <1>1, <1>2 DEF TestsPass
    <2>6. CASE RaiseSpecQuestion(r)
      <3>1. [Advanced(r, "blocked") EXCEPT !.lease = NoLease] \in WorkItem
        BY <1>1, <1>2, <1>3 DEF WorkItem
      <3> QED
        BY <2>6, <3>1 DEF RaiseSpecQuestion
    <2>7. CASE RefreshActive(r)
      <3>1. /\ [Refreshed(r, "building") EXCEPT !.lease = startLease(r)]
                 \in WorkItem
            /\ [Refreshed(r, "blocked") EXCEPT !.lease = NoLease] \in WorkItem
        BY <1>1, <1>2, <1>3 DEF WorkItem
      <3> QED
        BY <2>7, <3>1, <1>3 DEF RefreshActive
    <2>8. CASE ReturnToBuilding(r)
      <3>1. [Advanced(r, "building") EXCEPT !.lease = startLease(r)]
              \in WorkItem
        BY <1>1, <1>2, <1>3 DEF WorkItem
      <3> QED
        BY <2>8, <3>1, <1>3 DEF ReturnToBuilding
    <2>9. CASE BeginMerge(r)
      <3>1. [Advanced(r, "merging") EXCEPT !.expected = r.envelope] \in WorkItem
        BY <1>1, <1>2 DEF WorkItem
      <3> QED
        BY <2>9, <3>1 DEF BeginMerge
    <2>10. CASE MergeConflict(r)
      <3>1. /\ [Advanced(r, "ready-for-building") EXCEPT !.rec = NoRecord,
                  !.lease = NoLease] \in WorkItem
            /\ [Advanced(r, "building") EXCEPT !.rec = NoRecord,
                  !.lease = startLease(r)] \in WorkItem
        BY <1>1, <1>2, <1>3 DEF WorkItem
      <3> QED
        BY <2>10, <3>1, <1>3 DEF MergeConflict
    <2>11. CASE Free(r)
      <3>1. [Advanced(r, "ready-for-building") EXCEPT !.rec = NoRecord,
                !.lease = NoLease] \in WorkItem
        BY <1>1, <1>2, <1>3 DEF WorkItem
      <3> QED
        BY <2>11, <3>1 DEF Free
    <2>12. CASE RecordMerge(r)
      <3> DEFINE envelope == IF r.role = "reconciler"
                               THEN old.rec.envelope ELSE r.envelope
                 rec == [kind |-> "merge-recorded", envelope |-> envelope,
                         seen |-> old.version]
                 item == [Advanced(r, "completed") EXCEPT !.rec = rec,
                                                          !.lease = NoLease]
      <3>1. envelope \in Envelope /\ old.version \in Nat
        BY <1>1 DEF WorkItem
      <3>2. rec \in [kind: EvidenceKinds, envelope: Envelope, seen: Nat]
        BY <3>1 DEF EvidenceKinds
      <3>3. item \in WorkItem
        <4> HIDE DEF rec
        <4> QED
          BY <3>2, <1>1, <1>2, <1>3 DEF WorkItem
      <3> QED
        BY <2>12, <3>3 DEF RecordMerge
    <2>13. CASE Abandon(r)
      <3>1. [Advanced(r, "abandoned") EXCEPT !.lease = NoLease] \in WorkItem
        BY <1>1, <1>2, <1>3 DEF WorkItem
      <3> QED
        BY <2>13, <3>1 DEF Abandon
    <2> QED
      BY <2>1, <2>2, <2>3, <2>4, <2>5, <2>6, <2>7, <2>8, <2>9, <2>10, <2>11,
         <2>12, <2>13 DEF Lifecycle
  <1> QED
    BY <1>4, CommitOnlyType

\* Giving an approval another status keeps it an approval.
LEMMA ApprovalStatusType ==
    ASSUME TypeOK, NEW a, NEW status \in {"consumed", "revoked"}
    PROVE  [approvals EXCEPT ![a].status = status] \in [Approvals -> Approval]
  <1>1. \A b \in Approvals : [approvals[b] EXCEPT !.status = status] \in Approval
    BY DEF TypeOK, BlockedTypeOK, Approval
  <1> QED
    BY <1>1 DEF TypeOK, BlockedTypeOK

\* resolve-block keeps the types; the submission and the approval it consumes exist.
LEMMA ResolveBlockType ==
    ASSUME TypeOK, NEW r \in Request, ResolveBlock(r)
    PROVE  TypeOK'
  <1>1. r.item \in Items /\ Refreshed(r, "ready-for-building") \in WorkItem
    BY ComputedTypes DEF Request, States
  <1>2. StoreTypeOK' /\ KeyTypeOK'
    BY <1>1, CommitType DEF ResolveBlock
  <1>3. approvals' \in [Approvals -> Approval]
    BY ApprovalStatusType DEF ResolveBlock
  <1>4. submissions' \in [SubmissionIds -> Submission]
    <2>1. \A s \in SubmissionIds :
            [submissions[s] EXCEPT !.status = "consumed"] \in Submission
      BY DEF TypeOK, BlockedTypeOK, Submission
    <2> QED
      BY <2>1 DEF ResolveBlock, TypeOK, BlockedTypeOK
  <1>5. BlockedTypeOK'
    BY <1>1, <1>3, <1>4 DEF ResolveBlock, TypeOK, BlockedTypeOK
  <1>6. MaterializationTypeOK'
    BY DEF ResolveBlock, TypeOK, MaterializationTypeOK
  <1> QED
    BY <1>2, <1>5, <1>6 DEF TypeOK

\* submit-resolution keeps the types, the prior submission included.
LEMMA SubmitResolutionType ==
    ASSUME TypeOK, NEW r \in Request, SubmitResolution(r)
    PROVE  TypeOK'
  <1> DEFINE id == nextSubmission + 1
             prior == activeSubmissions[r.item]
             new == [status |-> "pending", item |-> r.item, kind |-> r.kind,
                     cs |-> r.cs, approval |-> r.approval,
                     digest |-> r.digest, confirmed |-> FALSE,
                     revision |-> revisions[r.item] + 1]
  <1>1. /\ r.item \in Items /\ workItems[r.item] \in WorkItem
        /\ revisions[r.item] \in Nat
    BY DEF Request, TypeOK, StoreTypeOK, BlockedTypeOK
  <1>2. id \in SubmissionIds /\ id \in Nat
    BY ConstantsAssumption
       DEF SubmitResolution, TypeOK, BlockedTypeOK, SubmissionIds
  <1>3. new \in Submission
    BY <1>1 DEF Submission, Request
  <1>4. submissions' \in [SubmissionIds -> Submission]
    <2>1. \A s \in SubmissionIds :
            /\ submissions[s] \in Submission
            /\ [submissions[s] EXCEPT !.status = "superseded"] \in Submission
      BY DEF TypeOK, BlockedTypeOK, Submission
    <2>2. submissions' = [s \in SubmissionIds |->
              IF s = id THEN new
              ELSE IF prior # 0 /\ SubmissionOf(prior).status = "pending"
                      /\ s = prior
                THEN [submissions[s] EXCEPT !.status = "superseded"]
              ELSE submissions[s]]
      BY DEF SubmitResolution
    <2> HIDE DEF new, id, prior
    <2> QED
      BY <2>1, <2>2, <1>3
  <1>5. approvals' \in [Approvals -> Approval]
    <2>1. approvals \in [Approvals -> Approval]
      BY DEF TypeOK, BlockedTypeOK
    <2>2. \/ approvals' = approvals
          \/ approvals' = [approvals EXCEPT
                             ![SubmissionOf(prior).approval].status = "revoked"]
      BY DEF SubmitResolution
    <2>3. [approvals EXCEPT ![SubmissionOf(prior).approval].status = "revoked"]
            \in [Approvals -> Approval]
      BY ApprovalStatusType
    <2> QED
      BY <2>1, <2>2, <2>3
  <1>6. BlockedTypeOK'
    <2>1. /\ activeSubmissions' = [activeSubmissions EXCEPT ![r.item] = id]
          /\ revisions' = [revisions EXCEPT ![r.item] = @ + 1]
          /\ nextSubmission' = id
          /\ acknowledgements' = acknowledgements
      BY DEF SubmitResolution
    <2>2. /\ activeSubmissions \in [Items -> SubmissionIds \cup {0}]
          /\ revisions \in [Items -> Nat]
          /\ acknowledgements \in [Approvals -> Nat]
      BY DEF TypeOK, BlockedTypeOK
    <2>3. id \in 0..MaxSubmissions
      BY <1>2, ConstantsAssumption DEF SubmissionIds
    <2> HIDE DEF id
    <2>4. /\ activeSubmissions' \in [Items -> SubmissionIds \cup {0}]
          /\ revisions' \in [Items -> Nat]
      BY <1>1, <1>2, <2>1, <2>2
    <2> QED
      BY <2>1, <2>2, <2>3, <2>4, <1>4, <1>5 DEF BlockedTypeOK
  <1>7. KeyTypeOK'
    BY <1>1, <1>2, ResultTypes, RememberType DEF SubmitResolution
  <1>8. MaterializationTypeOK'
    BY DEF SubmitResolution, TypeOK, MaterializationTypeOK
  <1> QED
    BY <1>6, <1>7, <1>8, StoreUnchangedType DEF SubmitResolution, TypeOK

\* acknowledge keeps the types.
LEMMA AcknowledgeType ==
    ASSUME TypeOK, NEW r \in Request, Acknowledge(r)
    PROVE  TypeOK'
  <1>1. workItems[r.item] \in WorkItem
    BY DEF Request, TypeOK, StoreTypeOK
  <1>2. KeyTypeOK'
    BY <1>1, ResultTypes, RememberType DEF Acknowledge
  <1>3. approvals' \in [Approvals -> Approval]
    BY ApprovalStatusType DEF Acknowledge
  <1>4. BlockedTypeOK'
    BY <1>3 DEF Acknowledge, TypeOK, BlockedTypeOK
  <1>5. MaterializationTypeOK'
    BY DEF Acknowledge, TypeOK, MaterializationTypeOK
  <1> QED
    BY <1>2, <1>4, <1>5, StoreUnchangedType DEF Acknowledge, TypeOK

\* A rejection is remembered with a well-typed result.
LEMMA RejectType ==
    ASSUME TypeOK, NEW r \in Request, Reject(r)
    PROVE  TypeOK'
  <1>1. CallVerdict(r) \in Verdicts
    BY EvaluateType DEF CallVerdict, Verdict, SubmitVerdict, AcknowledgeVerdict,
       validateBlockedExpected, Verdicts
  <1>2. KeyTypeOK'
    BY <1>1, ResultTypes, RememberType DEF Reject
  <1>3. MaterializationTypeOK'
    BY DEF Reject, TypeOK, MaterializationTypeOK
  <1> QED
    BY <1>2, <1>3, StoreUnchangedType, BlockedUnchangedType DEF Reject, TypeOK

\* Answering a retry keeps the types.
LEMMA RetryType ==
    ASSUME TypeOK, NEW r \in Request, Retry(r)
    PROVE  TypeOK'
  <1> DEFINE entry == CHOOSE e \in idempotency : e.key = r.key
  <1>1. entry \in idempotency /\ entry.key = r.key
    BY DEF Retry
  <1>2. entry \in [key: Keys, request: Request, result: Result]
    BY <1>1 DEF TypeOK, KeyTypeOK
  <1>3. r.key \in Keys /\ entry.result \in Result
    <2> HIDE DEF entry
    <2> QED
      BY <1>1, <1>2
  <1>4. checkIdempotency(r) \in Result
    BY <1>3, ResultTypes DEF checkIdempotency, Verdicts
  <1>5. KeyTypeOK'
    BY <1>3, <1>4 DEF Retry, TypeOK, KeyTypeOK
  <1>6. MaterializationTypeOK'
    BY DEF Retry, TypeOK, MaterializationTypeOK
  <1> QED
    BY <1>5, <1>6, StoreUnchangedType, BlockedUnchangedType DEF Retry, TypeOK
-----------------------------------------------------------------------------
(* Observations, the Gate and the clock.                                   *)

\* The readiness, inspection and reconciliation hooks keep the types.
LEMMA ObserveType ==
    ASSUME TypeOK, Observe
    PROVE  TypeOK'
  <1>1. /\ workItems' \in [Items -> WorkItem]
        /\ observedReadiness' \in [Items -> Readiness \cup {None}]
    <2> PICK i \in Items :
            \/ \E readiness \in Reports : ObserveReadiness(i, readiness)
            \/ \E complete \in BOOLEAN : ObserveInspection(i, complete)
            \/ \E e \in Observations, lag \in 0..MaxLag :
                  /\ lag <= workItems[i].version
                  /\ ObserveReconciliation(i,
                        IF e.kind # "merge-recorded" THEN e
                        ELSE [e EXCEPT !.envelope.version =
                                          workItems[i].version - lag])
      BY DEF Observe
    <2>1. /\ workItems \in [Items -> WorkItem] /\ workItems[i] \in WorkItem
          /\ observedReadiness \in [Items -> Readiness \cup {None}]
          /\ workItems[i].version \in Nat
      BY DEF TypeOK, StoreTypeOK, WorkItem
    <2>2. CASE \E readiness \in Reports : ObserveReadiness(i, readiness)
      BY <2>1, <2>2, ConstantsAssumption DEF ObserveReadiness, storeVars
    <2>3. CASE \E complete \in BOOLEAN : ObserveInspection(i, complete)
      <3> PICK complete \in BOOLEAN : ObserveInspection(i, complete)
        BY <2>3
      <3>1. [workItems[i] EXCEPT !.inspected = complete] \in WorkItem
        BY <2>1 DEF WorkItem
      <3> QED
        BY <2>1, <3>1 DEF ObserveInspection
    <2>4. CASE \E e \in Observations, lag \in 0..MaxLag :
                  /\ lag <= workItems[i].version
                  /\ ObserveReconciliation(i,
                        IF e.kind # "merge-recorded" THEN e
                        ELSE [e EXCEPT !.envelope.version =
                                          workItems[i].version - lag])
      <3> PICK e \in Observations, lag \in 0..MaxLag :
                  /\ lag <= workItems[i].version
                  /\ ObserveReconciliation(i,
                        IF e.kind # "merge-recorded" THEN e
                        ELSE [e EXCEPT !.envelope.version =
                                          workItems[i].version - lag])
        BY <2>4
      <3> DEFINE v == workItems[i].version - lag
                 evidence == IF e.kind # "merge-recorded" THEN e
                             ELSE [e EXCEPT !.envelope.version = v]
                 rec == [kind |-> evidence.kind,
                         envelope |-> evidence.envelope,
                         seen |-> workItems[i].version]
      <3>1. v \in Nat
        BY <2>1, ConstantsAssumption
      <3>2. evidence \in Evidence
        <4> HIDE DEF v
        <4> QED
          BY <3>1, ConstantsAssumption DEF Evidence, Envelope
      <3>3. rec \in [kind: EvidenceKinds, envelope: Envelope, seen: Nat]
        <4> HIDE DEF evidence
        <4> QED
          BY <2>1, <3>2 DEF Evidence
      <3>4. workItems' = [workItems EXCEPT ![i].rec = rec]
            /\ observedReadiness' = observedReadiness
        BY DEF ObserveReconciliation
      <3> HIDE DEF rec
      <3>5. [workItems[i] EXCEPT !.rec = rec] \in WorkItem
        BY <2>1, <3>3 DEF WorkItem
      <3> QED
        BY <2>1, <3>4, <3>5
    <2> QED
      BY <2>2, <2>3, <2>4
  <1>2. UNCHANGED <<nextFencingToken, consumed, claimedAt, keyVars,
                    blockedVars, materializations, now>>
    BY DEF Observe, ObserveReadiness, ObserveInspection, ObserveReconciliation,
           storeVars
  <1>3. StoreTypeOK'
    BY <1>1, <1>2 DEF TypeOK, StoreTypeOK
  <1>4. KeyTypeOK' /\ MaterializationTypeOK'
    BY <1>2 DEF TypeOK, KeyTypeOK, MaterializationTypeOK, keyVars
  <1> QED
    BY <1>2, <1>3, <1>4, BlockedUnchangedType DEF TypeOK

\* A submission that exists names the item it resolves: TypeOK alone lets an
\* Inspector confirm a submission of no item.
SubmissionsNameItems ==
    \A s \in SubmissionIds :
        submissions[s].status # "absent" => submissions[s].item \in Items

\* An Inspector confirmation keeps the types: the submission names an item.
LEMMA ConfirmationType ==
    ASSUME TypeOK, SubmissionsNameItems, NEW id \in SubmissionIds,
           ObserveIndependentInspectorConfirmation(id)
    PROVE  TypeOK' /\ SubmissionsNameItems'
  <1> DEFINE item == submissions[id].item
             revision == revisions[item] + 1
             new == [submissions[id] EXCEPT !.confirmed = TRUE,
                                            !.revision = revision]
  <1>1. /\ submissions \in [SubmissionIds -> Submission]
        /\ submissions[id] \in Submission
        /\ revisions \in [Items -> Nat]
    BY DEF TypeOK, BlockedTypeOK
  <1>2. item \in Items /\ revision \in Nat
    BY <1>1 DEF SubmissionsNameItems, ObserveIndependentInspectorConfirmation
  <1>3. /\ submissions' = [submissions EXCEPT ![id] = new]
        /\ revisions' = [revisions EXCEPT ![item] = @ + 1]
        /\ UNCHANGED <<storeVars, keyVars, approvals, activeSubmissions,
                       nextSubmission, acknowledgements, materializations,
                       observedReadiness, now>>
    BY <1>1 DEF ObserveIndependentInspectorConfirmation
  <1>4. new \in Submission /\ new.item = item /\ item \in Items
    <2> HIDE DEF revision
    <2> QED
      BY <1>1, <1>2 DEF Submission
  <1>5. revisions' \in [Items -> Nat]
    <2> HIDE DEF item
    <2> QED
      BY <1>1, <1>2, <1>3
  <1> HIDE DEF new
  <1>6. submissions' \in [SubmissionIds -> Submission]
    BY <1>1, <1>3, <1>4
  <1>7. SubmissionsNameItems'
    BY <1>1, <1>3, <1>4 DEF SubmissionsNameItems
  <1>8. BlockedTypeOK'
    BY <1>3, <1>5, <1>6 DEF TypeOK, BlockedTypeOK
  <1>9. KeyTypeOK' /\ MaterializationTypeOK'
    BY <1>3 DEF TypeOK, KeyTypeOK, MaterializationTypeOK, keyVars
  <1> QED
    BY <1>3, <1>7, <1>8, <1>9, StoreUnchangedType DEF TypeOK

\* Granting an approval keeps the types.
LEMMA SeedApprovalType ==
    ASSUME TypeOK, NEW a \in Approvals, NEW scope \in Scope,
           NEW expires \in Nat, SeedApproval(a, scope, expires)
    PROVE  TypeOK'
  <1>1. [status |-> "unused", scope |-> scope, expires |-> expires] \in Approval
    BY DEF Approval
  <1>2. BlockedTypeOK'
    BY <1>1 DEF SeedApproval, TypeOK, BlockedTypeOK
  <1>3. KeyTypeOK' /\ MaterializationTypeOK'
    BY DEF SeedApproval, TypeOK, KeyTypeOK, MaterializationTypeOK, keyVars
  <1> QED
    BY <1>2, <1>3, StoreUnchangedType DEF SeedApproval, TypeOK

\* The clock stays a natural number.
LEMMA TickType ==
    ASSUME TypeOK, Tick
    PROVE  TypeOK'
  <1>1. StoreTypeOK'
    BY DEF Tick, storeVars, TypeOK, StoreTypeOK
  <1>2. KeyTypeOK' /\ MaterializationTypeOK'
    BY DEF Tick, TypeOK, KeyTypeOK, MaterializationTypeOK, keyVars
  <1> QED
    BY <1>1, <1>2, BlockedUnchangedType DEF Tick, TypeOK
-----------------------------------------------------------------------------
(* The steps of Next, put together.                                        *)

\* The binding resolve-block needs is checked on the submission it consumes.
LEMMA ResolveBlockBinding ==
    ASSUME TypeOK, NEW r \in Request, r.op = "resolve-block",
           Verdict(r) = "allowed"
    PROVE  /\ validateResolutionBinding(r, Context(r))
           /\ r.submission \in SubmissionIds
           /\ submissions[r.submission].status = "pending"
           /\ submissions[r.submission].item = r.item
  <1> DEFINE n == normalizeLifecycleRequest(r)
  <1>1. n = [r EXCEPT !.cs = n.cs] /\ n.op = "resolve-block"
    BY NormalizedType DEF Request
  <1>2. validateResolutionBinding(n, Context(r))
    BY <1>1, EvaluateAllowed DEF Verdict
  <1>3. validateResolutionBinding(r, Context(r))
    <2> HIDE DEF n
    <2> QED
      BY <1>1, <1>2 DEF validateResolutionBinding, Request
  <1>4. /\ Context(r).submission = SubmissionOf(r.submission)
        /\ Context(r).submission.status = "pending"
        /\ Context(r).submission.item = r.item
    BY <1>3 DEF validateResolutionBinding, Context
  <1>5. r.submission \in SubmissionIds
    BY <1>4 DEF SubmissionOf, NoSubmission
  <1> QED
    BY <1>3, <1>4, <1>5 DEF SubmissionOf

\* Every call keeps the types.
LEMMA ExecuteType ==
    ASSUME TypeOK, SubmissionsNameItems, NEW r \in Request, Execute(r)
    PROVE  TypeOK' /\ SubmissionsNameItems'
  <1>1. CASE ResolveBlock(r)
    <2>1. submissions[r.submission].item \in Items
          /\ submissions \in [SubmissionIds -> Submission]
      BY <1>1, ResolveBlockBinding
         DEF ResolveBlock, Allowed, Request, TypeOK, BlockedTypeOK
    <2>2. submissions' = [submissions EXCEPT
                            ![r.submission].status = "consumed"]
      BY <1>1 DEF ResolveBlock
    <2>3. \A s \in SubmissionIds :
            /\ submissions'[s].item = submissions[s].item
            /\ s # r.submission =>
                 submissions'[s].status = submissions[s].status
      BY <2>1, <2>2 DEF Submission
    <2>4. SubmissionsNameItems'
      BY <2>1, <2>3 DEF SubmissionsNameItems
    <2> QED
      BY <1>1, <2>4, ResolveBlockType
  <1>2. CASE SubmitResolution(r)
    <2>1. \A s \in SubmissionIds :
            submissions'[s].item \in {r.item, submissions[s].item}
      BY <1>2 DEF SubmitResolution, TypeOK, BlockedTypeOK, Submission
    <2>2. \A s \in SubmissionIds :
            \/ submissions'[s].item = r.item
            \/ submissions[s].status # "absent"
            \/ submissions'[s].status = "absent"
      BY <1>2 DEF SubmitResolution, TypeOK, BlockedTypeOK, Submission,
                  SubmissionOf
    <2>3. SubmissionsNameItems'
      BY <2>1, <2>2 DEF SubmissionsNameItems, Request
    <2> QED
      BY <1>2, <2>3, SubmitResolutionType
  <1>3. CASE ~ResolveBlock(r) /\ ~SubmitResolution(r)
    <2>1. CASE Lifecycle(r)
      <3>1. submissions' = submissions
        BY <2>1 DEF Lifecycle, RefreshDependencies, Revalidate, Claim,
           RenewLease, TestsPass, RaiseSpecQuestion, RefreshActive,
           ReturnToBuilding, BeginMerge, MergeConflict, Free, RecordMerge,
           Abandon, blockedVars
      <3> QED
        BY <2>1, <3>1, LifecycleType DEF SubmissionsNameItems
    <2>2. CASE Materialize(r) \/ Omit(r) \/ ReturnMaterialized(r)
      <3>1. submissions' = submissions
        BY <2>2 DEF Materialize, Omit, ReturnMaterialized, blockedVars
      <3> QED
        BY <2>2, <3>1, MaterializeType, OmitType, ReturnMaterializedType
           DEF SubmissionsNameItems
    <2>3. CASE Acknowledge(r) \/ Reject(r)
      <3>1. submissions' = submissions
        BY <2>3 DEF Acknowledge, Reject, blockedVars
      <3> QED
        BY <2>3, <3>1, AcknowledgeType, RejectType DEF SubmissionsNameItems
    <2> QED
      BY <1>3, <2>1, <2>2, <2>3 DEF Execute, Lifecycle
  <1> QED
    BY <1>1, <1>2, <1>3

\* What a human approves is a scope.
LEMMA GrantType ==
    ASSUME TypeOK, SubmissionsNameItems, Grant
    PROVE  TypeOK' /\ SubmissionsNameItems'
  <1> PICK a \in Approvals, g \in Grants, x \in 1..(MaxTime + 1) :
        SeedApproval(a, [g EXCEPT !.state = workItems[g.item].state,
                                  !.version = workItems[g.item].version], x)
    BY DEF Grant
  <1> DEFINE scope == [g EXCEPT !.state = workItems[g.item].state,
                                !.version = workItems[g.item].version]
  <1>1. g \in Scope /\ x \in Nat
    BY ConstantsAssumption
  <1>2. workItems[g.item] \in WorkItem
    BY <1>1 DEF TypeOK, StoreTypeOK, Scope
  <1>3. scope \in Scope
    BY <1>1, <1>2 DEF Scope, WorkItem
  <1>4. SeedApproval(a, scope, x)
    OBVIOUS
  <1> HIDE DEF scope
  <1>5. TypeOK'
    BY <1>1, <1>3, <1>4, SeedApprovalType
  <1> QED
    BY <1>4, <1>5 DEF SeedApproval, SubmissionsNameItems

\* The inductive invariant behind type correctness.
LEMMA TypeInductive ==
    ASSUME TypeOK, SubmissionsNameItems, [Next]_vars
    PROVE  TypeOK' /\ SubmissionsNameItems'
  <1>1. CASE \E c \in Calls : \E v \in Versions(c), t \in Tokens(c) :
               \E n \in Named(c, v) :
                  Execute([c EXCEPT !.expVersion = v, !.token = t,
                                    !.envelope.version = n])
    <2> PICK c \in Calls : \E v \in Versions(c), t \in Tokens(c) :
               \E n \in Named(c, v) :
                  Execute([c EXCEPT !.expVersion = v, !.token = t,
                                    !.envelope.version = n])
      BY <1>1
    <2> PICK v \in Versions(c), t \in Tokens(c) : \E n \in Named(c, v) :
               Execute([c EXCEPT !.expVersion = v, !.token = t,
                                 !.envelope.version = n])
      OBVIOUS
    <2> PICK n \in Named(c, v) :
               Execute([c EXCEPT !.expVersion = v, !.token = t,
                                 !.envelope.version = n])
      OBVIOUS
    <2> QED
      BY RequestType, ExecuteType
  <1>2. CASE \E a \in answered : Retry(a.request)
    <2> PICK a \in answered : Retry(a.request)
      BY <1>2
    <2>1. a.request \in Request
      BY DEF TypeOK, KeyTypeOK
    <2> QED
      BY <2>1, RetryType DEF Retry, blockedVars, SubmissionsNameItems
  <1>3. CASE Observe
    BY <1>3, ObserveType DEF Observe, ObserveReadiness, ObserveInspection,
       ObserveReconciliation, blockedVars, SubmissionsNameItems
  <1>4. CASE \E id \in SubmissionIds :
                ObserveIndependentInspectorConfirmation(id)
    BY <1>4, ConfirmationType
  <1>5. CASE Grant
    BY <1>5, GrantType
  <1>6. CASE Tick
    BY <1>6, TickType DEF Tick, blockedVars, SubmissionsNameItems
  <1>7. CASE UNCHANGED vars
    <2>1. StoreTypeOK' /\ BlockedTypeOK'
      BY <1>7, StoreUnchangedType, BlockedUnchangedType DEF vars
    <2>2. KeyTypeOK' /\ MaterializationTypeOK' /\ SubmissionsNameItems'
      BY <1>7 DEF vars, keyVars, blockedVars, TypeOK, KeyTypeOK,
                  MaterializationTypeOK, SubmissionsNameItems
    <2> QED
      BY <2>1, <2>2 DEF TypeOK
  <1> QED
    BY <1>1, <1>2, <1>3, <1>4, <1>5, <1>6, <1>7 DEF Next

\* The empty store is well typed.
LEMMA InitTypes ==
    ASSUME Init
    PROVE  TypeOK /\ SubmissionsNameItems
  <1>1. StoreTypeOK
    BY RecordTypes DEF Init, StoreTypeOK
  <1>2. BlockedTypeOK
    BY RecordTypes, ConstantsAssumption DEF Init, BlockedTypeOK
  <1>3. KeyTypeOK /\ MaterializationTypeOK
    BY DEF Init, KeyTypeOK, MaterializationTypeOK
  <1>4. SubmissionsNameItems
    BY DEF Init, SubmissionsNameItems, NoSubmission
  <1> QED
    BY <1>1, <1>2, <1>3, <1>4 DEF TypeOK

\* Every map of the adapter keeps its type in every reachable state, and every
\* submission that exists names a work item.
THEOREM TypeCorrect == Spec => [](TypeOK /\ SubmissionsNameItems)
  <1>1. Init => TypeOK /\ SubmissionsNameItems
    BY InitTypes
  <1>2. TypeOK /\ SubmissionsNameItems /\ [Next]_vars =>
          TypeOK' /\ SubmissionsNameItems'
    BY TypeInductive
  <1> QED
    BY <1>1, <1>2, PTL DEF Spec

-----------------------------------------------------------------------------
(* What an allowed command has passed, and the records it computes.        *)

\* What Evaluate has checked of a command it allows.
LEMMA AllowedFacts ==
    ASSUME TypeOK, NEW r \in Request, Allowed(r)
    PROVE  /\ <<r.op, workItems[r.item].state>> \in v1Transitions
           /\ r.expVersion = workItems[r.item].version
           /\ r.op \in {"refresh-dependencies", "resolve-block"} =>
                Buildable(workItems[r.item], Context(r))
           /\ r.op = "begin-merge" => workItems[r.item].inspected
  <1> DEFINE n == normalizeLifecycleRequest(r)
             item == workItems[r.item]
             ev == Context(r)
  <1>1. n.op = r.op /\ n.expVersion = r.expVersion
    BY NormalizedType DEF Request
  <1>2. Evaluate(n, item, ev) = "allowed"
    BY DEF Allowed, Verdict
  <1> HIDE DEF n, item, ev
  <1>3. /\ <<n.op, item.state>> \in v1Transitions
        /\ n.op # "materialize" => evaluateTransition(n, item, ev)
        /\ n.expVersion = item.version
    BY <1>2, EvaluateAllowed
  <1>4. /\ n.op \in {"refresh-dependencies", "resolve-block"} =>
             Buildable(item, ev)
        /\ n.op = "begin-merge" => item.inspected
    BY <1>3 DEF evaluateTransition
  <1> QED
    BY <1>1, <1>3, <1>4 DEF item, ev

Inspected == {"inspecting", "merging", "completed", "abandoned"}

\* The state, version and inspection flag of the record a command computes.
LEMMA ComputedFields ==
    ASSUME TypeOK, NEW r \in Request, NEW to \in States
    PROVE  LET old == workItems[r.item]
               advanced == Advanced(r, to)
               refreshed == Refreshed(r, to)
           IN  /\ advanced.state = to /\ refreshed.state = to
               /\ advanced.version = old.version + 1
               /\ refreshed.version = old.version + 1
               /\ advanced.mkey = old.mkey /\ refreshed.mkey = old.mkey
               /\ advanced.deps = old.deps /\ refreshed.deps = old.deps
               /\ advanced.lease = old.lease /\ refreshed.lease = old.lease
               /\ advanced.done = old.done
               /\ refreshed.done = liveDependencies(old.deps)
               /\ advanced.inspected =
                    (IF to \in Inspected THEN old.inspected ELSE FALSE)
               /\ refreshed.inspected = advanced.inspected
  <1> DEFINE old == workItems[r.item]
  <1>1. old \in WorkItem
    BY DEF Request, TypeOK, StoreTypeOK
  <1>2. Advanced(r, to) = [old EXCEPT !.state = to, !.version = @ + 1,
          !.inspected = IF to \in Inspected THEN @ ELSE FALSE]
    BY DEF Advanced, Inspected
  <1>3. Context(r).done = liveDependencies(old.deps)
    BY DEF Context
  <1>4. Advanced(r, to) \in WorkItem
    BY ComputedTypes
  <1>5. /\ Advanced(r, to).state = to
        /\ Advanced(r, to).version = old.version + 1
        /\ Advanced(r, to).mkey = old.mkey
        /\ Advanced(r, to).deps = old.deps
        /\ Advanced(r, to).lease = old.lease
        /\ Advanced(r, to).done = old.done
    BY <1>1, <1>2 DEF WorkItem
  <1>6. Advanced(r, to).inspected =
          (IF to \in Inspected THEN old.inspected ELSE FALSE)
    BY <1>1, <1>2 DEF WorkItem
  <1>7. /\ Refreshed(r, to).state = Advanced(r, to).state
        /\ Refreshed(r, to).version = Advanced(r, to).version
        /\ Refreshed(r, to).mkey = Advanced(r, to).mkey
        /\ Refreshed(r, to).deps = Advanced(r, to).deps
        /\ Refreshed(r, to).lease = Advanced(r, to).lease
        /\ Refreshed(r, to).inspected = Advanced(r, to).inspected
        /\ Refreshed(r, to).done = Context(r).done
    BY <1>4 DEF Refreshed, WorkItem
  <1> QED
    BY <1>3, <1>5, <1>6, <1>7

-----------------------------------------------------------------------------
(* The effect of a command on its work item.                               *)

\* A fence is issued afresh, kept while executing, or absent afterwards; only
\* a command that was executing can keep one, and building is entered with a
\* fresh one.
FenceEffect(old, new) ==
    \/ /\ new.state \in Executing
       /\ new.lease.token = nextFencingToken + 1
       /\ nextFencingToken' = nextFencingToken + 1
    \/ /\ old.state \in Executing /\ new.state \in Executing
       /\ new.state = "building" => old.state = "building"
       /\ new.lease.token = old.lease.token
       /\ nextFencingToken' = nextFencingToken
    \/ /\ new.state \notin Executing
       /\ \/ new.lease = NoLease
          \/ old.state \notin Executing /\ new.lease = old.lease
       /\ nextFencingToken' = nextFencingToken

\* Inspection evidence is kept towards completion only; merging is entered
\* with it, and completed from merging.
InspectionEffect(old, new) ==
    /\ new.inspected =
         (IF new.state \in Inspected THEN old.inspected ELSE FALSE)
    /\ new.state = "merging" => old.inspected
    /\ new.state = "completed" => old.state = "merging"

\* Dependency states are kept or observed live; readiness is entered only
\* with every dependency completed.
Ready == Executing \cup {"ready-for-building", "completed"}

DependencyEffect(old, new) ==
    /\ new.deps = old.deps
    /\ new.done \in {old.done, liveDependencies(old.deps)}
    /\ new.state \in Ready =>
         old.state \in Ready \/ old.deps = liveDependencies(old.deps)

CommandEffect(r, old, new) ==
    /\ workItems' = [workItems EXCEPT ![r.item] = new]
    /\ consumed' = [consumed EXCEPT ![r.item] = @ \cup {r.expVersion}]
    /\ r.expVersion = old.version
    /\ old.state \notin Terminal \cup {"initial"}
    /\ new.version = old.version + 1
    /\ new.mkey = old.mkey
    /\ new.state # "initial"
    /\ FenceEffect(old, new)
    /\ InspectionEffect(old, new)
    /\ DependencyEffect(old, new)

\* A record computed for a command, apart from its lease.
Core(item, old, to) ==
    /\ item.state = to
    /\ item.version = old.version + 1
    /\ item.mkey = old.mkey
    /\ item.deps = old.deps
    /\ item.done \in {old.done, liveDependencies(old.deps)}
    /\ item.inspected = (IF to \in Inspected THEN old.inspected ELSE FALSE)

\* Every lifecycle command other than materialize has a CommandEffect.
LEMMA CoreOfCommands ==
    ASSUME TypeOK, NEW r \in Request, NEW to \in States
    PROVE  /\ Advanced(r, to) \in WorkItem /\ Refreshed(r, to) \in WorkItem
           /\ Core(Advanced(r, to), workItems[r.item], to)
           /\ Core(Refreshed(r, to), workItems[r.item], to)
           /\ Advanced(r, to).lease = workItems[r.item].lease
           /\ Refreshed(r, to).lease = workItems[r.item].lease
  <1> DEFINE old == workItems[r.item]
             a == Advanced(r, to)
             b == Refreshed(r, to)
  <1>1. /\ a.state = to /\ b.state = to
        /\ a.version = old.version + 1 /\ b.version = old.version + 1
        /\ a.mkey = old.mkey /\ b.mkey = old.mkey
        /\ a.deps = old.deps /\ b.deps = old.deps
        /\ a.lease = old.lease /\ b.lease = old.lease
        /\ a.done = old.done /\ b.done = liveDependencies(old.deps)
        /\ a.inspected = (IF to \in Inspected THEN old.inspected ELSE FALSE)
        /\ b.inspected = a.inspected
    BY ComputedFields
  <1>2. a \in WorkItem /\ b \in WorkItem
    BY ComputedTypes
  <1> HIDE DEF a, b, old
  <1>3. Core(a, old, to) /\ Core(b, old, to)
    BY <1>1 DEF Core
  <1> QED
    BY <1>1, <1>2, <1>3 DEF a, b, old

\* Setting the other fields of a record keeps its core.
LEMMA CoreKept ==
    ASSUME NEW base \in WorkItem, NEW old, NEW to, Core(base, old, to),
           NEW item,
           \/ \E l, d : item = [base EXCEPT !.rec = d, !.lease = l]
           \/ \E l : item = [base EXCEPT !.lease = l]
           \/ \E e : item = [base EXCEPT !.expected = e]
    PROVE  Core(item, old, to)
  <1>1. /\ item.state = base.state /\ item.version = base.version
        /\ item.mkey = base.mkey
        /\ item.deps = base.deps /\ item.done = base.done
    BY DEF WorkItem
  <1>2. item.inspected = base.inspected
    BY DEF WorkItem
  <1> QED
    BY <1>1, <1>2 DEF Core

\* Each of the commands on an existing item has such an effect.
LEMMA LifecycleEffect ==
    ASSUME TypeOK, NEW r \in Request, Lifecycle(r) \/ ResolveBlock(r)
    PROVE  CommandEffect(r, workItems[r.item], workItems'[r.item])
  <1> DEFINE old == workItems[r.item]
             new == workItems'[r.item]
             Same == nextFencingToken' = nextFencingToken
             Kept == /\ old.state \in Executing /\ new.state \in Executing
                     /\ new.state = "building" => old.state = "building"
                     /\ new.lease.token = old.lease.token
                     /\ Same
             Fresh == /\ new.state \in Executing
                      /\ new.lease = startLease(r)
                      /\ nextFencingToken' = nextFencingToken + 1
             Released == /\ new.state \notin Executing /\ new.lease = NoLease
                         /\ Same
             Idle == /\ old.state \notin Executing /\ new.lease = old.lease
                     /\ new.state \notin Executing
                     /\ Same
             Shaped(to) == /\ Core(new, old, to)
                           /\ Kept \/ Fresh \/ Released \/ Idle
                           /\ to = "merging" => old.inspected
                           /\ to = "completed" => old.state = "merging"
                           /\ to \in Ready =>
                                \/ old.state \in Ready
                                \/ old.deps = liveDependencies(old.deps)
  <1>1. /\ r.item \in Items /\ workItems \in [Items -> WorkItem]
        /\ nextFencingToken \in Nat
        /\ nextToken # 0 /\ nextToken = nextFencingToken + 1
        /\ startLease(r).token = nextToken
    BY DEF Request, TypeOK, StoreTypeOK, nextToken, startLease
  <1>2. /\ Allowed(r) /\ r.op # "materialize"
        /\ \E item, token : Commit(r, item, token)
    BY DEF Lifecycle, RefreshDependencies, Revalidate, Claim, RenewLease,
       TestsPass, RaiseSpecQuestion, RefreshActive, ReturnToBuilding,
       BeginMerge, MergeConflict, Free, RecordMerge, Abandon, ResolveBlock
  <1>3. /\ <<r.op, old.state>> \in v1Transitions
        /\ r.expVersion = old.version
        /\ r.op \in {"refresh-dependencies", "resolve-block"} =>
             old.deps = liveDependencies(old.deps)
        /\ r.op = "begin-merge" => old.inspected
    BY <1>2, AllowedFacts DEF Buildable, Context
  <1>4. /\ old.state \notin Terminal \cup {"initial"}
        /\ r.op = "refresh-dependencies" => old.state = "waiting"
        /\ r.op = "revalidate" =>
             old.state \in {"waiting", "ready-for-building"}
        /\ r.op = "resolve-block" => old.state = "blocked"
        /\ r.op = "claim" => old.state = "ready-for-building"
        /\ r.op = "tests-pass" => old.state = "building"
        /\ r.op \in {"renew-lease", "raise-spec-question", "refresh-active",
                     "recover-lease"} =>
             old.state \in {"building", "inspecting"}
        /\ r.op \in {"return-to-building", "begin-merge"} =>
             old.state = "inspecting"
        /\ r.op \in {"merge-conflict", "merge-not-applied", "record-merge"} =>
             old.state = "merging"
    <2> HIDE DEF old
    <2> QED
      BY <1>2, <1>3, FromStates
  <1>5. \A item, token : Commit(r, item, token) =>
          /\ new = item
          /\ workItems' = [workItems EXCEPT ![r.item] = item]
          /\ consumed' = [consumed EXCEPT ![r.item] = @ \cup {r.expVersion}]
          /\ token = 0 => Same
          /\ token # 0 => nextFencingToken' = nextFencingToken + 1
    BY <1>1 DEF Commit
  <1>6. /\ old \in WorkItem /\ old.state \in States
        /\ \A to \in {"ready-for-building", "building", "inspecting",
                      "merging", "completed", "blocked", "abandoned"} :
             to \in States \ {"initial"}
    BY <1>1 DEF WorkItem, States
  <1>7. \A to \in States :
          /\ Advanced(r, to) \in WorkItem /\ Refreshed(r, to) \in WorkItem
          /\ Core(Advanced(r, to), old, to) /\ Core(Refreshed(r, to), old, to)
          /\ Advanced(r, to).lease = old.lease
          /\ Refreshed(r, to).lease = old.lease
    BY CoreOfCommands
  <1>8. \A to \in States \ {"initial"} : Shaped(to) =>
          CommandEffect(r, old, new)
    <2> TAKE to \in States \ {"initial"}
    <2> HAVE Shaped(to)
    <2>1. FenceEffect(old, new)
      BY <1>1 DEF FenceEffect
    <2>2. InspectionEffect(old, new) /\ DependencyEffect(old, new)
      BY DEF Core, InspectionEffect, DependencyEffect
    <2>3. /\ workItems' = [workItems EXCEPT ![r.item] = new]
          /\ consumed' = [consumed EXCEPT ![r.item] = @ \cup {r.expVersion}]
      BY <1>2, <1>5
    <2> HIDE DEF new, old
    <2>4. /\ new.version = old.version + 1 /\ new.state # "initial"
          /\ new.mkey = old.mkey
      BY DEF Core
    <2> QED
      BY <2>1, <2>2, <2>3, <2>4, <1>3, <1>4 DEF CommandEffect
  <1> HIDE DEF new, Same
  <1>9. CASE RefreshDependencies(r) \/ ResolveBlock(r)
    <2> DEFINE item == Refreshed(r, "ready-for-building")
    <2>1. /\ r.op \in {"refresh-dependencies", "resolve-block"}
          /\ Commit(r, item, 0)
      BY <1>9 DEF RefreshDependencies, ResolveBlock
    <2>2. Core(item, old, "ready-for-building") /\ item.lease = old.lease
      BY <1>6, <1>7
    <2> HIDE DEF item, old
    <2>3. Core(new, old, "ready-for-building") /\ Idle
      BY <2>1, <2>2, <1>1, <1>4, <1>5 DEF Core, Executing
    <2>4. Shaped("ready-for-building")
      BY <2>1, <2>3, <1>3, <1>4 DEF Ready, Executing
    <2> HIDE DEF Shaped
    <2> QED
      BY <2>1, <2>4, <1>4, <1>6, <1>8 DEF old, new
  <1>10. CASE Revalidate(r)
    <2> DEFINE item == Refreshed(r, "blocked")
    <2>1. /\ r.op = "revalidate"
          /\ Commit(r, item, 0)
      BY <1>10 DEF Revalidate
    <2>2. Core(item, old, "blocked") /\ item.lease = old.lease
      BY <1>6, <1>7
    <2> HIDE DEF item, old
    <2>3. Core(new, old, "blocked") /\ Idle
      BY <2>1, <2>2, <1>1, <1>4, <1>5 DEF Core, Executing
    <2>4. Shaped("blocked")
      BY <2>1, <2>3, <1>3, <1>4 DEF Ready, Executing
    <2> HIDE DEF Shaped
    <2> QED
      BY <2>1, <2>4, <1>4, <1>6, <1>8 DEF old, new
  <1>11. CASE Claim(r)
    <2> DEFINE item == [Advanced(r, "building") EXCEPT
                      !.rec = NoRecord, !.lease = startLease(r)]
    <2>1. /\ r.op = "claim"
          /\ Commit(r, item, nextToken)
      BY <1>11 DEF Claim
    <2>2. Core(item, old, "building") /\ item.lease = startLease(r)
      <3>1. /\ Advanced(r, "building") \in WorkItem
            /\ Core(Advanced(r, "building"), old, "building")
            /\ Advanced(r, "building").lease = old.lease
        BY <1>6, <1>7
      <3>2. item.lease = startLease(r)
        BY <3>1, <1>6 DEF WorkItem, Lease
      <3> QED
        BY <3>1, <3>2, CoreKept
    <2> HIDE DEF item, old
    <2>3. Core(new, old, "building") /\ Fresh
      BY <2>1, <2>2, <1>1, <1>4, <1>5 DEF Core, Executing
    <2>4. Shaped("building")
      BY <2>1, <2>3, <1>3, <1>4 DEF Ready, Executing
    <2> HIDE DEF Shaped
    <2> QED
      BY <2>1, <2>4, <1>4, <1>6, <1>8 DEF old, new
  <1>12. CASE RenewLease(r)
    <2> DEFINE item == [Advanced(r, old.state) EXCEPT
                      !.lease.expires = now + LeaseDuration]
    <2>1. /\ r.op = "renew-lease"
          /\ Commit(r, item, 0)
      BY <1>12 DEF RenewLease
    <2>2. Core(item, old, old.state) /\ item.lease.token = old.lease.token
      <3>1. /\ Advanced(r, old.state) \in WorkItem
            /\ Core(Advanced(r, old.state), old, old.state)
            /\ Advanced(r, old.state).lease = old.lease
        BY <1>6, <1>7
      <3>2. item.lease.token = old.lease.token
        BY <3>1, <1>6 DEF WorkItem, Lease
      <3> QED
        BY <3>1, <3>2, CoreKept
    <2> HIDE DEF item, old
    <2>3. Core(new, old, old.state) /\ Kept
      BY <2>1, <2>2, <1>1, <1>4, <1>5 DEF Core, Executing
    <2>4. Shaped(old.state)
      BY <2>1, <2>3, <1>3, <1>4 DEF Ready, Executing
    <2> HIDE DEF Shaped
    <2> QED
      BY <2>1, <2>4, <1>4, <1>6, <1>8 DEF old, new
  <1>13. CASE TestsPass(r)
    <2> DEFINE item == Advanced(r, "inspecting")
    <2>1. /\ r.op = "tests-pass"
          /\ Commit(r, item, 0)
      BY <1>13 DEF TestsPass
    <2>2. Core(item, old, "inspecting") /\ item.lease = old.lease
      BY <1>6, <1>7
    <2> HIDE DEF item, old
    <2>3. Core(new, old, "inspecting") /\ Kept
      BY <2>1, <2>2, <1>1, <1>4, <1>5 DEF Core, Executing
    <2>4. Shaped("inspecting")
      BY <2>1, <2>3, <1>3, <1>4 DEF Ready, Executing
    <2> HIDE DEF Shaped
    <2> QED
      BY <2>1, <2>4, <1>4, <1>6, <1>8 DEF old, new
  <1>14. CASE RaiseSpecQuestion(r)
    <2> DEFINE item == [Advanced(r, "blocked") EXCEPT
                      !.lease = NoLease]
    <2>1. /\ r.op = "raise-spec-question"
          /\ Commit(r, item, 0)
      BY <1>14 DEF RaiseSpecQuestion
    <2>2. Core(item, old, "blocked") /\ item.lease = NoLease
      <3>1. /\ Advanced(r, "blocked") \in WorkItem
            /\ Core(Advanced(r, "blocked"), old, "blocked")
            /\ Advanced(r, "blocked").lease = old.lease
        BY <1>6, <1>7
      <3>2. item.lease = NoLease
        BY <3>1, <1>6 DEF WorkItem, Lease
      <3> QED
        BY <3>1, <3>2, CoreKept
    <2> HIDE DEF item, old
    <2>3. Core(new, old, "blocked") /\ Released
      BY <2>1, <2>2, <1>1, <1>4, <1>5 DEF Core, Executing
    <2>4. Shaped("blocked")
      BY <2>1, <2>3, <1>3, <1>4 DEF Ready, Executing
    <2> HIDE DEF Shaped
    <2> QED
      BY <2>1, <2>4, <1>4, <1>6, <1>8 DEF old, new
  <1>15. CASE RefreshActive(r)
    <2> DEFINE again == [Refreshed(r, "building") EXCEPT
                      !.lease = startLease(r)]
               block == [Refreshed(r, "blocked") EXCEPT
                      !.lease = NoLease]
    <2>1. /\ r.op = "refresh-active"
          /\ Commit(r, again, nextToken) \/ Commit(r, block, 0)
      BY <1>15 DEF RefreshActive
    <2>2. Core(again, old, "building") /\ again.lease = startLease(r)
      <3>1. /\ Refreshed(r, "building") \in WorkItem
            /\ Core(Refreshed(r, "building"), old, "building")
            /\ Refreshed(r, "building").lease = old.lease
        BY <1>6, <1>7
      <3>2. again.lease = startLease(r)
        BY <3>1, <1>6 DEF WorkItem, Lease
      <3> QED
        BY <3>1, <3>2, CoreKept
    <2>3. Core(block, old, "blocked") /\ block.lease = NoLease
      <3>1. /\ Refreshed(r, "blocked") \in WorkItem
            /\ Core(Refreshed(r, "blocked"), old, "blocked")
            /\ Refreshed(r, "blocked").lease = old.lease
        BY <1>6, <1>7
      <3>2. block.lease = NoLease
        BY <3>1, <1>6 DEF WorkItem, Lease
      <3> QED
        BY <3>1, <3>2, CoreKept
    <2> HIDE DEF again, block, old
    <2>4. \/ Core(new, old, "building") /\ Fresh
          \/ Core(new, old, "blocked") /\ Released
      BY <2>1, <2>2, <2>3, <1>1, <1>4, <1>5 DEF Core, Executing
    <2>5. Shaped("building") \/ Shaped("blocked")
      BY <2>1, <2>4, <1>3, <1>4 DEF Ready, Executing
    <2> HIDE DEF Shaped
    <2> QED
      BY <2>1, <2>5, <1>4, <1>6, <1>8 DEF old, new
  <1>16. CASE ReturnToBuilding(r)
    <2> DEFINE item == [Advanced(r, "building") EXCEPT
                      !.lease = startLease(r)]
    <2>1. /\ r.op = "return-to-building"
          /\ Commit(r, item, nextToken)
      BY <1>16 DEF ReturnToBuilding
    <2>2. Core(item, old, "building") /\ item.lease = startLease(r)
      <3>1. /\ Advanced(r, "building") \in WorkItem
            /\ Core(Advanced(r, "building"), old, "building")
            /\ Advanced(r, "building").lease = old.lease
        BY <1>6, <1>7
      <3>2. item.lease = startLease(r)
        BY <3>1, <1>6 DEF WorkItem, Lease
      <3> QED
        BY <3>1, <3>2, CoreKept
    <2> HIDE DEF item, old
    <2>3. Core(new, old, "building") /\ Fresh
      BY <2>1, <2>2, <1>1, <1>4, <1>5 DEF Core, Executing
    <2>4. Shaped("building")
      BY <2>1, <2>3, <1>3, <1>4 DEF Ready, Executing
    <2> HIDE DEF Shaped
    <2> QED
      BY <2>1, <2>4, <1>4, <1>6, <1>8 DEF old, new
  <1>17. CASE BeginMerge(r)
    <2> DEFINE item == [Advanced(r, "merging") EXCEPT
                      !.expected = r.envelope]
    <2>1. /\ r.op = "begin-merge"
          /\ Commit(r, item, 0)
      BY <1>17 DEF BeginMerge
    <2>2. Core(item, old, "merging") /\ item.lease = old.lease
      <3>1. /\ Advanced(r, "merging") \in WorkItem
            /\ Core(Advanced(r, "merging"), old, "merging")
            /\ Advanced(r, "merging").lease = old.lease
        BY <1>6, <1>7
      <3>2. item.lease = old.lease
        BY <3>1, <1>6 DEF WorkItem, Lease
      <3> QED
        BY <3>1, <3>2, CoreKept
    <2> HIDE DEF item, old
    <2>3. Core(new, old, "merging") /\ Kept
      BY <2>1, <2>2, <1>1, <1>4, <1>5 DEF Core, Executing
    <2>4. Shaped("merging")
      BY <2>1, <2>3, <1>3, <1>4 DEF Ready, Executing
    <2> HIDE DEF Shaped
    <2> QED
      BY <2>1, <2>4, <1>4, <1>6, <1>8 DEF old, new
  <1>18. CASE MergeConflict(r)
    <2> DEFINE free == [Advanced(r, "ready-for-building") EXCEPT
                      !.rec = NoRecord, !.lease = NoLease]
               again == [Advanced(r, "building") EXCEPT
                      !.rec = NoRecord, !.lease = startLease(r)]
    <2>1. /\ r.op = "merge-conflict"
          /\ Commit(r, free, 0) \/ Commit(r, again, nextToken)
      BY <1>18 DEF MergeConflict
    <2>2. Core(free, old, "ready-for-building") /\ free.lease = NoLease
      <3>1. /\ Advanced(r, "ready-for-building") \in WorkItem
            /\ Core(Advanced(r, "ready-for-building"), old, "ready-for-building")
            /\ Advanced(r, "ready-for-building").lease = old.lease
        BY <1>6, <1>7
      <3>2. free.lease = NoLease
        BY <3>1, <1>6 DEF WorkItem, Lease
      <3> QED
        BY <3>1, <3>2, CoreKept
    <2>3. Core(again, old, "building") /\ again.lease = startLease(r)
      <3>1. /\ Advanced(r, "building") \in WorkItem
            /\ Core(Advanced(r, "building"), old, "building")
            /\ Advanced(r, "building").lease = old.lease
        BY <1>6, <1>7
      <3>2. again.lease = startLease(r)
        BY <3>1, <1>6 DEF WorkItem, Lease
      <3> QED
        BY <3>1, <3>2, CoreKept
    <2> HIDE DEF free, again, old
    <2>4. \/ Core(new, old, "ready-for-building") /\ Released
          \/ Core(new, old, "building") /\ Fresh
      BY <2>1, <2>2, <2>3, <1>1, <1>4, <1>5 DEF Core, Executing
    <2>5. Shaped("ready-for-building") \/ Shaped("building")
      BY <2>1, <2>4, <1>3, <1>4 DEF Ready, Executing
    <2> HIDE DEF Shaped
    <2> QED
      BY <2>1, <2>5, <1>4, <1>6, <1>8 DEF old, new
  <1>19. CASE Free(r)
    <2> DEFINE item == [Advanced(r, "ready-for-building") EXCEPT
                      !.rec = NoRecord, !.lease = NoLease]
    <2>1. /\ r.op \in {"merge-not-applied", "recover-lease"}
          /\ Commit(r, item, 0)
      BY <1>19 DEF Free
    <2>2. Core(item, old, "ready-for-building") /\ item.lease = NoLease
      <3>1. /\ Advanced(r, "ready-for-building") \in WorkItem
            /\ Core(Advanced(r, "ready-for-building"), old, "ready-for-building")
            /\ Advanced(r, "ready-for-building").lease = old.lease
        BY <1>6, <1>7
      <3>2. item.lease = NoLease
        BY <3>1, <1>6 DEF WorkItem, Lease
      <3> QED
        BY <3>1, <3>2, CoreKept
    <2> HIDE DEF item, old
    <2>3. Core(new, old, "ready-for-building") /\ Released
      BY <2>1, <2>2, <1>1, <1>4, <1>5 DEF Core, Executing
    <2>4. Shaped("ready-for-building")
      BY <2>1, <2>3, <1>3, <1>4 DEF Ready, Executing
    <2> HIDE DEF Shaped
    <2> QED
      BY <2>1, <2>4, <1>4, <1>6, <1>8 DEF old, new
  <1>20. CASE RecordMerge(r)
    <2>0. PICK record :
            Commit(r, [Advanced(r, "completed") EXCEPT !.rec = record,
                                                       !.lease = NoLease], 0)
      BY <1>20 DEF RecordMerge
    <2> DEFINE item == [Advanced(r, "completed") EXCEPT
                      !.rec = record, !.lease = NoLease]
    <2>1. /\ r.op = "record-merge"
          /\ Commit(r, item, 0)
      BY <1>20, <2>0 DEF RecordMerge
    <2>2. Core(item, old, "completed") /\ item.lease = NoLease
      <3>1. /\ Advanced(r, "completed") \in WorkItem
            /\ Core(Advanced(r, "completed"), old, "completed")
            /\ Advanced(r, "completed").lease = old.lease
        BY <1>6, <1>7
      <3>2. item.lease = NoLease
        BY <3>1, <1>6 DEF WorkItem, Lease
      <3> QED
        BY <3>1, <3>2, CoreKept
    <2> HIDE DEF item, old
    <2>3. Core(new, old, "completed") /\ Released
      BY <2>1, <2>2, <1>1, <1>4, <1>5 DEF Core, Executing
    <2>4. Shaped("completed")
      BY <2>1, <2>3, <1>3, <1>4 DEF Ready, Executing
    <2> HIDE DEF Shaped
    <2> QED
      BY <2>1, <2>4, <1>4, <1>6, <1>8 DEF old, new
  <1>21. CASE Abandon(r)
    <2> DEFINE item == [Advanced(r, "abandoned") EXCEPT
                      !.lease = NoLease]
    <2>1. /\ r.op = "abandon"
          /\ Commit(r, item, 0)
      BY <1>21 DEF Abandon
    <2>2. Core(item, old, "abandoned") /\ item.lease = NoLease
      <3>1. /\ Advanced(r, "abandoned") \in WorkItem
            /\ Core(Advanced(r, "abandoned"), old, "abandoned")
            /\ Advanced(r, "abandoned").lease = old.lease
        BY <1>6, <1>7
      <3>2. item.lease = NoLease
        BY <3>1, <1>6 DEF WorkItem, Lease
      <3> QED
        BY <3>1, <3>2, CoreKept
    <2> HIDE DEF item, old
    <2>3. Core(new, old, "abandoned") /\ Released
      BY <2>1, <2>2, <1>1, <1>4, <1>5 DEF Core, Executing
    <2>4. Shaped("abandoned")
      BY <2>1, <2>3, <1>3, <1>4 DEF Ready, Executing
    <2> HIDE DEF Shaped
    <2> QED
      BY <2>1, <2>4, <1>4, <1>6, <1>8 DEF old, new
  <1> QED
    BY <1>9, <1>10, <1>11, <1>12, <1>13, <1>14, <1>15, <1>16, <1>17, <1>18,
       <1>19, <1>20, <1>21 DEF Lifecycle, new

-----------------------------------------------------------------------------
(* The effect of every step on the store.                                  *)

\* A new item starts unfenced, with the dependency states observed live.
MaterializationEffect(r, old, new) ==
    /\ workItems' = [workItems EXCEPT ![r.item] = new]
    /\ consumed' = [consumed EXCEPT ![r.item] = @ \cup {r.expVersion}]
    /\ nextFencingToken' = nextFencingToken
    /\ old.state = "initial" /\ r.expVersion = old.version
    /\ new.state \in {"blocked", "waiting", "ready-for-building"}
    /\ new.version = 1
    /\ new.lease = NoLease
    /\ new.inspected = FALSE
    /\ new.done = liveDependencies(new.deps)
    /\ new.state = "ready-for-building" => new.deps = new.done

\* Materialize has a MaterializationEffect.
LEMMA MaterializeEffect ==
    ASSUME TypeOK, NEW r \in Request, Materialize(r)
    PROVE  MaterializationEffect(r, workItems[r.item], workItems'[r.item])
  <1> DEFINE old == workItems[r.item]
             done == liveDependencies(r.source.deps)
             start == MaterializedState(r.source, done)
             item == [NoItem EXCEPT
                        !.state = start,
                        !.version = 1,
                        !.mkey = r.mkey,
                        !.deps = r.source.deps,
                        !.done = done,
                        !.readiness = r.source.readiness,
                        !.expected.target = r.source.target]
  <1>1. /\ r.item \in Items /\ workItems \in [Items -> WorkItem]
        /\ nextFencingToken \in Nat
    BY DEF Request, TypeOK, StoreTypeOK
  <1>2. Commit(r, item, 0) /\ Allowed(r) /\ r.op = "materialize"
    BY DEF Materialize
  <1>3. /\ <<r.op, old.state>> \in v1Transitions
        /\ r.expVersion = old.version
    BY <1>2, AllowedFacts
  <1>4. old.state = "initial"
    <2> HIDE DEF old
    <2> QED
      BY <1>2, <1>3, FromStates
  <1>5. /\ start \in {"blocked", "waiting", "ready-for-building"}
        /\ start = "ready-for-building" => r.source.deps = done
    BY DEF MaterializedState
  <1>6. /\ item.state = start /\ item.version = 1 /\ item.lease = NoLease
        /\ item.inspected = FALSE /\ item.deps = r.source.deps
        /\ item.done = done
    <2> HIDE DEF start, done
    <2> QED
      BY DEF NoItem
  <1>7. item.done = liveDependencies(item.deps)
    <2> HIDE DEF item
    <2> QED
      BY <1>6
  <1> HIDE DEF item
  <1>8. /\ workItems' = [workItems EXCEPT ![r.item] = item]
        /\ workItems'[r.item] = item
        /\ consumed' = [consumed EXCEPT ![r.item] = @ \cup {r.expVersion}]
        /\ nextFencingToken' = nextFencingToken
    BY <1>1, <1>2 DEF Commit
  <1> HIDE DEF start, done, old
  <1>9. MaterializationEffect(r, old, item)
    BY <1>3, <1>4, <1>5, <1>6, <1>7, <1>8 DEF MaterializationEffect
  <1> QED
    BY <1>8, <1>9 DEF old

\* An observation changes the evidence of an existing item.
ObservationEffect(i, old, new) ==
    /\ workItems' = [workItems EXCEPT ![i] = new]
    /\ consumed' = consumed
    /\ nextFencingToken' = nextFencingToken
    /\ \/ /\ old.state = "inspecting"
          /\ \E complete \in BOOLEAN : new = [old EXCEPT !.inspected = complete]
       \/ /\ old.state # "initial"
          /\ \E rec : new = [old EXCEPT !.rec = rec]

\* The hooks have an ObservationEffect on the item they name.
LEMMA ObserveEffect ==
    ASSUME TypeOK, Observe
    PROVE  \/ UNCHANGED storeVars
           \/ \E i \in Items :
                ObservationEffect(i, workItems[i], workItems'[i])
  <1>1. workItems \in [Items -> WorkItem]
    BY DEF TypeOK, StoreTypeOK
  <1>2. CASE \E i \in Items, readiness \in Reports :
                ObserveReadiness(i, readiness)
    BY <1>2 DEF ObserveReadiness
  <1>3. CASE \E i \in Items, complete \in BOOLEAN :
                ObserveInspection(i, complete)
    <2> PICK i \in Items, complete \in BOOLEAN : ObserveInspection(i, complete)
      BY <1>3
    <2> DEFINE new == [workItems[i] EXCEPT !.inspected = complete]
    <2>1. /\ workItems[i].state = "inspecting"
          /\ workItems' = [workItems EXCEPT ![i] = new]
          /\ workItems'[i] = new
          /\ consumed' = consumed /\ nextFencingToken' = nextFencingToken
      BY <1>1 DEF ObserveInspection
    <2> QED
      BY <2>1 DEF ObservationEffect
  <1>4. CASE \E i \in Items : \E e : ObserveReconciliation(i, e)
    <2> PICK i \in Items : \E e : ObserveReconciliation(i, e)
      BY <1>4
    <2> PICK e : ObserveReconciliation(i, e)
      OBVIOUS
    <2> DEFINE rec == [kind |-> e.kind, envelope |-> e.envelope,
                       seen |-> workItems[i].version]
               new == [workItems[i] EXCEPT !.rec = rec]
    <2>1. /\ workItems[i].state # "initial"
          /\ workItems' = [workItems EXCEPT ![i] = new]
          /\ workItems'[i] = new
          /\ consumed' = consumed /\ nextFencingToken' = nextFencingToken
      BY <1>1 DEF ObserveReconciliation, Exists
    <2> HIDE DEF rec
    <2> QED
      BY <2>1 DEF ObservationEffect
  <1> QED
    BY <1>2, <1>3, <1>4 DEF Observe

\* Every step leaves the store alone, creates an item, moves one item by a
\* command or changes the evidence on one item.
LEMMA StepEffect ==
    ASSUME TypeOK, [Next]_vars
    PROVE  \/ UNCHANGED <<workItems, nextFencingToken, consumed>>
           \/ \E r \in Request :
                \/ CommandEffect(r, workItems[r.item], workItems'[r.item])
                \/ MaterializationEffect(r, workItems[r.item],
                                         workItems'[r.item])
           \/ \E i \in Items :
                ObservationEffect(i, workItems[i], workItems'[i])
  <1>1. ASSUME NEW r \in Request, Execute(r)
        PROVE  \/ UNCHANGED storeVars
               \/ CommandEffect(r, workItems[r.item], workItems'[r.item])
               \/ MaterializationEffect(r, workItems[r.item],
                                        workItems'[r.item])
    <2>1. CASE Lifecycle(r) \/ ResolveBlock(r)
      BY <2>1, LifecycleEffect
    <2>2. CASE Materialize(r)
      BY <2>2, MaterializeEffect
    <2>3. CASE Omit(r) \/ ReturnMaterialized(r) \/ SubmitResolution(r)
               \/ Acknowledge(r) \/ Reject(r)
      BY <2>3 DEF Omit, ReturnMaterialized, SubmitResolution, Acknowledge,
                  Reject
    <2> QED
      BY <1>1, <2>1, <2>2, <2>3 DEF Execute, Lifecycle
  <1>2. CASE \E c \in Calls : \E v \in Versions(c), t \in Tokens(c) :
               \E n \in Named(c, v) :
                  Execute([c EXCEPT !.expVersion = v, !.token = t,
                                    !.envelope.version = n])
    <2>1. PICK r \in Request : Execute(r)
      BY <1>2, RequestType
    <2> QED
      BY <2>1, <1>1 DEF storeVars
  <1>3. CASE \E a \in answered : Retry(a.request)
    BY <1>3 DEF Retry, storeVars
  <1>4. CASE Observe
    BY <1>4, ObserveEffect DEF storeVars
  <1>5. CASE \E id \in SubmissionIds :
                ObserveIndependentInspectorConfirmation(id)
    BY <1>5 DEF ObserveIndependentInspectorConfirmation, storeVars
  <1>6. CASE Grant \/ Tick
    BY <1>6 DEF Grant, SeedApproval, Tick, storeVars
  <1>7. CASE UNCHANGED vars
    BY <1>7 DEF vars, storeVars
  <1> QED
    BY <1>2, <1>3, <1>4, <1>5, <1>6, <1>7 DEF Next

-----------------------------------------------------------------------------
(* The inductive invariant.  AbsentIsNew is the strengthening: an item that *)
(* was never materialized is at version 0, so that the version its          *)
(* materialization consumes is the first.                                   *)

AbsentIsNew ==
    \A i \in Items :
        workItems[i].state = "initial" => workItems[i].version = 0

LifecycleInv ==
    /\ TypeOK
    /\ SubmissionsNameItems
    /\ AbsentIsNew
    /\ ExecutionIsFenced
    /\ EveryVersionConsumedOnce
    /\ InspectionIsCurrent
    /\ DependenciesCompleted

\* What the steps of StepEffect have in common: they replace one record.
LEMMA OneItemChanges ==
    ASSUME TypeOK, NEW i \in Items, NEW new,
           workItems' = [workItems EXCEPT ![i] = new]
    PROVE  /\ workItems'[i] = new
           /\ \A j \in Items : j # i => workItems'[j] = workItems[j]
    BY DEF TypeOK, StoreTypeOK

\* A command keeps ExecutionIsFenced.
LEMMA FencedStep ==
    ASSUME TypeOK, TypeOK', ExecutionIsFenced, NEW i \in Items, NEW new,
           workItems' = [workItems EXCEPT ![i] = new],
           FenceEffect(workItems[i], new)
    PROVE  ExecutionIsFenced'
  <1> DEFINE old == workItems[i]
  <1>1. /\ workItems'[i] = new
        /\ \A j \in Items : j # i => workItems'[j] = workItems[j]
    BY OneItemChanges
  <1>2. /\ nextFencingToken \in Nat /\ nextFencingToken' \in Nat
        /\ \A j \in Items : workItems[j].lease.token \in Nat
        /\ \A j \in Items : workItems'[j].lease.token \in Nat
    BY DEF TypeOK, StoreTypeOK, WorkItem, Lease
  <1>3. /\ \A j \in Items :
             /\ workItems[j].lease.token # 0 <=> workItems[j].state \in Executing
             /\ workItems[j].lease.token <= nextFencingToken
             /\ \A k \in Items :
                  /\ workItems[j].lease.token # 0
                  /\ workItems[j].lease.token = workItems[k].lease.token
                  => j = k
    BY DEF ExecutionIsFenced, HasLease
  <1>4. \/ /\ new.state \in Executing
           /\ new.lease.token = nextFencingToken + 1
           /\ nextFencingToken' = nextFencingToken + 1
        \/ /\ new.state \in Executing
           /\ new.lease.token = old.lease.token
           /\ old.lease.token # 0
           /\ nextFencingToken' = nextFencingToken
        \/ /\ new.state \notin Executing
           /\ new.lease.token = 0
           /\ nextFencingToken' = nextFencingToken
    BY <1>3 DEF FenceEffect, NoLease
  <1> HIDE DEF old
  <1>5. \A j \in Items :
          workItems'[j].lease.token # 0 <=> workItems'[j].state \in Executing
    BY <1>1, <1>2, <1>3, <1>4
  <1>6. \A j \in Items : workItems'[j].lease.token <= nextFencingToken'
    BY <1>1, <1>2, <1>3, <1>4 DEF old
  <1>7. ASSUME NEW j \in Items, NEW k \in Items,
               workItems'[j].lease.token # 0,
               workItems'[j].lease.token = workItems'[k].lease.token
        PROVE  j = k
    BY <1>1, <1>2, <1>3, <1>4, <1>7 DEF old
  <1> QED
    BY <1>5, <1>6, <1>7 DEF ExecutionIsFenced, HasLease

\* An item's completion is final, so live dependencies only ever grow.
LEMMA DependencyStep ==
    ASSUME TypeOK, TypeOK', DependenciesCompleted, NEW i \in Items, NEW new,
           workItems' = [workItems EXCEPT ![i] = new],
           workItems[i].state = "completed" => new.state = "completed",
           new.done \subseteq liveDependencies(new.deps),
           new.state \in Ready => new.deps = liveDependencies(new.deps)
    PROVE  DependenciesCompleted'
  <1>1. /\ workItems'[i] = new
        /\ \A j \in Items : j # i => workItems'[j] = workItems[j]
    BY OneItemChanges
  <1>2. \A j \in Items : /\ workItems[j].deps \subseteq Items
                         /\ workItems'[j].deps \subseteq Items
    BY DEF TypeOK, StoreTypeOK, WorkItem
  <1> DEFINE later(deps) == {d \in deps : workItems'[d].state = "completed"}
  <1>3. \A deps \in SUBSET Items :
          /\ liveDependencies(deps) \subseteq later(deps)
          /\ later(deps) \subseteq deps
    BY <1>1 DEF liveDependencies
  <1>4. ASSUME NEW j \in Items
        PROVE  /\ workItems'[j].done \subseteq
                    liveDependencies(workItems'[j].deps)
               /\ workItems'[j].state \in Ready =>
                    workItems'[j].deps = liveDependencies(workItems'[j].deps)
    BY <1>1 DEF DependenciesCompleted, Ready
  <1> HIDE DEF later
  <1>5. \A j \in Items :
          /\ workItems'[j].done \subseteq later(workItems'[j].deps)
          /\ workItems'[j].state \in Ready =>
               workItems'[j].deps = later(workItems'[j].deps)
    <2> TAKE j \in Items
    <2> DEFINE deps == workItems'[j].deps
    <2>1. deps \in SUBSET Items
      BY <1>2
    <2>2. /\ liveDependencies(deps) \subseteq later(deps)
          /\ later(deps) \subseteq deps
      BY <2>1, <1>3
    <2> QED
      BY <2>2, <1>4
  <1> QED
    BY <1>5 DEF DependenciesCompleted, Ready, liveDependencies, later

\* A command keeps EveryVersionConsumedOnce.
LEMMA VersionStep ==
    ASSUME TypeOK, EveryVersionConsumedOnce, NEW i \in Items, NEW new,
           workItems' = [workItems EXCEPT ![i] = new],
           consumed' = [consumed EXCEPT ![i] = @ \cup {workItems[i].version}],
           new.version = workItems[i].version + 1
    PROVE  EveryVersionConsumedOnce'
  <1>1. /\ workItems'[i] = new
        /\ \A j \in Items : j # i => workItems'[j] = workItems[j]
    BY OneItemChanges
  <1>2. workItems[i].version \in Nat /\ consumed \in [Items -> SUBSET Nat]
    BY DEF TypeOK, StoreTypeOK, WorkItem
  <1>3. \A j \in Items : j # i => consumed'[j] = 0..(workItems'[j].version - 1)
    BY <1>1, <1>2 DEF EveryVersionConsumedOnce
  <1>4. consumed'[i] = 0..(new.version - 1)
    <2>1. consumed'[i] = 0..(workItems[i].version - 1)
                          \cup {workItems[i].version}
      BY <1>2 DEF EveryVersionConsumedOnce
    <2> QED
      BY <1>2, <2>1
  <1> QED
    BY <1>1, <1>3, <1>4 DEF EveryVersionConsumedOnce

\* A command keeps InspectionIsCurrent.
LEMMA InspectionStep ==
    ASSUME TypeOK, InspectionIsCurrent, NEW i \in Items, NEW new,
           workItems' = [workItems EXCEPT ![i] = new],
           InspectionEffect(workItems[i], new)
    PROVE  InspectionIsCurrent'
  <1>1. /\ workItems'[i] = new
        /\ \A j \in Items : j # i => workItems'[j] = workItems[j]
    BY OneItemChanges
  <1>2. /\ new.inspected => new.state \in Inspected
        /\ new.state \in {"merging", "completed"} => new.inspected
    <2>1. workItems[i].state \in {"merging", "completed"} =>
            workItems[i].inspected
      BY DEF InspectionIsCurrent
    <2>2. new.state \in {"merging", "completed"} =>
            /\ new.state \in Inspected
            /\ workItems[i].inspected
      BY <2>1 DEF InspectionEffect, Inspected
    <2> QED
      BY <2>2 DEF InspectionEffect
  <1> QED
    BY <1>1, <1>2 DEF InspectionIsCurrent, Inspected

\* A command keeps the inductive invariant.
LEMMA CommandStep ==
    ASSUME LifecycleInv, TypeOK', NEW r \in Request,
           CommandEffect(r, workItems[r.item], workItems'[r.item])
    PROVE  /\ AbsentIsNew' /\ ExecutionIsFenced' /\ EveryVersionConsumedOnce'
           /\ InspectionIsCurrent' /\ DependenciesCompleted'
  <1> DEFINE i == r.item
             old == workItems[i]
             new == workItems'[i]
  <1>1. i \in Items
    BY DEF Request
  <1>2. TypeOK
    BY DEF LifecycleInv
  <1>3. /\ workItems' = [workItems EXCEPT ![i] = new]
        /\ consumed' = [consumed EXCEPT ![i] = @ \cup {old.version}]
        /\ new.version = old.version + 1
        /\ new.state # "initial"
        /\ old.state \notin Terminal
        /\ FenceEffect(old, new) /\ InspectionEffect(old, new)
        /\ DependencyEffect(old, new)
    BY DEF CommandEffect
  <1>4. AbsentIsNew'
    BY <1>1, <1>2, <1>3, OneItemChanges DEF LifecycleInv, AbsentIsNew
  <1>5. ExecutionIsFenced'
    BY <1>1, <1>2, <1>3, FencedStep DEF LifecycleInv
  <1>6. EveryVersionConsumedOnce'
    BY <1>1, <1>2, <1>3, VersionStep DEF LifecycleInv
  <1>7. InspectionIsCurrent'
    BY <1>1, <1>2, <1>3, InspectionStep DEF LifecycleInv
  <1>8. DependenciesCompleted'
    <2>1. /\ old.done \subseteq liveDependencies(old.deps)
          /\ old.state \in Ready => old.deps = liveDependencies(old.deps)
      BY <1>1 DEF LifecycleInv, DependenciesCompleted, Ready
    <2> HIDE DEF old, new
    <2>2. /\ new.done \subseteq liveDependencies(new.deps)
          /\ new.state \in Ready => new.deps = liveDependencies(new.deps)
      BY <2>1, <1>3 DEF DependencyEffect
    <2>3. old.state # "completed"
      BY <1>3 DEF Terminal
    <2> QED
      BY <2>2, <2>3, <1>1, <1>2, <1>3, DependencyStep DEF LifecycleInv, old
  <1> QED
    BY <1>4, <1>5, <1>6, <1>7, <1>8

\* A materialization keeps the inductive invariant.
LEMMA MaterializationStep ==
    ASSUME LifecycleInv, TypeOK', NEW r \in Request,
           MaterializationEffect(r, workItems[r.item], workItems'[r.item])
    PROVE  /\ AbsentIsNew' /\ ExecutionIsFenced' /\ EveryVersionConsumedOnce'
           /\ InspectionIsCurrent' /\ DependenciesCompleted'
  <1> DEFINE i == r.item
             old == workItems[i]
             new == workItems'[i]
  <1>1. i \in Items
    BY DEF Request
  <1>2. TypeOK
    BY DEF LifecycleInv
  <1>3. /\ workItems' = [workItems EXCEPT ![i] = new]
        /\ consumed' = [consumed EXCEPT ![i] = @ \cup {old.version}]
        /\ nextFencingToken' = nextFencingToken
        /\ old.state = "initial"
        /\ new.state \in {"blocked", "waiting", "ready-for-building"}
        /\ new.version = 1 /\ new.lease = NoLease /\ new.inspected = FALSE
        /\ new.done = liveDependencies(new.deps)
        /\ new.state = "ready-for-building" => new.deps = new.done
    BY DEF MaterializationEffect
  <1>4. old.version = 0
    BY <1>1, <1>3 DEF LifecycleInv, AbsentIsNew
  <1>5. AbsentIsNew'
    BY <1>1, <1>2, <1>3, OneItemChanges DEF LifecycleInv, AbsentIsNew
  <1>6. ExecutionIsFenced'
    <2>1. FenceEffect(old, new)
      BY <1>3 DEF FenceEffect, Executing
    <2> QED
      BY <2>1, <1>1, <1>2, <1>3, FencedStep DEF LifecycleInv
  <1>7. EveryVersionConsumedOnce'
    <2>1. new.version = old.version + 1
      BY <1>3, <1>4
    <2> HIDE DEF new
    <2> QED
      BY <2>1, <1>1, <1>2, <1>3, VersionStep DEF LifecycleInv
  <1>8. InspectionIsCurrent'
    <2>1. InspectionEffect(old, new)
      BY <1>3 DEF InspectionEffect, Inspected
    <2> QED
      BY <2>1, <1>1, <1>2, <1>3, InspectionStep DEF LifecycleInv
  <1>9. DependenciesCompleted'
    <2>1. new.state \in Ready => new.state = "ready-for-building"
      BY <1>3 DEF Ready, Executing
    <2> QED
      BY <2>1, <1>1, <1>2, <1>3, DependencyStep DEF LifecycleInv
  <1> QED
    BY <1>5, <1>6, <1>7, <1>8, <1>9

\* A hook keeps the inductive invariant.
LEMMA ObservationStep ==
    ASSUME LifecycleInv, TypeOK', NEW i \in Items,
           ObservationEffect(i, workItems[i], workItems'[i])
    PROVE  /\ AbsentIsNew' /\ ExecutionIsFenced' /\ EveryVersionConsumedOnce'
           /\ InspectionIsCurrent' /\ DependenciesCompleted'
  <1> DEFINE old == workItems[i]
             new == workItems'[i]
  <1>1. TypeOK /\ old \in WorkItem
    BY DEF LifecycleInv, TypeOK, StoreTypeOK
  <1>2. /\ workItems' = [workItems EXCEPT ![i] = new]
        /\ consumed' = consumed /\ nextFencingToken' = nextFencingToken
        /\ \/ /\ old.state = "inspecting"
              /\ \E complete \in BOOLEAN :
                    new = [old EXCEPT !.inspected = complete]
           \/ /\ old.state # "initial"
              /\ \E rec : new = [old EXCEPT !.rec = rec]
    BY DEF ObservationEffect
  <1>3. /\ new.state = old.state /\ new.version = old.version
        /\ new.lease = old.lease /\ new.deps = old.deps /\ new.done = old.done
        /\ new.state # "initial"
    <2> HIDE DEF old, new
    <2> QED
      BY <1>1, <1>2 DEF WorkItem
  <1>4. old.state = "inspecting" \/ new.inspected = old.inspected
    <2> HIDE DEF old, new
    <2> QED
      BY <1>1, <1>2 DEF WorkItem
  <1>5. \A j \in Items : j # i => workItems'[j] = workItems[j]
    BY <1>1, <1>2, OneItemChanges
  <1>6. AbsentIsNew' /\ ExecutionIsFenced'
    BY <1>2, <1>3, <1>5
       DEF LifecycleInv, AbsentIsNew, ExecutionIsFenced, HasLease
  <1>7. EveryVersionConsumedOnce'
    BY <1>2, <1>3, <1>5 DEF LifecycleInv, EveryVersionConsumedOnce
  <1>8. InspectionIsCurrent'
    <2>1. /\ new.inspected => new.state \in Inspected
          /\ new.state \in {"merging", "completed"} => new.inspected
      BY <1>3, <1>4 DEF LifecycleInv, InspectionIsCurrent, Inspected
    <2> QED
      BY <2>1, <1>5 DEF LifecycleInv, InspectionIsCurrent, Inspected
  <1>9. DependenciesCompleted'
    <2>1. /\ old.done \subseteq liveDependencies(old.deps)
          /\ old.state \in Ready => old.deps = liveDependencies(old.deps)
      BY DEF LifecycleInv, DependenciesCompleted, Ready
    <2> QED
      BY <2>1, <1>1, <1>2, <1>3, DependencyStep DEF LifecycleInv
  <1> QED
    BY <1>6, <1>7, <1>8, <1>9

\* Every step keeps the inductive invariant.
LEMMA LifecycleInductive ==
    ASSUME LifecycleInv, [Next]_vars
    PROVE  LifecycleInv'
  <1>1. TypeOK' /\ SubmissionsNameItems'
    BY TypeInductive DEF LifecycleInv
  <1>2. CASE UNCHANGED <<workItems, nextFencingToken, consumed>>
    BY <1>1, <1>2 DEF LifecycleInv, AbsentIsNew, ExecutionIsFenced,
       EveryVersionConsumedOnce, InspectionIsCurrent, DependenciesCompleted,
       liveDependencies, HasLease
  <1>3. CASE \E r \in Request :
               \/ CommandEffect(r, workItems[r.item], workItems'[r.item])
               \/ MaterializationEffect(r, workItems[r.item],
                                        workItems'[r.item])
    BY <1>1, <1>3, CommandStep, MaterializationStep DEF LifecycleInv
  <1>4. CASE \E i \in Items :
               ObservationEffect(i, workItems[i], workItems'[i])
    BY <1>1, <1>4, ObservationStep DEF LifecycleInv
  <1> QED
    BY <1>2, <1>3, <1>4, StepEffect DEF LifecycleInv

\* The empty store satisfies the inductive invariant.
LEMMA LifecycleInit ==
    ASSUME Init
    PROVE  LifecycleInv
  <1>1. TypeOK /\ SubmissionsNameItems
    BY InitTypes
  <1>2. /\ workItems = [i \in Items |-> NoItem]
        /\ NoItem.state = "initial" /\ NoItem.version = 0
        /\ NoItem.lease.token = 0 /\ NoItem.inspected = FALSE
        /\ NoItem.deps = {} /\ NoItem.done = {}
        /\ nextFencingToken = 0 /\ consumed = [i \in Items |-> {}]
    BY DEF Init, NoItem, NoLease
  <1>3. AbsentIsNew /\ ExecutionIsFenced
    BY <1>2 DEF AbsentIsNew, ExecutionIsFenced, HasLease, Executing
  <1>4. EveryVersionConsumedOnce
    BY <1>2 DEF EveryVersionConsumedOnce
  <1>5. InspectionIsCurrent /\ DependenciesCompleted
    BY <1>2 DEF InspectionIsCurrent, DependenciesCompleted, Executing
  <1> QED
    BY <1>1, <1>3, <1>4, <1>5 DEF LifecycleInv

\* The inductive invariant holds in every reachable state.
LEMMA LifecycleAlways == Spec => []LifecycleInv
  <1>1. Init => LifecycleInv
    BY LifecycleInit
  <1>2. LifecycleInv /\ [Next]_vars => LifecycleInv'
    BY LifecycleInductive
  <1> QED
    BY <1>1, <1>2, PTL DEF Spec

-----------------------------------------------------------------------------
(* The theorems.                                                           *)

\* Exactly the executing items hold a lease, and no two the same fencing token.
THEOREM Fenced == Spec => []ExecutionIsFenced
  <1>1. LifecycleInv => ExecutionIsFenced
    BY DEF LifecycleInv
  <1> QED
    BY <1>1, LifecycleAlways, PTL

\* Of two commands prepared on the same contract version one at most commits.
THEOREM ConsumedOnce == Spec => []EveryVersionConsumedOnce
  <1>1. LifecycleInv => EveryVersionConsumedOnce
    BY DEF LifecycleInv
  <1> QED
    BY <1>1, LifecycleAlways, PTL

\* No rework merges on inspection evidence of an earlier cycle.
THEOREM Inspection == Spec => []InspectionIsCurrent
  <1>1. LifecycleInv => InspectionIsCurrent
    BY DEF LifecycleInv
  <1> QED
    BY <1>1, LifecycleAlways, PTL

\* Work is ready, executed and completed only on completed dependencies.
THEOREM Dependencies == Spec => []DependenciesCompleted
  <1>1. LifecycleInv => DependenciesCompleted
    BY DEF LifecycleInv
  <1> QED
    BY <1>1, LifecycleAlways, PTL

\* Every attempt at building is fenced by a token issued for it.
THEOREM FreshFence == Spec => FreshFencePerAttempt
  <1> DEFINE Step(i) ==
        LET old == workItems[i]
            new == workItems'[i]
        IN  \/ new.state = "building" /\ old.state # "building"
            \/ HasLease(new) /\ new.lease.token # old.lease.token
            => new.lease.token > nextFencingToken
  <1>1. ASSUME LifecycleInv, Next, NEW i \in Items
        PROVE  Step(i)
    <2>1. TypeOK /\ nextFencingToken \in Nat
      BY <1>1 DEF LifecycleInv, TypeOK, StoreTypeOK
    <2>2. CASE UNCHANGED <<workItems, nextFencingToken, consumed>>
      BY <2>2
    <2>3. CASE \E r \in Request :
                 CommandEffect(r, workItems[r.item], workItems'[r.item])
      <3> PICK r \in Request :
                 CommandEffect(r, workItems[r.item], workItems'[r.item])
        BY <2>3
      <3>1. r.item \in Items
        BY DEF Request
      <3>2. FenceEffect(workItems[r.item], workItems'[r.item])
            /\ workItems' = [workItems EXCEPT ![r.item] = workItems'[r.item]]
        BY DEF CommandEffect
      <3>3. i # r.item => workItems'[i] = workItems[i]
        BY <2>1, <3>1, <3>2, OneItemChanges
      <3>4. CASE i = r.item
        BY <3>2, <3>4, <2>1 DEF FenceEffect, HasLease, NoLease, Executing
      <3> QED
        BY <3>3, <3>4
    <2>4. CASE \E r \in Request :
                 MaterializationEffect(r, workItems[r.item],
                                       workItems'[r.item])
      <3> PICK r \in Request :
                 MaterializationEffect(r, workItems[r.item],
                                       workItems'[r.item])
        BY <2>4
      <3>1. /\ r.item \in Items
            /\ workItems' = [workItems EXCEPT ![r.item] = workItems'[r.item]]
        BY DEF Request, MaterializationEffect
      <3>2. i # r.item => workItems'[i] = workItems[i]
        BY <2>1, <3>1, OneItemChanges
      <3>3. CASE i = r.item
        BY <3>3 DEF MaterializationEffect, HasLease, NoLease
      <3> QED
        BY <3>2, <3>3
    <2>5. CASE \E j \in Items :
                 ObservationEffect(j, workItems[j], workItems'[j])
      <3> PICK j \in Items : ObservationEffect(j, workItems[j], workItems'[j])
        BY <2>5
      <3>1. i # j => workItems'[i] = workItems[i]
        BY <2>1, OneItemChanges DEF ObservationEffect
      <3>2. /\ workItems'[j].state = workItems[j].state
            /\ workItems'[j].lease = workItems[j].lease
        BY <2>1 DEF ObservationEffect, TypeOK, StoreTypeOK, WorkItem
      <3> QED
        BY <3>1, <3>2
    <2> QED
      BY <1>1, <2>1, <2>2, <2>3, <2>4, <2>5, StepEffect
  <1>2. LifecycleInv /\ [Next]_vars => [\A i \in Items : Step(i)]_vars
    BY <1>1
  <1> QED
    BY <1>2, LifecycleAlways, PTL DEF Spec, FreshFencePerAttempt

\* Nothing but evidence changes on a completed or abandoned item.
THEOREM Frozen == Spec => TerminalIsFrozen
  <1> DEFINE Step(i) ==
        workItems[i].state \in Terminal =>
          workItems'[i] = [workItems[i] EXCEPT !.rec = workItems'[i].rec]
  <1>1. ASSUME LifecycleInv, Next, NEW i \in Items
        PROVE  Step(i)
    <2>1. TypeOK /\ workItems[i] \in WorkItem
      BY <1>1 DEF LifecycleInv, TypeOK, StoreTypeOK
    <2>2. workItems'[i] = workItems[i] => Step(i)
      BY <2>1 DEF WorkItem
    <2>3. CASE \E r \in Request :
                 \/ CommandEffect(r, workItems[r.item], workItems'[r.item])
                 \/ MaterializationEffect(r, workItems[r.item],
                                          workItems'[r.item])
      <3> PICK r \in Request :
                 \/ CommandEffect(r, workItems[r.item], workItems'[r.item])
                 \/ MaterializationEffect(r, workItems[r.item],
                                          workItems'[r.item])
        BY <2>3
      <3>1. /\ r.item \in Items
            /\ workItems' = [workItems EXCEPT ![r.item] = workItems'[r.item]]
            /\ workItems[r.item].state \notin Terminal
        BY DEF Request, CommandEffect, MaterializationEffect, Terminal
      <3>2. i # r.item => workItems'[i] = workItems[i]
        BY <2>1, <3>1, OneItemChanges
      <3> QED
        BY <3>1, <3>2, <2>2
    <2>4. CASE \E j \in Items :
                 ObservationEffect(j, workItems[j], workItems'[j])
      <3> PICK j \in Items : ObservationEffect(j, workItems[j], workItems'[j])
        BY <2>4
      <3>1. i # j => workItems'[i] = workItems[i]
        BY <2>1, OneItemChanges DEF ObservationEffect
      <3>2. CASE i = j
        <4>1. \/ workItems[i].state = "inspecting"
              \/ \E rec : workItems'[i] = [workItems[i] EXCEPT !.rec = rec]
          BY <3>2 DEF ObservationEffect
        <4> QED
          BY <4>1, <2>1 DEF WorkItem, Terminal
      <3> QED
        BY <3>1, <3>2, <2>2
    <2> QED
      BY <1>1, <2>1, <2>2, <2>3, <2>4, StepEffect
  <1>2. LifecycleInv /\ [Next]_vars => [\A i \in Items : Step(i)]_vars
    BY <1>1
  <1> QED
    BY <1>2, LifecycleAlways, PTL DEF Spec, TerminalIsFrozen

-----------------------------------------------------------------------------
(* Materialization keys.                                                   *)

KeyInv == LifecycleInv /\ OneItemPerKey

\* The steps that reserve no key leave every item with the key, the
\* dependencies and the existence it had.
LEMMA KeyStep ==
    ASSUME LifecycleInv, [Next]_vars,
           ~ \E r \in Request : Materialize(r) \/ Omit(r)
    PROVE  /\ materializations' = materializations
           /\ \A i \in Items :
                /\ Exists(i) <=> Exists(i)'
                /\ workItems'[i].mkey = workItems[i].mkey
                /\ workItems'[i].deps = workItems[i].deps
  <1> DEFINE Same == \A i \in Items :
                       /\ Exists(i) <=> Exists(i)'
                       /\ workItems'[i].mkey = workItems[i].mkey
                       /\ workItems'[i].deps = workItems[i].deps
  <1>1. TypeOK
    BY DEF LifecycleInv
  <1>2. UNCHANGED workItems => Same
    BY DEF Exists
  <1>3. ASSUME NEW r \in Request, Execute(r)
        PROVE  materializations' = materializations /\ Same
    <2>1. CASE Lifecycle(r) \/ ResolveBlock(r)
      <3>1. CommandEffect(r, workItems[r.item], workItems'[r.item])
        BY <1>1, <2>1, LifecycleEffect
      <3>2. /\ r.item \in Items
            /\ workItems' = [workItems EXCEPT ![r.item] = workItems'[r.item]]
            /\ workItems'[r.item].mkey = workItems[r.item].mkey
            /\ workItems'[r.item].deps = workItems[r.item].deps
            /\ workItems'[r.item].state # "initial"
            /\ workItems[r.item].state # "initial"
        BY <3>1 DEF CommandEffect, DependencyEffect, Request
      <3>3. Same
        BY <1>1, <3>2, OneItemChanges DEF Exists
      <3>4. materializations' = materializations
        BY <2>1 DEF Lifecycle, RefreshDependencies, Revalidate, Claim,
           RenewLease, TestsPass, RaiseSpecQuestion, RefreshActive,
           ReturnToBuilding, BeginMerge, MergeConflict, Free, RecordMerge,
           Abandon, ResolveBlock
      <3> QED
        BY <3>3, <3>4
    <2>2. CASE ReturnMaterialized(r) \/ SubmitResolution(r)
               \/ Acknowledge(r) \/ Reject(r)
      BY <2>2, <1>2 DEF ReturnMaterialized, SubmitResolution, Acknowledge,
         Reject, storeVars
    <2> QED
      BY <1>3, <2>1, <2>2 DEF Execute, Lifecycle
  <1>4. CASE \E c \in Calls : \E v \in Versions(c), t \in Tokens(c) :
               \E n \in Named(c, v) :
                  Execute([c EXCEPT !.expVersion = v, !.token = t,
                                    !.envelope.version = n])
    <2>1. PICK r \in Request : Execute(r)
      BY <1>1, <1>4, RequestType
    <2> QED
      BY <2>1, <1>3
  <1>5. CASE Observe
    <2>1. materializations' = materializations
      BY <1>5 DEF Observe, ObserveReadiness, ObserveInspection,
         ObserveReconciliation
    <2>2. CASE UNCHANGED storeVars
      BY <2>1, <2>2, <1>2 DEF storeVars
    <2>3. CASE \E i \in Items :
                 ObservationEffect(i, workItems[i], workItems'[i])
      <3> PICK i \in Items : ObservationEffect(i, workItems[i], workItems'[i])
        BY <2>3
      <3>1. /\ workItems' = [workItems EXCEPT ![i] = workItems'[i]]
            /\ \/ \E complete \in BOOLEAN :
                    workItems'[i] = [workItems[i] EXCEPT !.inspected = complete]
               \/ \E rec : workItems'[i] = [workItems[i] EXCEPT !.rec = rec]
        BY DEF ObservationEffect
      <3>2. /\ workItems'[i].mkey = workItems[i].mkey
            /\ workItems'[i].deps = workItems[i].deps
            /\ workItems'[i].state = workItems[i].state
        BY <1>1, <3>1 DEF TypeOK, StoreTypeOK, WorkItem
      <3> QED
        BY <1>1, <2>1, <3>1, <3>2, OneItemChanges DEF Exists
    <2> QED
      BY <1>1, <1>5, <2>2, <2>3, ObserveEffect
  <1>6. CASE \/ \E a \in answered : Retry(a.request)
             \/ \E id \in SubmissionIds :
                   ObserveIndependentInspectorConfirmation(id)
             \/ Grant \/ Tick \/ UNCHANGED vars
    BY <1>2, <1>6 DEF Retry, ObserveIndependentInspectorConfirmation, Grant,
       SeedApproval, Tick, vars, storeVars
  <1> QED
    BY <1>4, <1>5, <1>6 DEF Next

\* What the reservation of a materialization says.
LEMMA ReserveStep ==
    ASSUME TypeOK, NEW r \in Request, Reservations(r) = {}, NEW result,
           reserve(r, result),
           \A e, f \in materializations : e.mkey = f.mkey => e = f
    PROVE  /\ materializations \subseteq materializations'
           /\ \A e, f \in materializations' : e.mkey = f.mkey => e = f
           /\ [mkey |-> r.mkey, source |-> SourceFingerprint(r.source),
               result |-> result] \in materializations'
  <1> DEFINE entry == [mkey |-> r.mkey, source |-> SourceFingerprint(r.source),
                       result |-> result]
  <1>1. materializations' = materializations \cup {entry}
    BY DEF reserve
  <1>2. entry.mkey = r.mkey
    OBVIOUS
  <1>3. \A e \in materializations : e.mkey # r.mkey
    BY DEF Reservations
  <1> HIDE DEF entry
  <1>4. \A e, f \in materializations' : e.mkey = f.mkey => e = f
    BY <1>1, <1>2, <1>3
  <1> QED
    BY <1>1, <1>4 DEF entry

\* A materialization that is allowed is made for its own item.
LEMMA MaterializationSource ==
    ASSUME TypeOK, NEW r \in Request, r.op = "materialize", Allowed(r)
    PROVE  r.source.item = r.item
  <1> DEFINE n == normalizeLifecycleRequest(r)
  <1>1. n.op = r.op /\ n.source = r.source /\ n.item = r.item
    BY NormalizedType DEF Request
  <1>2. evaluateMaterialization(n) = "allowed"
    BY <1>1, EvaluateAllowed DEF Allowed, Verdict
  <1> QED
    BY <1>1, <1>2 DEF evaluateMaterialization

\* Materialize binds the key to the item it creates.
LEMMA MaterializeKeepsKeys ==
    ASSUME KeyInv, NEW r \in Request, Materialize(r)
    PROVE  OneItemPerKey'
  <1> DEFINE done == liveDependencies(r.source.deps)
             start == MaterializedState(r.source, done)
             item == [NoItem EXCEPT
                        !.state = start,
                        !.version = 1,
                        !.mkey = r.mkey,
                        !.deps = r.source.deps,
                        !.done = done,
                        !.readiness = r.source.readiness,
                        !.expected.target = r.source.target]
             result == Applied(item, 0)
             entry == [mkey |-> r.mkey, source |-> SourceFingerprint(r.source),
                       result |-> result]
  <1>1. /\ TypeOK /\ r.item \in Items /\ workItems \in [Items -> WorkItem]
        /\ r.source \in Source
        /\ \A e, f \in materializations : e.mkey = f.mkey => e = f
    BY DEF KeyInv, LifecycleInv, OneItemPerKey, TypeOK, StoreTypeOK, Request
  <1>2. /\ Commit(r, item, 0) /\ reserve(r, result) /\ Reservations(r) = {}
        /\ r.op = "materialize" /\ Allowed(r)
    BY DEF Materialize
  <1>3. item.mkey = r.mkey /\ item.deps = r.source.deps
    <2> HIDE DEF start, done
    <2> QED
      BY DEF NoItem
  <1>4. result.verdict = "allowed"
    <2> HIDE DEF item
    <2> QED
      BY DEF Applied
  <1> HIDE DEF item, result
  <1>5. workItems' = [workItems EXCEPT ![r.item] = item]
    BY <1>2 DEF Commit
  <1>6. /\ materializations \subseteq materializations'
        /\ \A e, f \in materializations' : e.mkey = f.mkey => e = f
        /\ entry \in materializations'
    BY <1>1, <1>2, ReserveStep
  <1>7. /\ entry.mkey = item.mkey /\ entry.source.item = r.item
        /\ entry.result.verdict = "allowed" /\ entry.source.deps = item.deps
    <2>1. /\ SourceFingerprint(r.source).item = r.source.item
          /\ SourceFingerprint(r.source).deps = r.source.deps
      BY <1>1 DEF SourceFingerprint, Source
    <2>2. r.source.item = r.item
      BY <1>1, <1>2, MaterializationSource
    <2> QED
      BY <2>1, <2>2, <1>3, <1>4
  <1> HIDE DEF entry
  <1>8. /\ workItems'[r.item] = item
        /\ \A j \in Items : j # r.item => workItems'[j] = workItems[j]
    BY <1>1, <1>5, OneItemChanges
  <1>9. ASSUME NEW i \in Items, Exists(i)'
        PROVE  \E e \in materializations' :
                 /\ e.mkey = workItems'[i].mkey
                 /\ e.source.item = i
                 /\ e.result.verdict = "allowed"
                 /\ e.source.deps = workItems'[i].deps
    <2>1. CASE i = r.item
      BY <2>1, <1>6, <1>7, <1>8
    <2>2. CASE i # r.item
      <3>1. Exists(i) /\ workItems'[i] = workItems[i]
        BY <2>2, <1>8, <1>9 DEF Exists
      <3> QED
        BY <3>1, <1>6 DEF KeyInv, OneItemPerKey
    <2> QED
      BY <2>1, <2>2
  <1> QED
    BY <1>6, <1>9 DEF OneItemPerKey

\* A materialization key is bound to one source and one result for good, and
\* every work item stands for the key it was created under, alone.
THEOREM KeysAreBound == Spec => []OneItemPerKey
  <1>1. Init => KeyInv
    <2> SUFFICES ASSUME Init PROVE OneItemPerKey
      BY LifecycleInit DEF KeyInv
    <2>1. /\ materializations = {} /\ workItems = [i \in Items |-> NoItem]
          /\ NoItem.state = "initial"
      BY DEF Init, NoItem
    <2> QED
      BY <2>1 DEF OneItemPerKey, Exists
  <1>2. KeyInv /\ [Next]_vars => KeyInv'
    <2> SUFFICES ASSUME KeyInv, [Next]_vars PROVE KeyInv'
      OBVIOUS
    <2>1. LifecycleInv /\ LifecycleInv' /\ TypeOK
      BY LifecycleInductive DEF KeyInv, LifecycleInv
    <2>2. CASE \E r \in Request : Materialize(r)
      BY <2>1, <2>2, MaterializeKeepsKeys DEF KeyInv
    <2>3. CASE \E r \in Request : Omit(r)
      <3> PICK r \in Request : Omit(r)
        BY <2>3
      <3>1. /\ workItems' = workItems
            /\ Reservations(r) = {} /\ reserve(r, Rejected("omitted"))
        BY DEF Omit, storeVars
      <3>2. /\ materializations \subseteq materializations'
            /\ \A e, f \in materializations' : e.mkey = f.mkey => e = f
        BY <2>1, <3>1, ReserveStep DEF KeyInv, OneItemPerKey
      <3>3. OneItemPerKey'
        BY <3>1, <3>2 DEF KeyInv, OneItemPerKey, Exists
      <3> QED
        BY <2>1, <3>3 DEF KeyInv
    <2>4. CASE ~ \E r \in Request : Materialize(r) \/ Omit(r)
      <3>1. /\ materializations' = materializations
            /\ \A i \in Items :
                 /\ Exists(i) <=> Exists(i)'
                 /\ workItems'[i].mkey = workItems[i].mkey
                 /\ workItems'[i].deps = workItems[i].deps
        BY <2>1, <2>4, KeyStep
      <3>2. OneItemPerKey'
        BY <3>1 DEF KeyInv, OneItemPerKey
      <3> QED
        BY <2>1, <3>2 DEF KeyInv
    <2> QED
      BY <2>2, <2>3, <2>4
  <1>3. KeyInv => OneItemPerKey
    BY DEF KeyInv
  <1> QED
    BY <1>1, <1>2, <1>3, PTL DEF Spec

-----------------------------------------------------------------------------
(* Blocked work.  PendingIsBound is the strengthening: what a pending       *)
(* submission rests on stays an approval of a resolution of its own item,   *)
(* also after the item was abandoned, so that no other item and no          *)
(* acknowledgement can use it.                                              *)

PendingIsBound ==
    \A id \in SubmissionIds :
        LET s == submissions[id]
        IN  s.status = "pending" =>
              /\ s.approval \in Approvals
              /\ approvals[s.approval].scope.action = "resolve-block"
              /\ approvals[s.approval].scope.item = s.item

BlockedInv ==
    /\ LifecycleInv
    /\ PendingIsBound
    /\ PendingIsActive
    /\ ApprovalAuthorizesOnce

\* Both properties of one submission.
PendingOK(id) ==
    LET s == submissions[id]
    IN  s.status = "pending" =>
          /\ s.approval \in Approvals
          /\ approvals[s.approval].scope.action = "resolve-block"
          /\ approvals[s.approval].scope.item = s.item
          /\ activeSubmissions[s.item] = id
          /\ s.revision = revisions[s.item]
          /\ approvals[s.approval].status = "unused"
          /\ workItems[s.item].state \in {"blocked", "abandoned"}
          /\ workItems[s.item].state = "blocked" =>
               approvals[s.approval].scope =
                 ResolutionScope(Materializer, s.item, s.kind, s.cs, s.digest,
                                 "blocked", workItems[s.item].version)

\* The submissions an approval has unblocked an item with.
Unblocks(a) ==
    {id \in SubmissionIds : /\ submissions[id].status = "consumed"
                            /\ submissions[id].approval = a}

\* The parts of BlockedInv in this form.
LEMMA BlockedForm ==
    /\ PendingIsBound /\ PendingIsActive <=> \A id \in SubmissionIds : PendingOK(id)
    /\ ApprovalAuthorizesOnce <=>
         \A a \in Approvals :
            Cardinality(Unblocks(a)) + acknowledgements[a] <=
              (IF approvals[a].status = "consumed" THEN 1 ELSE 0)
  <1>1. PendingIsBound /\ PendingIsActive <=>
          \A id \in SubmissionIds : PendingOK(id)
    BY DEF PendingIsBound, PendingIsActive, PendingOK
  <1>2. ApprovalAuthorizesOnce <=>
          \A a \in Approvals :
             Cardinality(Unblocks(a)) + acknowledgements[a] <=
               (IF approvals[a].status = "consumed" THEN 1 ELSE 0)
    BY DEF ApprovalAuthorizesOnce, Unblocks
  <1> QED
    BY <1>1, <1>2

\* There are finitely many submissions.
LEMMA FiniteSubmissions ==
    ASSUME NEW S, S \subseteq SubmissionIds
    PROVE  /\ IsFiniteSet(S) /\ Cardinality(S) \in Nat
           /\ \A T \in SUBSET S : Cardinality(T) <= Cardinality(S)
           /\ Cardinality(S) = 0 => S = {}
  <1>1. IsFiniteSet(SubmissionIds)
    BY FS_Interval, ConstantsAssumption DEF SubmissionIds
  <1>2. IsFiniteSet(S)
    BY <1>1, FS_Subset
  <1> QED
    BY <1>2, FS_Subset, FS_CardinalityType, FS_EmptySet

\* A step that consumes no submission and counts no acknowledgement keeps
\* ApprovalAuthorizesOnce if it takes no consumed approval back.
LEMMA AuthorizesOnceStep ==
    ASSUME TypeOK, TypeOK', ApprovalAuthorizesOnce,
           \A a \in Approvals :
              /\ Unblocks(a)' \subseteq Unblocks(a)
              /\ acknowledgements'[a] = acknowledgements[a]
              /\ approvals[a].status = "consumed" =>
                   approvals'[a].status = "consumed"
    PROVE  ApprovalAuthorizesOnce'
  <1>1. ASSUME NEW a \in Approvals
        PROVE  Cardinality(Unblocks(a)') + acknowledgements'[a] <=
                 (IF approvals'[a].status = "consumed" THEN 1 ELSE 0)
    <2>1. Unblocks(a) \subseteq SubmissionIds
      BY DEF Unblocks
    <2>2. Unblocks(a)' \in SUBSET Unblocks(a)
      OBVIOUS
    <2>3. /\ Cardinality(Unblocks(a)) \in Nat
          /\ Cardinality(Unblocks(a)') <= Cardinality(Unblocks(a))
      BY <2>1, <2>2, FiniteSubmissions
    <2>4. Cardinality(Unblocks(a)') \in Nat
      BY <2>1, <2>2, FiniteSubmissions
    <2>5. acknowledgements[a] \in Nat
      BY DEF TypeOK, BlockedTypeOK
    <2>6. Cardinality(Unblocks(a)) + acknowledgements[a] <=
            (IF approvals[a].status = "consumed" THEN 1 ELSE 0)
      BY BlockedForm
    <2> QED
      BY <2>3, <2>4, <2>5, <2>6
  <1> QED
    BY <1>1 DEF ApprovalAuthorizesOnce, Unblocks

\* A step that leaves approvals and submissions alone, and moves no blocked
\* item but to abandon it, keeps the invariant.
LEMMA QuietStep ==
    ASSUME BlockedInv, LifecycleInv', UNCHANGED blockedVars,
           \A i \in Items :
              /\ workItems[i].state = "blocked" =>
                   \/ /\ workItems'[i].state = "blocked"
                      /\ workItems'[i].version = workItems[i].version
                   \/ workItems'[i].state = "abandoned"
              /\ workItems[i].state = "abandoned" =>
                   workItems'[i].state = "abandoned"
    PROVE  BlockedInv'
  <1>1. UNCHANGED <<approvals, submissions, activeSubmissions, revisions,
                    acknowledgements>>
    BY DEF blockedVars
  <1>2. \A id \in SubmissionIds : PendingOK(id)
    BY BlockedForm DEF BlockedInv
  <1>3. \A id \in SubmissionIds :
          submissions[id].status = "pending" => submissions[id].item \in Items
    BY DEF BlockedInv, LifecycleInv, SubmissionsNameItems
  <1>4. \A id \in SubmissionIds : PendingOK(id)'
    BY <1>1, <1>2, <1>3 DEF PendingOK
  <1>5. ApprovalAuthorizesOnce'
    BY <1>1 DEF BlockedInv, ApprovalAuthorizesOnce
  <1>6. PendingIsBound' /\ PendingIsActive'
    BY <1>4 DEF PendingIsBound, PendingIsActive, PendingOK
  <1> QED
    BY <1>5, <1>6 DEF BlockedInv

\* The steps that leave approvals and submissions alone are such steps.
LEMMA QuietMoves ==
    ASSUME LifecycleInv, TypeOK',
           \/ \E r \in Request : \/ Lifecycle(r) \/ Materialize(r) \/ Omit(r)
                                 \/ ReturnMaterialized(r) \/ Reject(r)
           \/ \E r : Retry(r)
           \/ Observe \/ Tick \/ UNCHANGED vars
    PROVE  /\ UNCHANGED blockedVars
           /\ \A i \in Items :
                /\ workItems[i].state = "blocked" =>
                     \/ /\ workItems'[i].state = "blocked"
                        /\ workItems'[i].version = workItems[i].version
                     \/ workItems'[i].state = "abandoned"
                /\ workItems[i].state = "abandoned" =>
                     workItems'[i].state = "abandoned"
  <1> DEFINE Quiet == \A i \in Items :
               /\ workItems[i].state = "blocked" =>
                    \/ /\ workItems'[i].state = "blocked"
                       /\ workItems'[i].version = workItems[i].version
                    \/ workItems'[i].state = "abandoned"
               /\ workItems[i].state = "abandoned" =>
                    workItems'[i].state = "abandoned"
  <1>1. TypeOK
    BY DEF LifecycleInv
  <1>2. UNCHANGED workItems => Quiet
    OBVIOUS
  <1>3. ASSUME NEW r \in Request, Lifecycle(r)
        PROVE  UNCHANGED blockedVars /\ Quiet
    <2>1. UNCHANGED blockedVars
      BY <1>3 DEF Lifecycle, RefreshDependencies, Revalidate, Claim,
         RenewLease, TestsPass, RaiseSpecQuestion, RefreshActive,
         ReturnToBuilding, BeginMerge, MergeConflict, Free, RecordMerge,
         Abandon
    <2>2. CommandEffect(r, workItems[r.item], workItems'[r.item])
      BY <1>1, <1>3, LifecycleEffect
    <2>3. /\ r.item \in Items
          /\ workItems' = [workItems EXCEPT ![r.item] = workItems'[r.item]]
          /\ workItems[r.item].state # "abandoned"
      BY <2>2 DEF Request, CommandEffect, Terminal
    <2>4. Allowed(r) /\ r.op # "resolve-block"
      BY <1>3 DEF Lifecycle, RefreshDependencies, Revalidate, Claim,
         RenewLease, TestsPass, RaiseSpecQuestion, RefreshActive,
         ReturnToBuilding, BeginMerge, MergeConflict, Free, RecordMerge,
         Abandon
    <2>5. workItems[r.item].state = "blocked" => r.op = "abandon"
      BY <1>1, <2>4, AllowedFacts, FromStates
    <2>6. r.op = "abandon" => Abandon(r)
      BY <1>3 DEF Lifecycle, RefreshDependencies, Revalidate, Claim,
         RenewLease, TestsPass, RaiseSpecQuestion, RefreshActive,
         ReturnToBuilding, BeginMerge, MergeConflict, Free, RecordMerge
    <2>7. Abandon(r) => workItems'[r.item].state = "abandoned"
      <3> SUFFICES ASSUME Abandon(r)
                   PROVE  workItems'[r.item].state = "abandoned"
        OBVIOUS
      <3> DEFINE item == [Advanced(r, "abandoned") EXCEPT !.lease = NoLease]
      <3>0. /\ Advanced(r, "abandoned") \in WorkItem
            /\ Core(Advanced(r, "abandoned"), workItems[r.item], "abandoned")
        BY <1>1, CoreOfCommands DEF States
      <3>1. item.state = "abandoned"
        BY <3>0 DEF Core, WorkItem
      <3>2. Commit(r, item, 0)
        BY DEF Abandon
      <3> HIDE DEF item
      <3>3. workItems'[r.item] = item
        BY <1>1, <2>3, <3>2 DEF Commit, TypeOK, StoreTypeOK
      <3> QED
        BY <3>1, <3>3
    <2>8. Quiet
      BY <1>1, <2>3, <2>5, <2>6, <2>7, OneItemChanges
    <2> QED
      BY <2>1, <2>8
  <1>4. ASSUME NEW r \in Request, Materialize(r)
        PROVE  UNCHANGED blockedVars /\ Quiet
    <2>1. MaterializationEffect(r, workItems[r.item], workItems'[r.item])
      BY <1>1, <1>4, MaterializeEffect
    <2>2. /\ r.item \in Items
          /\ workItems' = [workItems EXCEPT ![r.item] = workItems'[r.item]]
          /\ workItems[r.item].state = "initial"
      BY <2>1 DEF Request, MaterializationEffect
    <2>3. Quiet
      BY <1>1, <2>2, OneItemChanges
    <2> QED
      BY <1>4, <2>3 DEF Materialize
  <1>5. ASSUME NEW r \in Request,
               Omit(r) \/ ReturnMaterialized(r) \/ Reject(r)
        PROVE  UNCHANGED blockedVars /\ Quiet
    BY <1>2, <1>5 DEF Omit, ReturnMaterialized, Reject, storeVars
  <1>6. CASE Observe
    <2>1. UNCHANGED blockedVars
      BY <1>6 DEF Observe, ObserveReadiness, ObserveInspection,
         ObserveReconciliation
    <2>2. CASE UNCHANGED storeVars
      BY <2>1, <2>2, <1>2 DEF storeVars
    <2>3. CASE \E i \in Items :
                 ObservationEffect(i, workItems[i], workItems'[i])
      <3> PICK i \in Items : ObservationEffect(i, workItems[i], workItems'[i])
        BY <2>3
      <3>1. /\ workItems' = [workItems EXCEPT ![i] = workItems'[i]]
            /\ \/ \E complete \in BOOLEAN :
                    workItems'[i] = [workItems[i] EXCEPT !.inspected = complete]
               \/ \E rec : workItems'[i] = [workItems[i] EXCEPT !.rec = rec]
        BY DEF ObservationEffect
      <3>2. /\ workItems'[i].version = workItems[i].version
            /\ workItems'[i].state = workItems[i].state
        BY <1>1, <3>1 DEF TypeOK, StoreTypeOK, WorkItem
      <3>3. Quiet
        BY <1>1, <3>1, <3>2, OneItemChanges
      <3> QED
        BY <2>1, <3>3
    <2> QED
      BY <1>1, <1>6, <2>2, <2>3, ObserveEffect
  <1>7. CASE (\E r : Retry(r)) \/ Tick \/ UNCHANGED vars
    BY <1>2, <1>7 DEF Retry, Tick, vars, storeVars
  <1> QED
    BY <1>3, <1>4, <1>5, <1>6, <1>7

\* What resolve-block has checked of the submission and the approval it
\* consumes, of the planned work and of the Inspector's confirmation.
LEMMA ResolveBlockFacts ==
    ASSUME TypeOK, NEW r \in Request, ResolveBlock(r)
    PROVE  LET s == submissions[r.submission]
               a == approvals[r.approval]
           IN  /\ r.submission \in SubmissionIds
               /\ r.approval \in Approvals
               /\ s.status = "pending" /\ s.item = r.item
               /\ s.approval = r.approval
               /\ activeSubmissions[r.item] = r.submission
               /\ a.status = "unused" /\ now < a.expires
               /\ a.scope.item = r.item
               /\ a.scope.kind = s.kind
               /\ a.scope.version = workItems[r.item].version
               /\ workItems[r.item].state = "blocked"
               /\ s.kind = "add-requirement" =>
                    plannedDependencyComplete(s.cs)
               /\ s.kind = "out-of-scope" => s.confirmed
  <1> DEFINE s == submissions[r.submission]
             a == approvals[r.approval]
             ev == Context(r)
             n == normalizeLifecycleRequest(r)
  <1>1. Allowed(r) /\ r.op = "resolve-block" /\ Verdict(r) = "allowed"
    BY DEF ResolveBlock, Allowed
  <1>2. /\ validateResolutionBinding(r, ev)
        /\ r.submission \in SubmissionIds
        /\ s.status = "pending" /\ s.item = r.item
    BY <1>1, ResolveBlockBinding
  <1>3. /\ ev.submission = s /\ ev.active = activeSubmissions[r.item]
        /\ ev.approval = ApprovalOf(r.approval) /\ ev.now = now
        /\ ev.planned = plannedDependencyComplete(s.cs)
    BY <1>2 DEF Context, SubmissionOf
  <1>4. /\ r.expVersion = workItems[r.item].version
        /\ workItems[r.item].state = "blocked"
    <2>1. /\ <<r.op, workItems[r.item].state>> \in v1Transitions
          /\ r.expVersion = workItems[r.item].version
      BY <1>1, AllowedFacts
    <2> QED
      BY <2>1, <1>1, FromStates
  <1>5. validateResolutionRefresh(ev)
    <2>1. n.op = r.op
      BY NormalizedType DEF Request
    <2>2. Evaluate(n, workItems[r.item], ev) = "allowed"
      BY <1>1 DEF Verdict
    <2> HIDE DEF n, ev
    <2>3. evaluateTransition(n, workItems[r.item], ev)
      BY <2>1, <2>2, <1>1, EvaluateAllowed
    <2> QED
      BY <2>1, <2>3, <1>1 DEF evaluateTransition
  <1> HIDE DEF ev
  <1>6. /\ r.approval # None
        /\ ev.active = r.submission
        /\ ev.submission.kind = r.kind
        /\ ev.submission.approval = r.approval
        /\ ev.approval.status = "unused" /\ ev.now < ev.approval.expires
        /\ ev.approval.scope =
             ResolutionScope(r.subject, r.item, r.kind, ev.submission.cs,
                             r.digest, r.expState, r.expVersion)
    BY <1>2 DEF validateResolutionBinding, ValidateApproval
  <1>7. r.approval \in Approvals /\ ev.approval = a
    BY <1>3, <1>6 DEF ApprovalOf, Request
  <1>8. /\ a.scope.item = r.item /\ a.scope.kind = r.kind
        /\ a.scope.version = r.expVersion
    <2> HIDE DEF a
    <2> QED
      BY <1>6, <1>7 DEF ResolutionScope
  <1>9. /\ s.kind = "add-requirement" => plannedDependencyComplete(s.cs)
        /\ s.kind = "out-of-scope" => s.confirmed
    BY <1>3, <1>5 DEF validateResolutionRefresh
  <1> QED
    BY <1>2, <1>3, <1>4, <1>6, <1>7, <1>8, <1>9

\* What submit-resolution has checked: the item is blocked at the version the
\* caller saw, and the approval is unused and bound to this very resolution.
LEMMA SubmitFacts ==
    ASSUME NEW r, SubmitVerdict(r) = "allowed"
    PROVE  /\ r.approval # None
           /\ workItems[r.item].state = "blocked"
           /\ approvals[r.approval].status = "unused"
           /\ approvals[r.approval].scope =
                ResolutionScope(Materializer, r.item, r.kind, r.cs, r.digest,
                                "blocked", workItems[r.item].version)
  <1>1. /\ validateBlockedExpected(r) = "allowed"
        /\ r.approval # None
        /\ ValidateApproval(approvals[r.approval],
              ResolutionScope(Materializer, r.item, r.kind, r.cs, r.digest,
                              r.expState, r.expVersion), now)
    BY DEF SubmitVerdict
  <1>2. /\ workItems[r.item].state = "blocked"
        /\ r.expState = workItems[r.item].state
        /\ r.expVersion = workItems[r.item].version
    BY <1>1 DEF validateBlockedExpected
  <1> QED
    BY <1>1, <1>2 DEF ValidateApproval

\* What acknowledge has checked of the approval it consumes.
LEMMA AcknowledgeFacts ==
    ASSUME NEW r, AcknowledgeVerdict(r) = "allowed"
    PROVE  /\ r.approval # None
           /\ approvals[r.approval].status = "unused"
           /\ approvals[r.approval].scope.action = "acknowledge"
  <1>1. /\ validateBlockedExpected(r) = "allowed"
        /\ r.approval # None
        /\ ValidateApproval(approvals[r.approval],
              [action |-> "acknowledge", principal |-> r.subject,
               item |-> r.item, kind |-> None, cs |-> None,
               digest |-> r.digest, state |-> r.expState,
               version |-> r.expVersion], now)
    BY DEF AcknowledgeVerdict
  <1> QED
    BY <1>1 DEF ValidateApproval

\* Two pending submissions differ in their item and in their approval.
LEMMA PendingApart ==
    ASSUME BlockedInv, NEW s \in SubmissionIds, NEW t \in SubmissionIds,
           submissions[s].status = "pending", submissions[t].status = "pending",
           \/ submissions[s].item = submissions[t].item
           \/ submissions[s].approval = submissions[t].approval
    PROVE  s = t
  BY DEF BlockedInv, PendingIsBound, PendingIsActive

\* An unused approval has authorized nothing yet.
LEMMA UnusedIsFresh ==
    ASSUME BlockedInv, NEW a \in Approvals, approvals[a].status # "consumed"
    PROVE  Unblocks(a) = {} /\ acknowledgements[a] = 0
  <1>1. Cardinality(Unblocks(a)) + acknowledgements[a] <= 0
    BY BlockedForm DEF BlockedInv
  <1>2. acknowledgements[a] \in Nat
    BY DEF BlockedInv, LifecycleInv, TypeOK, BlockedTypeOK
  <1>3. Cardinality(Unblocks(a)) \in Nat
    BY FiniteSubmissions DEF Unblocks
  <1>4. Cardinality(Unblocks(a)) = 0 /\ acknowledgements[a] = 0
    BY <1>1, <1>2, <1>3
  <1> QED
    BY <1>4, FiniteSubmissions DEF Unblocks

\* BlockedInv of the next state, from its parts.
LEMMA BlockedStep ==
    ASSUME LifecycleInv', \A id \in SubmissionIds : PendingOK(id)',
           ApprovalAuthorizesOnce'
    PROVE  BlockedInv'
  BY DEF BlockedInv, PendingOK, PendingIsBound, PendingIsActive

\* resolve-block uses its approval up with the only submission it stands for.
LEMMA ResolveBlockKeepsBlocked ==
    ASSUME BlockedInv, LifecycleInv', NEW r \in Request, ResolveBlock(r)
    PROVE  BlockedInv'
  <1> DEFINE n == r.submission
             ap == r.approval
  <1>1. TypeOK /\ TypeOK' /\ SubmissionsNameItems
    BY DEF BlockedInv, LifecycleInv
  <1>2. /\ n \in SubmissionIds /\ ap \in Approvals /\ r.item \in Items
        /\ submissions[n].status = "pending" /\ submissions[n].item = r.item
        /\ submissions[n].approval = ap
        /\ approvals[ap].status = "unused"
    BY <1>1, ResolveBlockFacts DEF Request
  <1>3. /\ approvals' = [approvals EXCEPT ![ap].status = "consumed"]
        /\ submissions' = [submissions EXCEPT ![n].status = "consumed"]
        /\ activeSubmissions' = [activeSubmissions EXCEPT ![r.item] = 0]
        /\ revisions' = revisions /\ acknowledgements' = acknowledgements
    BY DEF ResolveBlock
  <1>4. /\ submissions \in [SubmissionIds -> Submission]
        /\ approvals \in [Approvals -> Approval]
        /\ activeSubmissions \in [Items -> SubmissionIds \cup {0}]
        /\ acknowledgements \in [Approvals -> Nat]
    BY <1>1 DEF TypeOK, BlockedTypeOK
  <1>5. /\ submissions'[n].status = "consumed" /\ submissions'[n].approval = ap
        /\ \A t \in SubmissionIds : t # n => submissions'[t] = submissions[t]
    BY <1>2, <1>3, <1>4 DEF Submission
  <1>6. /\ approvals'[ap].status = "consumed"
        /\ \A a \in Approvals : a # ap => approvals'[a] = approvals[a]
    BY <1>2, <1>3, <1>4 DEF Approval
  <1>7. \A j \in Items : j # r.item =>
          /\ workItems'[j] = workItems[j]
          /\ activeSubmissions'[j] = activeSubmissions[j]
    <2>1. workItems' = [workItems EXCEPT ![r.item] = workItems'[r.item]]
      BY <1>1, LifecycleEffect DEF CommandEffect
    <2> DEFINE new == workItems'[r.item]
    <2>2. TypeOK /\ r.item \in Items /\ workItems' = [workItems EXCEPT ![r.item] = new]
      BY <1>1, <1>2, <2>1
    <2> HIDE DEF new
    <2>3. \A j \in Items : j # r.item => workItems'[j] = workItems[j]
      BY <2>2, OneItemChanges
    <2>4. \A j \in Items : j # r.item => activeSubmissions'[j] = activeSubmissions[j]
      BY <1>3, <1>4
    <2> QED
      BY <2>3, <2>4
  <1>8. ASSUME NEW t \in SubmissionIds
        PROVE  PendingOK(t)'
    <2> SUFFICES ASSUME submissions'[t].status = "pending"
                 PROVE  PendingOK(t)'
      BY DEF PendingOK
    <2>1. t # n /\ submissions'[t] = submissions[t]
      BY <1>5
    <2>2. PendingOK(t)
      BY BlockedForm DEF BlockedInv
    <2>3. /\ submissions[t].item # r.item /\ submissions[t].approval # ap
          /\ submissions[t].item \in Items
      BY <1>1, <1>2, <2>1, PendingApart DEF SubmissionsNameItems
    <2>4. submissions[t].approval \in Approvals
      BY <2>1, <2>2 DEF PendingOK
    <2> QED
      BY <1>3, <1>6, <1>7, <2>1, <2>2, <2>3, <2>4 DEF PendingOK
  <1>9. ASSUME NEW a \in Approvals
        PROVE  Cardinality(Unblocks(a)') + acknowledgements'[a] <=
                 (IF approvals'[a].status = "consumed" THEN 1 ELSE 0)
    <2>1. CASE a = ap
      <3>1. Unblocks(a) = {} /\ acknowledgements[a] = 0
        BY <1>2, <2>1, UnusedIsFresh
      <3>2. Unblocks(a)' = {n}
        BY <1>2, <1>5, <2>1, <3>1 DEF Unblocks
      <3>3. Cardinality(Unblocks(a)') = 1
        BY <3>2, FS_Singleton
      <3> QED
        BY <1>3, <1>6, <2>1, <3>1, <3>3
    <2>2. CASE a # ap
      <3>1. Unblocks(a)' = Unblocks(a)
        BY <1>2, <1>5, <2>2 DEF Unblocks
      <3> QED
        BY <1>3, <1>6, <2>2, <3>1, BlockedForm DEF BlockedInv
    <2> QED
      BY <2>1, <2>2
  <1>10. ApprovalAuthorizesOnce'
    BY <1>9 DEF ApprovalAuthorizesOnce, Unblocks
  <1> QED
    BY <1>8, <1>10, BlockedStep

\* submit-resolution supersedes the pending submission of its item and revokes
\* that submission's approval alone: nothing else rests on it.
LEMMA SubmitKeepsBlocked ==
    ASSUME BlockedInv, LifecycleInv', NEW r \in Request, SubmitResolution(r)
    PROVE  BlockedInv'
  <1> DEFINE id == nextSubmission + 1
             prior == activeSubmissions[r.item]
             supersedes == prior # 0 /\ SubmissionOf(prior).status = "pending"
             new == [status |-> "pending", item |-> r.item, kind |-> r.kind,
                     cs |-> r.cs, approval |-> r.approval,
                     digest |-> r.digest, confirmed |-> FALSE,
                     revision |-> revisions[r.item] + 1]
             old == SubmissionOf(prior).approval
  <1>1. TypeOK /\ TypeOK' /\ SubmissionsNameItems
    BY DEF BlockedInv, LifecycleInv
  <1>2. /\ submissions \in [SubmissionIds -> Submission]
        /\ approvals \in [Approvals -> Approval]
        /\ activeSubmissions \in [Items -> SubmissionIds \cup {0}]
        /\ revisions \in [Items -> Nat]
        /\ id \in SubmissionIds /\ r.item \in Items
    <2>1. nextSubmission < MaxSubmissions /\ nextSubmission \in 0..MaxSubmissions
      BY <1>1 DEF SubmitResolution, TypeOK, BlockedTypeOK
    <2>2. id \in SubmissionIds
      BY <2>1, ConstantsAssumption DEF SubmissionIds
    <2> QED
      BY <1>1, <2>2 DEF TypeOK, BlockedTypeOK, Request
  <1>3. /\ r.approval \in Approvals
        /\ workItems[r.item].state = "blocked"
        /\ approvals[r.approval].status = "unused"
        /\ approvals[r.approval].scope =
             ResolutionScope(Materializer, r.item, r.kind, r.cs, r.digest,
                             "blocked", workItems[r.item].version)
    <2>1. SubmitVerdict(r) = "allowed"
      BY DEF SubmitResolution
    <2> QED
      BY <2>1, SubmitFacts DEF Request
  <1>4. /\ submissions' = [s \in SubmissionIds |->
              IF s = id THEN new
              ELSE IF supersedes /\ s = prior
                THEN [submissions[s] EXCEPT !.status = "superseded"]
              ELSE submissions[s]]
        /\ approvals' = IF supersedes /\ old # r.approval
                          THEN [approvals EXCEPT ![old].status = "revoked"]
                          ELSE approvals
        /\ activeSubmissions' = [activeSubmissions EXCEPT ![r.item] = id]
        /\ revisions' = [revisions EXCEPT ![r.item] = @ + 1]
        /\ workItems' = workItems /\ acknowledgements' = acknowledgements
    BY DEF SubmitResolution, storeVars
  <1>5. supersedes => /\ prior \in SubmissionIds
                      /\ submissions[prior].status = "pending"
                      /\ old = submissions[prior].approval
                      /\ old \in Approvals /\ approvals[old].status = "unused"
    BY <1>2 DEF SubmissionOf, BlockedInv, PendingIsBound, PendingIsActive
  <1> HIDE DEF id, prior, supersedes, old
  <1>6. /\ approvals'[r.approval] = approvals[r.approval]
        /\ \A a \in Approvals :
             /\ approvals'[a].scope = approvals[a].scope
             /\ approvals'[a].status # approvals[a].status =>
                  supersedes /\ a = old /\ approvals'[a].status = "revoked"
    BY <1>2, <1>3, <1>4, <1>5 DEF Approval
  <1>7. /\ submissions'[id] = new
        /\ \A t \in SubmissionIds : t # id =>
             \/ submissions'[t] = submissions[t] /\ ~(supersedes /\ t = prior)
             \/ submissions'[t].status = "superseded"
    BY <1>2, <1>4 DEF Submission
  <1>8. ASSUME NEW t \in SubmissionIds
        PROVE  PendingOK(t)'
    <2> SUFFICES ASSUME submissions'[t].status = "pending"
                 PROVE  PendingOK(t)'
      BY DEF PendingOK
    <2>1. CASE t = id
      <3>1. /\ submissions'[t].item = r.item
            /\ submissions'[t].approval = r.approval
            /\ submissions'[t].kind = r.kind /\ submissions'[t].cs = r.cs
            /\ submissions'[t].digest = r.digest
            /\ submissions'[t].revision = revisions[r.item] + 1
        BY <1>7, <2>1
      <3>2. /\ activeSubmissions'[r.item] = id
            /\ revisions'[r.item] = revisions[r.item] + 1
        BY <1>2, <1>4
      <3>3. /\ approvals'[r.approval].scope.action = "resolve-block"
            /\ approvals'[r.approval].scope.item = r.item
        BY <1>3, <1>6 DEF ResolutionScope
      <3> QED
        BY <1>3, <1>4, <1>6, <2>1, <3>1, <3>2, <3>3 DEF PendingOK
    <2>2. CASE t # id
      <3>1. submissions'[t] = submissions[t] /\ ~(supersedes /\ t = prior)
        BY <1>7, <2>2
      <3>2. PendingOK(t)
        BY BlockedForm DEF BlockedInv
      <3>3. /\ submissions[t].item \in Items
            /\ submissions[t].approval \in Approvals
            /\ activeSubmissions[submissions[t].item] = t
        BY <1>1, <3>1, <3>2 DEF SubmissionsNameItems, PendingOK
      <3>4. submissions[t].item # r.item
        <4>1. t # 0
          BY DEF SubmissionIds
        <4>2. SubmissionOf(t) = submissions[t]
          BY DEF SubmissionOf
        <4> QED
          BY <3>1, <3>3, <4>1, <4>2 DEF supersedes, prior
      <3>5. supersedes => submissions[t].approval # old
        BY <1>5, <3>1, PendingApart
      <3>6. approvals'[submissions[t].approval].status = "unused"
        BY <1>6, <3>1, <3>2, <3>3, <3>5 DEF PendingOK
      <3>7. /\ activeSubmissions'[submissions[t].item] = t
            /\ revisions'[submissions[t].item] = revisions[submissions[t].item]
        BY <1>2, <1>4, <3>3, <3>4
      <3> QED
        BY <1>4, <1>6, <3>1, <3>2, <3>3, <3>6, <3>7 DEF PendingOK
    <2> QED
      BY <2>1, <2>2
  <1>9. ApprovalAuthorizesOnce'
    <2>1. ASSUME NEW a \in Approvals
          PROVE  /\ Unblocks(a)' \subseteq Unblocks(a)
                 /\ acknowledgements'[a] = acknowledgements[a]
                 /\ approvals[a].status = "consumed" =>
                      approvals'[a].status = "consumed"
      <3>1. \A t \in SubmissionIds : submissions'[t].status = "consumed" =>
              submissions'[t] = submissions[t]
        BY <1>7
      <3>2. Unblocks(a)' \subseteq Unblocks(a)
        BY <3>1 DEF Unblocks
      <3> QED
        BY <1>4, <1>5, <1>6, <3>2
    <2> QED
      BY <1>1, <2>1, AuthorizesOnceStep DEF BlockedInv
  <1> QED
    BY <1>8, <1>9, BlockedStep

\* acknowledge uses up an approval no resolution rests on.
LEMMA AcknowledgeKeepsBlocked ==
    ASSUME BlockedInv, LifecycleInv', NEW r \in Request, Acknowledge(r)
    PROVE  BlockedInv'
  <1> DEFINE ap == r.approval
  <1>1. TypeOK /\ TypeOK' /\ SubmissionsNameItems
    BY DEF BlockedInv, LifecycleInv
  <1>2. /\ ap \in Approvals
        /\ approvals[ap].status = "unused"
        /\ approvals[ap].scope.action = "acknowledge"
    <2>1. AcknowledgeVerdict(r) = "allowed"
      BY DEF Acknowledge
    <2> QED
      BY <2>1, AcknowledgeFacts DEF Request
  <1>3. /\ approvals' = [approvals EXCEPT ![ap].status = "consumed"]
        /\ acknowledgements' = [acknowledgements EXCEPT ![ap] = @ + 1]
        /\ UNCHANGED <<workItems, submissions, activeSubmissions, revisions>>
    BY DEF Acknowledge, storeVars
  <1>4. /\ approvals \in [Approvals -> Approval]
        /\ acknowledgements \in [Approvals -> Nat]
    BY <1>1 DEF TypeOK, BlockedTypeOK
  <1>5. /\ approvals'[ap].status = "consumed"
        /\ \A a \in Approvals : a # ap => approvals'[a] = approvals[a]
    BY <1>2, <1>3, <1>4 DEF Approval
  <1>6. ASSUME NEW t \in SubmissionIds
        PROVE  PendingOK(t)'
    <2>1. PendingOK(t)
      BY BlockedForm DEF BlockedInv
    <2> QED
      BY <1>2, <1>3, <1>5, <2>1 DEF PendingOK
  <1>7. ASSUME NEW a \in Approvals
        PROVE  Cardinality(Unblocks(a)') + acknowledgements'[a] <=
                 (IF approvals'[a].status = "consumed" THEN 1 ELSE 0)
    <2>1. Unblocks(a)' = Unblocks(a)
      BY <1>3 DEF Unblocks
    <2>2. CASE a = ap
      <3>1. Unblocks(a) = {} /\ acknowledgements[a] = 0
        BY <1>2, <2>2, UnusedIsFresh
      <3>2. Cardinality(Unblocks(a)') = 0
        BY <2>1, <3>1, FS_EmptySet
      <3>3. acknowledgements'[a] = 1
        BY <1>3, <1>4, <2>2, <3>1
      <3> QED
        BY <1>5, <2>2, <3>2, <3>3
    <2>3. CASE a # ap
      <3>1. acknowledgements'[a] = acknowledgements[a]
        BY <1>3, <1>4, <2>3
      <3> QED
        BY <1>5, <2>1, <2>3, <3>1, BlockedForm DEF BlockedInv
    <2> QED
      BY <2>2, <2>3
  <1>8. ApprovalAuthorizesOnce'
    BY <1>7 DEF ApprovalAuthorizesOnce, Unblocks
  <1> QED
    BY <1>6, <1>8, BlockedStep

\* An Inspector's confirmation moves the revision of the active submission
\* together with the one of its item.
LEMMA ConfirmationKeepsBlocked ==
    ASSUME BlockedInv, LifecycleInv', NEW id \in SubmissionIds,
           ObserveIndependentInspectorConfirmation(id)
    PROVE  BlockedInv'
  <1> DEFINE item == submissions[id].item
  <1>1. TypeOK /\ TypeOK' /\ SubmissionsNameItems
    BY DEF BlockedInv, LifecycleInv
  <1>2. /\ submissions \in [SubmissionIds -> Submission]
        /\ revisions \in [Items -> Nat]
        /\ submissions[id].status = "pending" /\ item \in Items
    BY <1>1 DEF TypeOK, BlockedTypeOK, SubmissionsNameItems,
       ObserveIndependentInspectorConfirmation
  <1>3. /\ submissions' = [submissions EXCEPT ![id].confirmed = TRUE,
                                              ![id].revision = revisions[item] + 1]
        /\ revisions' = [revisions EXCEPT ![item] = @ + 1]
        /\ UNCHANGED <<workItems, approvals, activeSubmissions,
                       acknowledgements>>
    BY DEF ObserveIndependentInspectorConfirmation, storeVars
  <1>4. /\ submissions'[id].revision = revisions'[item]
        /\ \A t \in SubmissionIds :
             /\ submissions'[t].status = submissions[t].status
             /\ submissions'[t].item = submissions[t].item
             /\ submissions'[t].kind = submissions[t].kind
             /\ submissions'[t].cs = submissions[t].cs
             /\ submissions'[t].digest = submissions[t].digest
             /\ submissions'[t].approval = submissions[t].approval
             /\ t # id => submissions'[t].revision = submissions[t].revision
    BY <1>2, <1>3 DEF Submission
  <1>5. \A j \in Items : j # item => revisions'[j] = revisions[j]
    BY <1>2, <1>3
  <1> HIDE DEF item
  <1>6. ASSUME NEW t \in SubmissionIds
        PROVE  PendingOK(t)'
    <2> SUFFICES ASSUME submissions[t].status = "pending"
                 PROVE  PendingOK(t)'
      BY <1>4 DEF PendingOK
    <2>1. PendingOK(t) /\ submissions[t].item \in Items
      BY <1>1, BlockedForm DEF BlockedInv, SubmissionsNameItems
    <2>2. submissions'[t].revision = revisions'[submissions[t].item]
      <3>1. CASE t = id
        BY <1>4, <3>1 DEF item
      <3>2. CASE t # id
        <4>1. submissions[t].item # item
          BY <1>2, <3>2, PendingApart DEF item
        <4> QED
          BY <1>4, <1>5, <2>1, <3>2, <4>1 DEF PendingOK
      <3> QED
        BY <3>1, <3>2
    <2> QED
      BY <1>3, <1>4, <2>1, <2>2 DEF PendingOK
  <1>7. ApprovalAuthorizesOnce'
    <2>1. ASSUME NEW a \in Approvals
          PROVE  /\ Unblocks(a)' \subseteq Unblocks(a)
                 /\ acknowledgements'[a] = acknowledgements[a]
                 /\ approvals[a].status = "consumed" =>
                      approvals'[a].status = "consumed"
      BY <1>3, <1>4 DEF Unblocks
    <2> QED
      BY <1>1, <2>1, AuthorizesOnceStep DEF BlockedInv
  <1> QED
    BY <1>6, <1>7, BlockedStep

\* The Gate grants an approval that did not exist.
LEMMA GrantKeepsBlocked ==
    ASSUME BlockedInv, LifecycleInv', Grant
    PROVE  BlockedInv'
  <1>1. TypeOK /\ TypeOK'
    BY DEF BlockedInv, LifecycleInv
  <1> PICK ap \in Approvals : \E scope, x : SeedApproval(ap, scope, x)
    BY DEF Grant
  <1> PICK scope, x : SeedApproval(ap, scope, x)
    OBVIOUS
  <1>2. /\ approvals[ap].status = "absent"
        /\ approvals' = [approvals EXCEPT ![ap] =
              [status |-> "unused", scope |-> scope, expires |-> x]]
        /\ UNCHANGED <<workItems, submissions, activeSubmissions, revisions,
                       acknowledgements>>
    BY DEF SeedApproval, storeVars
  <1>3. /\ \A a \in Approvals : a # ap => approvals'[a] = approvals[a]
        /\ approvals \in [Approvals -> Approval]
    BY <1>1, <1>2 DEF TypeOK, BlockedTypeOK
  <1>4. ASSUME NEW t \in SubmissionIds
        PROVE  PendingOK(t)'
    <2>1. PendingOK(t)
      BY BlockedForm DEF BlockedInv
    <2> QED
      BY <1>2, <1>3, <2>1 DEF PendingOK
  <1>5. ApprovalAuthorizesOnce'
    <2>1. ASSUME NEW a \in Approvals
          PROVE  /\ Unblocks(a)' \subseteq Unblocks(a)
                 /\ acknowledgements'[a] = acknowledgements[a]
                 /\ approvals[a].status = "consumed" =>
                      approvals'[a].status = "consumed"
      BY <1>2, <1>3 DEF Unblocks
    <2> QED
      BY <1>1, <2>1, AuthorizesOnceStep DEF BlockedInv
  <1> QED
    BY <1>4, <1>5, BlockedStep

-----------------------------------------------------------------------------
(* The invariant is inductive.                                             *)

\* Every step keeps BlockedInv.
LEMMA BlockedInductive ==
    ASSUME BlockedInv, [Next]_vars
    PROVE  BlockedInv'
  <1>1. LifecycleInv /\ LifecycleInv' /\ TypeOK /\ TypeOK'
    BY LifecycleInductive DEF BlockedInv, LifecycleInv
  <1> DEFINE Quietly ==
               \/ \E r \in Request : \/ Lifecycle(r) \/ Materialize(r) \/ Omit(r)
                                     \/ ReturnMaterialized(r) \/ Reject(r)
               \/ \E r : Retry(r)
               \/ Observe \/ Tick \/ UNCHANGED vars
  <1>2. CASE Quietly
    BY <1>1, <1>2, QuietMoves, QuietStep
  <1>3. ASSUME NEW r \in Request, Execute(r)
        PROVE  BlockedInv'
    <2>1. CASE ResolveBlock(r)
      BY <1>1, <2>1, ResolveBlockKeepsBlocked
    <2>2. CASE SubmitResolution(r)
      BY <1>1, <2>2, SubmitKeepsBlocked
    <2>3. CASE Acknowledge(r)
      BY <1>1, <2>3, AcknowledgeKeepsBlocked
    <2>4. \/ ResolveBlock(r) \/ SubmitResolution(r) \/ Acknowledge(r)
          \/ Lifecycle(r) \/ Materialize(r) \/ Omit(r)
          \/ ReturnMaterialized(r) \/ Reject(r)
      BY <1>3 DEF Execute, Lifecycle
    <2> QED
      BY <1>2, <2>1, <2>2, <2>3, <2>4
  <1>4. CASE \E c \in Calls : \E v \in Versions(c), t \in Tokens(c) :
               \E n \in Named(c, v) :
                  Execute([c EXCEPT !.expVersion = v, !.token = t,
                                    !.envelope.version = n])
    <2>1. PICK r \in Request : Execute(r)
      BY <1>1, <1>4, RequestType
    <2> QED
      BY <2>1, <1>3
  <1>5. CASE \E id \in SubmissionIds :
                ObserveIndependentInspectorConfirmation(id)
    BY <1>1, <1>5, ConfirmationKeepsBlocked
  <1>6. CASE Grant
    BY <1>1, <1>6, GrantKeepsBlocked
  <1>7. CASE \E a \in answered : Retry(a.request)
    BY <1>2, <1>7
  <1>8. CASE Observe \/ Tick \/ UNCHANGED vars
    BY <1>2, <1>8
  <1> QED
    BY <1>4, <1>5, <1>6, <1>7, <1>8 DEF Next

\* The empty store satisfies it.
LEMMA BlockedInit ==
    ASSUME Init
    PROVE  BlockedInv
  <1>1. LifecycleInv
    BY LifecycleInit
  <1>2. \A id \in SubmissionIds : submissions[id].status = "absent"
    BY DEF Init, NoSubmission
  <1>3. \A a \in Approvals : approvals[a].status = "absent"
                             /\ acknowledgements[a] = 0
    BY DEF Init, NoApproval
  <1>4. PendingIsBound /\ PendingIsActive
    BY <1>2 DEF PendingIsBound, PendingIsActive
  <1>5. \A a \in Approvals : Unblocks(a) = {}
    BY <1>2 DEF Unblocks
  <1>6. \A a \in Approvals : Cardinality(Unblocks(a)) = 0
    BY <1>5, FS_EmptySet
  <1>7. ApprovalAuthorizesOnce
    BY <1>3, <1>6, BlockedForm
  <1> QED
    BY <1>1, <1>4, <1>7 DEF BlockedInv

\* The inductive invariant of blocked work holds throughout.
LEMMA BlockedAlways == Spec => []BlockedInv
  <1>1. BlockedInv /\ [Next]_vars => BlockedInv'
    BY BlockedInductive
  <1> QED
    BY <1>1, BlockedInit, PTL DEF Spec

-----------------------------------------------------------------------------
(* The theorems.                                                           *)

\* The pending submission of an item is its active one, at its latest
\* revision, and rests on an unused approval of exactly this resolution.
THEOREM PendingActive == Spec => []PendingIsActive
  <1>1. BlockedInv => PendingIsActive
    BY DEF BlockedInv
  <1> QED
    BY <1>1, BlockedAlways, PTL

\* A Gate approval authorizes one unblock or one acknowledgement, never two.
THEOREM AuthorizesOnce == Spec => []ApprovalAuthorizesOnce
  <1>1. BlockedInv => ApprovalAuthorizesOnce
    BY DEF BlockedInv
  <1> QED
    BY <1>1, BlockedAlways, PTL

\* An item leaves blocked for building only by resolve-block, with an approval
\* of its contract version that is unused and not expired, and consumes both.
THEOREM HumanUnblocks == Spec => UnblockedByHuman
  <1> DEFINE Consumes(i, id) ==
        LET s == submissions[id]
            a == approvals[s.approval]
        IN  /\ s.status = "pending" /\ s.item = i
            /\ a.status = "unused" /\ now < a.expires
            /\ a.scope.item = i
            /\ a.scope.version = workItems[i].version
            /\ a.scope.kind = s.kind
            /\ s.kind = "add-requirement" =>
                 workItems[PlannedItem[s.cs]].state = "completed"
            /\ s.kind = "out-of-scope" => s.confirmed
            /\ submissions'[id].status = "consumed"
            /\ approvals'[s.approval].status = "consumed"
             Step(i) ==
        /\ workItems[i].state = "blocked"
        /\ workItems'[i].state = "ready-for-building"
        => \E id \in SubmissionIds : Consumes(i, id)
  <1>1. ASSUME BlockedInv, [Next]_vars, NEW i \in Items
        PROVE  Step(i)
    <2> SUFFICES ASSUME workItems[i].state = "blocked",
                        workItems'[i].state = "ready-for-building"
                 PROVE  \E id \in SubmissionIds : Consumes(i, id)
      OBVIOUS
    <2>1. LifecycleInv /\ TypeOK /\ TypeOK'
      BY <1>1, LifecycleInductive DEF BlockedInv, LifecycleInv
    <2>2. \E r \in Request : ResolveBlock(r)
      <3>1. ~ \/ \E r \in Request :
                   \/ Lifecycle(r) \/ Materialize(r) \/ Omit(r)
                   \/ ReturnMaterialized(r) \/ Reject(r)
              \/ \E r : Retry(r)
              \/ Observe \/ Tick \/ UNCHANGED vars
        BY <2>1, QuietMoves
      <3>2. ~ \/ \E r \in Request : SubmitResolution(r) \/ Acknowledge(r)
              \/ \E id \in SubmissionIds :
                   ObserveIndependentInspectorConfirmation(id)
              \/ Grant
        BY DEF SubmitResolution, Acknowledge, Grant, SeedApproval,
           ObserveIndependentInspectorConfirmation, storeVars
      <3>3. \E c \in Calls : \E v \in Versions(c), t \in Tokens(c) :
               \E n \in Named(c, v) :
                  Execute([c EXCEPT !.expVersion = v, !.token = t,
                                    !.envelope.version = n])
        BY <1>1, <3>1, <3>2 DEF Next
      <3>4. \E r \in Request : Execute(r)
        BY <2>1, <3>3, RequestType
      <3> QED
        BY <3>1, <3>2, <3>4 DEF Execute, Lifecycle
    <2> PICK r \in Request : ResolveBlock(r)
      BY <2>2
    <2>3. r.item = i
      <3>1. workItems' = [workItems EXCEPT ![r.item] = workItems'[r.item]]
        BY <2>1, LifecycleEffect DEF CommandEffect
      <3>2. r.item \in Items
        BY DEF Request
      <3> QED
        BY <2>1, <3>1, <3>2, OneItemChanges
    <2>4. /\ r.submission \in SubmissionIds /\ r.approval \in Approvals
          /\ submissions'[r.submission].status = "consumed"
          /\ approvals'[r.approval].status = "consumed"
      <3>1. r.submission \in SubmissionIds /\ r.approval \in Approvals
        BY <2>1, ResolveBlockFacts
      <3> QED
        BY <2>1, <3>1 DEF ResolveBlock, TypeOK, BlockedTypeOK, Submission,
           Approval
    <2>5. Consumes(i, r.submission)
      BY <2>1, <2>3, <2>4, ResolveBlockFacts DEF plannedDependencyComplete
    <2> QED
      BY <2>4, <2>5
  <1>2. BlockedInv /\ [Next]_vars => [\A i \in Items : Step(i)]_vars
    BY <1>1
  <1>3. [][\A i \in Items : Step(i)]_vars => UnblockedByHuman
    BY PTL DEF UnblockedByHuman
  <1> QED
    BY <1>2, <1>3, BlockedAlways, PTL DEF Spec

-----------------------------------------------------------------------------
(* Retries.  A lifecycle call that names no change set takes the one of the *)
(* submission it names each time it is compared with the recorded call.  It *)
(* becomes another call once, when that submission is issued.               *)

\* The call leaves its change set to a submission that does not exist yet.
Unissued(r) ==
    /\ r.op \in LifecycleOperations
    /\ r.cs = None
    /\ r.submission > nextSubmission

Conflict == Rejected("IDEMPOTENCY_CONFLICT")

\* An answer is the one recorded under its key, or the conflict of a call
\* that is read as another one than was recorded.
Answered(a, e) ==
    /\ e.key = a.key
    /\ Unissued(a.request) => e.request = normalizeLifecycleRequest(a.request)
    /\ \/ a.result = e.result
       \/ /\ e.request # normalizeLifecycleRequest(a.request)
          /\ a.result = Conflict

\* The strengthening.
AnswersRecorded ==
    /\ \A e, f \in idempotency : e.key = f.key => e = f
    /\ \A a \in answered :
          /\ a.request.key = a.key
          /\ \E e \in idempotency : Answered(a, e)

RetryInv == TypeOK /\ SubmissionsNameItems /\ AnswersRecorded

\* A submission gets its change set when it is issued and keeps it.
LEMMA SubmissionKeepsChangeSet ==
    ASSUME TypeOK, [Next]_vars
    PROVE  /\ nextSubmission' \in {nextSubmission, nextSubmission + 1}
           /\ \A s \in SubmissionIds :
                \/ submissions'[s].cs = submissions[s].cs
                \/ s = nextSubmission + 1 /\ nextSubmission' = s
  <1> DEFINE Kept ==
               /\ nextSubmission' \in {nextSubmission, nextSubmission + 1}
               /\ \A s \in SubmissionIds :
                    \/ submissions'[s].cs = submissions[s].cs
                    \/ s = nextSubmission + 1 /\ nextSubmission' = s
  <1>1. submissions \in [SubmissionIds -> Submission] /\ nextSubmission \in Nat
    BY DEF TypeOK, BlockedTypeOK
  <1>2. UNCHANGED blockedVars => Kept
    BY DEF blockedVars
  <1>3. ASSUME NEW r \in Request, Execute(r)
        PROVE  Kept
    <2>1. CASE Lifecycle(r)
      BY <1>2, <2>1 DEF Lifecycle, RefreshDependencies, Revalidate, Claim,
         RenewLease, TestsPass, RaiseSpecQuestion, RefreshActive,
         ReturnToBuilding, BeginMerge, MergeConflict, Free, RecordMerge,
         Abandon
    <2>2. CASE \/ Materialize(r) \/ Omit(r) \/ ReturnMaterialized(r)
               \/ Reject(r)
      BY <1>2, <2>2 DEF Materialize, Omit, ReturnMaterialized, Reject
    <2>3. CASE ResolveBlock(r)
      BY <1>1, <2>3 DEF ResolveBlock, Submission
    <2>4. CASE SubmitResolution(r)
      <3>1. \A s \in SubmissionIds : s # nextSubmission + 1 =>
              \/ submissions'[s] = submissions[s]
              \/ submissions'[s] = [submissions[s] EXCEPT !.status = "superseded"]
        BY <2>4 DEF SubmitResolution
      <3>2. nextSubmission' = nextSubmission + 1
        BY <2>4 DEF SubmitResolution
      <3>3. \A s \in SubmissionIds :
              [submissions[s] EXCEPT !.status = "superseded"].cs
                = submissions[s].cs
        BY <1>1 DEF Submission
      <3> QED
        BY <3>1, <3>2, <3>3
    <2>5. CASE Acknowledge(r)
      BY <2>5 DEF Acknowledge
    <2> QED
      BY <1>3, <2>1, <2>2, <2>3, <2>4, <2>5 DEF Execute, Lifecycle
  <1>4. CASE \E c \in Calls : \E v \in Versions(c), t \in Tokens(c) :
               \E n \in Named(c, v) :
                  Execute([c EXCEPT !.expVersion = v, !.token = t,
                                    !.envelope.version = n])
    <2>1. PICK r \in Request : Execute(r)
      BY <1>4, RequestType
    <2> QED
      BY <2>1, <1>3
  <1>5. CASE \E id \in SubmissionIds :
                ObserveIndependentInspectorConfirmation(id)
    BY <1>1, <1>5 DEF ObserveIndependentInspectorConfirmation, Submission
  <1>6. CASE Grant
    BY <1>6 DEF Grant, SeedApproval
  <1>7. CASE (\E a \in answered : Retry(a.request)) \/ Tick \/ UNCHANGED vars
    BY <1>2, <1>7 DEF Retry, Tick, vars
  <1>8. CASE Observe
    BY <1>2, <1>8 DEF Observe, ObserveReadiness, ObserveInspection,
       ObserveReconciliation
  <1> QED
    BY <1>4, <1>5, <1>6, <1>7, <1>8 DEF Next

\* So what a call is read as changes only when its submission is issued.
LEMMA NormalizationIsStable ==
    ASSUME TypeOK, [Next]_vars, NEW r \in Request,
           ~Unissued(r) \/ Unissued(r)'
    PROVE  normalizeLifecycleRequest(r)' = normalizeLifecycleRequest(r)
  <1>1. CASE r.op \in LifecycleOperations /\ r.cs = None
    <2>1. nextSubmission \in Nat /\ SubmissionIds \subseteq Nat
      BY DEF TypeOK, BlockedTypeOK, SubmissionIds
    <2>2. ASSUME r.submission \in SubmissionIds
          PROVE  ~(r.submission = nextSubmission + 1
                     /\ nextSubmission' = r.submission)
      BY <1>1, <2>1, <2>2 DEF Unissued
    <2>3. SubmissionOf(r.submission).cs' = SubmissionOf(r.submission).cs
      BY <2>2, SubmissionKeepsChangeSet DEF SubmissionOf, NoSubmission
    <2> QED
      BY <1>1, <2>3 DEF normalizeLifecycleRequest
  <1>2. CASE ~(r.op \in LifecycleOperations /\ r.cs = None)
    BY <1>2 DEF normalizeLifecycleRequest
  <1> QED
    BY <1>1, <1>2

\* An issued submission stays issued.
LEMMA IssuedStays ==
    ASSUME TypeOK, [Next]_vars, NEW r \in Request, Unissued(r)'
    PROVE  Unissued(r)
  <1>1. nextSubmission \in Nat /\ r.submission \in Int
    BY DEF TypeOK, BlockedTypeOK, Request, SubmissionIds
  <1> QED
    BY <1>1, SubmissionKeepsChangeSet DEF Unissued

\* A step answers no new call, or the first call under a key, whose answer it
\* records, or a call that is sent again.
LEMMA AnswerStep ==
    ASSUME TypeOK, [Next]_vars
    PROVE  \/ UNCHANGED keyVars
           \/ \E r \in Request : \E result :
                Enters(r) /\ rememberIdempotency(r, result)
           \/ \E a \in answered : Retry(a.request)
  <1> DEFINE First(r) == \E result : Enters(r) /\ rememberIdempotency(r, result)
  <1>1. ASSUME NEW r \in Request, Execute(r)
        PROVE  First(r)
    <2>1. CASE Lifecycle(r)
      <3>1. Allowed(r)
        BY <2>1 DEF Lifecycle, RefreshDependencies, Revalidate, Claim,
           RenewLease, TestsPass, RaiseSpecQuestion, RefreshActive,
           ReturnToBuilding, BeginMerge, MergeConflict, Free, RecordMerge,
           Abandon
      <3>2. \E item, token : Commit(r, item, token)
        BY <2>1, Zenon DEF Lifecycle, RefreshDependencies, Revalidate, Claim,
           RenewLease, TestsPass, RaiseSpecQuestion, RefreshActive,
           ReturnToBuilding, BeginMerge, MergeConflict, Free, RecordMerge,
           Abandon
      <3>3. \E result : rememberIdempotency(r, result)
        BY <3>2 DEF Commit
      <3> QED
        BY <3>1, <3>3 DEF Allowed
    <2>2. CASE Materialize(r) \/ ResolveBlock(r)
      <3>1. Allowed(r)
        BY <2>2 DEF Materialize, ResolveBlock
      <3>2. \E item, token : Commit(r, item, token)
        BY <2>2, Zenon DEF Materialize, ResolveBlock
      <3>3. \E result : rememberIdempotency(r, result)
        BY <3>2 DEF Commit
      <3> QED
        BY <3>1, <3>3 DEF Allowed
    <2>3. CASE Omit(r) \/ ReturnMaterialized(r) \/ Reject(r)
      <3>1. Enters(r)
        BY <2>3 DEF Omit, ReturnMaterialized, Reject
      <3>2. \E result : rememberIdempotency(r, result)
        BY <2>3, Zenon DEF Omit, ReturnMaterialized, Reject
      <3> QED
        BY <3>1, <3>2
    <2>4. CASE SubmitResolution(r) \/ Acknowledge(r)
      <3>1. Enters(r)
        BY <2>4 DEF SubmitResolution, Acknowledge
      <3>2. \E result : rememberIdempotency(r, result)
        BY <2>4, Zenon DEF SubmitResolution, Acknowledge
      <3> QED
        BY <3>1, <3>2
    <2> QED
      BY <1>1, <2>1, <2>2, <2>3, <2>4 DEF Execute, Lifecycle
  <1>2. CASE \E c \in Calls : \E v \in Versions(c), t \in Tokens(c) :
               \E n \in Named(c, v) :
                  Execute([c EXCEPT !.expVersion = v, !.token = t,
                                    !.envelope.version = n])
    <2>1. PICK r \in Request : Execute(r)
      BY <1>2, RequestType
    <2> QED
      BY <2>1, <1>1
  <1>3. CASE \/ Observe \/ Grant \/ Tick \/ UNCHANGED vars
             \/ \E id \in SubmissionIds :
                   ObserveIndependentInspectorConfirmation(id)
    BY <1>3 DEF Observe, ObserveReadiness, ObserveInspection,
       ObserveReconciliation, Grant, SeedApproval, Tick, vars, keyVars,
       ObserveIndependentInspectorConfirmation
  <1> QED
    BY <1>2, <1>3 DEF Next

\* What is known of an answer stays true.
LEMMA AnswerKept ==
    ASSUME TypeOK, [Next]_vars, NEW a, a.request \in Request, NEW e, Answered(a, e)
    PROVE  Answered(a, e)'
  <1>1. CASE ~Unissued(a.request) \/ Unissued(a.request)'
    <2>1. normalizeLifecycleRequest(a.request)' = normalizeLifecycleRequest(a.request)
      BY <1>1, NormalizationIsStable
    <2>2. Unissued(a.request)' => Unissued(a.request)
      BY IssuedStays
    <2> QED
      BY <2>1, <2>2 DEF Answered, Conflict
  <1>2. CASE Unissued(a.request) /\ ~Unissued(a.request)'
    <2>1. a.result = e.result
      BY <1>2 DEF Answered
    <2> QED
      BY <1>2, <2>1 DEF Answered
  <1> QED
    BY <1>1, <1>2

\* Every step keeps the answers recorded.
LEMMA RetryInductive ==
    ASSUME RetryInv, [Next]_vars
    PROVE  RetryInv'
  <1>1. TypeOK /\ TypeOK' /\ SubmissionsNameItems'
    BY TypeInductive DEF RetryInv
  <1>2. \A a \in answered : a \in [key: Keys, request: Request, result: Result]
    BY <1>1 DEF TypeOK, KeyTypeOK
  <1>3. ASSUME NEW a \in answered
        PROVE  \E e \in idempotency : Answered(a, e)'
    <2>1. PICK e \in idempotency : Answered(a, e)
      BY DEF RetryInv, AnswersRecorded
    <2>2. a.request \in Request
      BY <1>2
    <2>3. Answered(a, e)'
      BY <1>1, <2>1, <2>2, AnswerKept
    <2> QED
      BY <2>3
  <1>4. UNCHANGED keyVars => AnswersRecorded'
    BY <1>3 DEF RetryInv, AnswersRecorded, keyVars
  <1>5. ASSUME NEW r \in Request, NEW result, Enters(r),
               rememberIdempotency(r, result), r.key # None
        PROVE  AnswersRecorded'
    <2>a. PICK entry : entry = [key |-> r.key, request |-> normalizeLifecycleRequest(r),
                                result |-> result]
      OBVIOUS
    <2>b. PICK answer : answer = [key |-> r.key, request |-> r, result |-> result]
      OBVIOUS
    <2>1. /\ idempotency' = idempotency \cup {entry}
          /\ answered' = answered \cup {answer}
      BY <1>5, <2>a, <2>b DEF rememberIdempotency
    <2>2. /\ entry.key = r.key /\ entry.result = result
          /\ entry.request = normalizeLifecycleRequest(r)
          /\ answer.key = r.key /\ answer.request = r /\ answer.result = result
      BY <2>a, <2>b
    <2>3. \A e \in idempotency : e.key # r.key
      BY <1>5 DEF Enters
    <2>4. Answered(answer, entry)
      BY <2>2 DEF Answered
    <2>5. Answered(answer, entry)'
      BY <1>1, <2>2, <2>4, AnswerKept
    <2>6. \A e, f \in idempotency' : e.key = f.key => e = f
      BY <2>1, <2>2, <2>3 DEF RetryInv, AnswersRecorded
    <2>7. ASSUME NEW a \in answered'
          PROVE  /\ a.request.key = a.key
                 /\ \E e \in idempotency' : Answered(a, e)'
      <3>1. CASE a \in answered
        BY <1>3, <2>1, <3>1 DEF RetryInv, AnswersRecorded
      <3>2. CASE a = answer
        BY <2>1, <2>2, <2>5, <3>2
      <3> QED
        BY <2>1, <3>1, <3>2
    <2> QED
      BY <2>6, <2>7 DEF AnswersRecorded
  <1>6. ASSUME NEW a \in answered, Retry(a.request)
        PROVE  AnswersRecorded'
    <2> DEFINE r == a.request
               entry == CHOOSE e \in idempotency : e.key = r.key
    <2>a. PICK again : again = [key |-> r.key, request |-> r, result |-> checkIdempotency(r)]
      OBVIOUS
    <2>1. PICK e \in idempotency : Answered(a, e)
      BY DEF RetryInv, AnswersRecorded
    <2>2. r.key = a.key /\ e.key = r.key
      BY <2>1 DEF RetryInv, AnswersRecorded, Answered
    <2>3. entry \in idempotency /\ entry.key = r.key
      BY <2>2
    <2>4. entry = e
      BY <2>2, <2>3 DEF RetryInv, AnswersRecorded
    <2>5. checkIdempotency(r) = IF e.request = normalizeLifecycleRequest(r)
                                  THEN e.result ELSE Conflict
      <3>1. checkIdempotency(r) = IF entry.request = normalizeLifecycleRequest(r)
                                    THEN entry.result ELSE Conflict
        BY Zenon DEF checkIdempotency, Conflict
      <3> QED
        BY <2>4, <3>1
    <2>6. again.key = r.key /\ again.request = r /\ again.result = checkIdempotency(r)
      BY <2>a
    <2>7. answered' = answered \cup {again} /\ idempotency' = idempotency
      BY <1>6, <2>a DEF Retry
    <2>8. r \in Request
      BY <1>2
    <2>9. Answered(again, e)
      BY <2>1, <2>2, <2>5, <2>6 DEF Answered
    <2>10. Answered(again, e)'
      BY <1>1, <2>6, <2>8, <2>9, AnswerKept
    <2>11. ASSUME NEW b \in answered'
           PROVE  /\ b.request.key = b.key
                  /\ \E f \in idempotency' : Answered(b, f)'
      <3>1. CASE b \in answered
        BY <1>3, <2>7, <3>1 DEF RetryInv, AnswersRecorded
      <3>2. CASE b = again
        BY <2>6, <2>7, <2>10, <3>2
      <3> QED
        BY <2>7, <3>1, <3>2
    <2> QED
      BY <2>7, <2>11 DEF RetryInv, AnswersRecorded
  <1>7. ASSUME NEW r \in Request, NEW result, rememberIdempotency(r, result),
               r.key = None
        PROVE  UNCHANGED keyVars
    BY <1>7 DEF rememberIdempotency
  <1>8. AnswersRecorded'
    BY <1>1, <1>4, <1>5, <1>6, <1>7, AnswerStep
  <1> QED
    BY <1>1, <1>8 DEF RetryInv

\* Two answers to one call are the one recorded under its key, but for the
\* conflicts of a call that is read as another one now.
LEMMA AnswersAgree == RetryInv => RetryReturnsOriginal
  <1> SUFFICES ASSUME RetryInv, NEW a \in answered, NEW b \in answered,
                      a.key = b.key, a.request = b.request
               PROVE  \/ a.result = b.result
                      \/ /\ Reread(a.request)
                         /\ Conflict \in {a.result, b.result}
    BY DEF RetryReturnsOriginal, Conflict
  <1>1. PICK e \in idempotency : Answered(a, e)
    BY DEF RetryInv, AnswersRecorded
  <1>2. PICK f \in idempotency : Answered(b, f)
    BY DEF RetryInv, AnswersRecorded
  <1>3. f = e
    BY <1>1, <1>2 DEF RetryInv, AnswersRecorded, Answered
  <1>4. a.request.key = e.key
    BY <1>1 DEF RetryInv, AnswersRecorded, Answered
  <1>5. e.request # normalizeLifecycleRequest(a.request) => Reread(a.request)
    BY <1>4 DEF RetryInv, AnswersRecorded, Reread
  <1> QED
    BY <1>1, <1>2, <1>3, <1>5 DEF Answered

\* A call that is sent again under its key gets the answer it got the first
\* time; one that leaves its change set to a submission issued since gets that
\* answer or a conflict.
THEOREM RetriesAnswered == Spec => []RetryReturnsOriginal
  <1>1. Init => RetryInv
    BY InitTypes DEF RetryInv, AnswersRecorded, Init
  <1>2. RetryInv /\ [Next]_vars => RetryInv'
    BY RetryInductive
  <1> QED
    BY <1>1, <1>2, AnswersAgree, PTL DEF Spec

-----------------------------------------------------------------------------
(* What a command does to the state, the evidence and the merge it expects. *)

OpenStates == {"waiting", "ready-for-building", "blocked"}
Working == {"building", "inspecting"}

KeepsEvidence(old, new) == new.rec = old.rec /\ new.expected = old.expected

\* Planning; renewing and passing tests under the same fence; building again;
\* giving the work up; abandoning.
KeepingTransition(old, new) ==
    /\ KeepsEvidence(old, new)
    /\ \/ old.state \in OpenStates /\ new.state \in OpenStates
       \/ /\ old.state \in Working /\ new.state \in {old.state, "inspecting"}
          /\ new.lease.token = old.lease.token
       \/ old.state \in Working /\ new.state \in {"building", "blocked"}
       \/ old.state \in OpenStates \cup Working /\ new.state = "abandoned"

\* A merge begins with a tested candidate; the evidence is not touched.
MergingTransition(r, old, new) ==
    /\ old.state = "inspecting" /\ new.state = "merging"
    /\ new.lease.token = old.lease.token
    /\ new.rec = old.rec /\ new.expected = r.envelope
    /\ testedCandidate(r, old)

\* A failed or lost attempt is repeated or freed without its evidence.
ClearingTransition(old, new) ==
    /\ new.rec = NoRecord /\ new.expected = old.expected
    /\ \/ old.state = "merging" /\ new.state = "building"
       \/ /\ old.state \in Working \cup {"merging"}
          /\ new.state = "ready-for-building"

\* A merge is recorded with the envelope that matches what was expected.
RecordingTransition(old, new) ==
    /\ old.state = "merging" /\ new.state = "completed"
    /\ new.expected = old.expected
    /\ new.rec.seen = old.version
    /\ mergeEnvelopeMatches(old.expected, new.rec.envelope, old.version)

ClaimingTransition(old, new) ==
    /\ old.state = "ready-for-building" /\ new.state = "building"
    /\ new.rec = NoRecord /\ new.expected = old.expected

Transition(r, old, new) ==
    \/ /\ ClaimingTransition(old, new)
       /\ claimedAt' = [claimedAt EXCEPT ![r.item] = new.version]
    \/ /\ claimedAt' = claimedAt
       /\ \/ KeepingTransition(old, new)
          \/ MergingTransition(r, old, new)
          \/ ClearingTransition(old, new)
          \/ RecordingTransition(old, new)

\* What Evaluate has checked of the merge commands it allows.
LEMMA AllowedMerge ==
    ASSUME TypeOK, NEW r \in Request, Allowed(r)
    PROVE  /\ r.op = "begin-merge" => testedCandidate(r, workItems[r.item])
           /\ r.op = "record-merge" =>
                mergeEnvelopeMatches(workItems[r.item].expected,
                    IF r.role = "reconciler"
                      THEN workItems[r.item].rec.envelope ELSE r.envelope,
                    workItems[r.item].version)
  <1> DEFINE n == normalizeLifecycleRequest(r)
             item == workItems[r.item]
             ev == Context(r)
  <1>1. n.op = r.op /\ n.envelope = r.envelope /\ n.role = r.role
    BY NormalizedType DEF Request
  <1>2. Evaluate(n, item, ev) = "allowed"
    BY DEF Allowed, Verdict
  <1> HIDE DEF n, item, ev
  <1>3. n.op # "materialize" => evaluateTransition(n, item, ev)
    BY <1>2, EvaluateAllowed
  <1>4. n.op = "begin-merge" => testedCandidate(n, item)
    BY <1>3 DEF evaluateTransition
  <1>5. n.op = "record-merge" =>
          mergeEnvelopeMatches(item.expected,
              IF n.role = "reconciler" THEN item.rec.envelope ELSE n.envelope,
              item.version)
    BY <1>3 DEF evaluateTransition
  <1> QED
    BY <1>1, <1>4, <1>5 DEF item, testedCandidate

\* The fields a command leaves alone in the record it computes.
LEMMA KeptFields ==
    ASSUME TypeOK, NEW r \in Request, NEW to \in States
    PROVE  /\ Advanced(r, to) \in WorkItem
           /\ Refreshed(r, to) \in WorkItem
           /\ Advanced(r, to).state = to /\ Refreshed(r, to).state = to
           /\ KeepsEvidence(workItems[r.item], Advanced(r, to))
           /\ KeepsEvidence(workItems[r.item], Refreshed(r, to))
           /\ Advanced(r, to).lease = workItems[r.item].lease
  <1> DEFINE old == workItems[r.item]
  <1>1. old \in WorkItem
    BY DEF Request, TypeOK, StoreTypeOK
  <1>2. Advanced(r, to) = [old EXCEPT !.state = to, !.version = @ + 1,
          !.inspected = IF to \in Inspected THEN @ ELSE FALSE]
    BY DEF Advanced, Inspected
  <1>3. Advanced(r, to) \in WorkItem /\ Refreshed(r, to) \in WorkItem
    BY ComputedTypes
  <1>4. /\ Advanced(r, to).state = to
        /\ Advanced(r, to).rec = old.rec
        /\ Advanced(r, to).expected = old.expected
        /\ Advanced(r, to).lease = old.lease
    BY <1>1, <1>2 DEF WorkItem
  <1>5. /\ Refreshed(r, to).state = to
        /\ Refreshed(r, to).rec = Advanced(r, to).rec
        /\ Refreshed(r, to).expected = Advanced(r, to).expected
    BY <1>3, <1>4 DEF Refreshed, WorkItem
  <1> QED
    BY <1>3, <1>4, <1>5 DEF KeepsEvidence

\* Replacing the evidence, the lease or the expected merge of a record.
LEMMA ReplacedFields ==
    ASSUME NEW base \in WorkItem, NEW rec, NEW lease, NEW expected
    PROVE  LET both == [base EXCEPT !.rec = rec, !.lease = lease]
               released == [base EXCEPT !.lease = lease]
               merging == [base EXCEPT !.expected = expected]
           IN  /\ both.state = base.state /\ both.rec = rec
               /\ both.expected = base.expected
               /\ released.state = base.state /\ released.rec = base.rec
               /\ released.expected = base.expected
               /\ merging.state = base.state /\ merging.rec = base.rec
               /\ merging.expected = expected /\ merging.lease = base.lease
    BY DEF WorkItem

\* Each command on an existing item makes one of the transitions.
LEMMA CommandTransition ==
    ASSUME TypeOK, NEW r \in Request, Lifecycle(r) \/ ResolveBlock(r)
    PROVE  Transition(r, workItems[r.item], workItems'[r.item])
  <1> DEFINE old == workItems[r.item]
             new == workItems'[r.item]
  <1>1. /\ r.item \in Items /\ workItems \in [Items -> WorkItem]
        /\ old \in WorkItem /\ old.state \in States
        /\ {"ready-for-building", "building", "inspecting", "merging",
            "completed", "blocked", "abandoned"} \subseteq States
    BY DEF Request, TypeOK, StoreTypeOK, WorkItem, States
  <1>2. Allowed(r) /\ \E item, token : Commit(r, item, token)
    BY DEF Lifecycle, RefreshDependencies, Revalidate, Claim, RenewLease,
       TestsPass, RaiseSpecQuestion, RefreshActive, ReturnToBuilding,
       BeginMerge, MergeConflict, Free, RecordMerge, Abandon, ResolveBlock
  <1>3. /\ r.op = "refresh-dependencies" => old.state = "waiting"
        /\ r.op = "revalidate" =>
             old.state \in {"waiting", "ready-for-building"}
        /\ r.op = "resolve-block" => old.state = "blocked"
        /\ r.op = "claim" => old.state = "ready-for-building"
        /\ r.op = "tests-pass" => old.state = "building"
        /\ r.op \in {"renew-lease", "raise-spec-question", "refresh-active",
                     "recover-lease"} => old.state \in Working
        /\ r.op \in {"return-to-building", "begin-merge"} =>
             old.state = "inspecting"
        /\ r.op \in {"merge-conflict", "merge-not-applied", "record-merge"} =>
             old.state = "merging"
        /\ r.op = "abandon" => old.state \in OpenStates \cup Working
    <2>1. <<r.op, old.state>> \in v1Transitions
      BY <1>2, AllowedFacts
    <2> HIDE DEF old
    <2> QED
      BY <2>1, FromStates DEF Working, OpenStates
  <1>4. /\ r.op = "begin-merge" => testedCandidate(r, old)
        /\ r.op = "record-merge" =>
             mergeEnvelopeMatches(old.expected,
                 IF r.role = "reconciler" THEN old.rec.envelope
                                          ELSE r.envelope,
                 old.version)
    BY <1>2, AllowedMerge
  <1>5. \A item, token : Commit(r, item, token) =>
          /\ new = item
          /\ r.op = "claim" =>
               claimedAt' = [claimedAt EXCEPT ![r.item] = item.version]
          /\ r.op # "claim" => claimedAt' = claimedAt
    BY <1>1 DEF Commit
  <1>6. \A to \in States :
          /\ Advanced(r, to) \in WorkItem /\ Refreshed(r, to) \in WorkItem
          /\ Advanced(r, to).state = to /\ Refreshed(r, to).state = to
          /\ KeepsEvidence(old, Advanced(r, to))
          /\ KeepsEvidence(old, Refreshed(r, to))
          /\ Advanced(r, to).lease = old.lease
    BY KeptFields
  <1> HIDE DEF new
  <1>7. CASE RefreshDependencies(r) \/ ResolveBlock(r)
    <2> DEFINE item == Refreshed(r, "ready-for-building")
    <2>1. /\ r.op \in {"refresh-dependencies", "resolve-block"}
          /\ Commit(r, item, 0)
      BY <1>7 DEF RefreshDependencies, ResolveBlock
    <2>2. item.state = "ready-for-building" /\ KeepsEvidence(old, item)
      BY <1>1, <1>6
    <2> HIDE DEF item, old
    <2>3. KeepingTransition(old, new) /\ claimedAt' = claimedAt
      BY <2>1, <2>2, <1>3, <1>5 DEF KeepingTransition, OpenStates
    <2> QED
      BY <2>3 DEF Transition, old, new
  <1>8. CASE Revalidate(r)
    <2> DEFINE item == Refreshed(r, "blocked")
    <2>1. r.op = "revalidate" /\ Commit(r, item, 0)
      BY <1>8 DEF Revalidate
    <2>2. item.state = "blocked" /\ KeepsEvidence(old, item)
      BY <1>1, <1>6
    <2> HIDE DEF item, old
    <2>3. KeepingTransition(old, new) /\ claimedAt' = claimedAt
      BY <2>1, <2>2, <1>3, <1>5 DEF KeepingTransition, OpenStates
    <2> QED
      BY <2>3 DEF Transition, old, new
  <1>9. CASE Claim(r)
    <2> DEFINE item == [Advanced(r, "building") EXCEPT
                          !.rec = NoRecord, !.lease = startLease(r)]
    <2>1. r.op = "claim" /\ Commit(r, item, nextToken)
      BY <1>9 DEF Claim
    <2>2. /\ item.state = "building" /\ item.rec = NoRecord
          /\ item.expected = old.expected
      BY <1>1, <1>6, ReplacedFields DEF KeepsEvidence
    <2> HIDE DEF item, old
    <2>3. /\ ClaimingTransition(old, new)
          /\ claimedAt' = [claimedAt EXCEPT ![r.item] = new.version]
      BY <2>1, <2>2, <1>3, <1>5 DEF ClaimingTransition
    <2> QED
      BY <2>3 DEF Transition, old, new
  <1>10. CASE RenewLease(r)
    <2> DEFINE item == [Advanced(r, old.state) EXCEPT
                          !.lease.expires = now + LeaseDuration]
    <2>1. r.op = "renew-lease" /\ Commit(r, item, 0)
      BY <1>10 DEF RenewLease
    <2>2. /\ item.state = old.state /\ KeepsEvidence(old, item)
          /\ item.lease.token = old.lease.token
      <3>1. /\ Advanced(r, old.state) \in WorkItem
            /\ Advanced(r, old.state).state = old.state
            /\ KeepsEvidence(old, Advanced(r, old.state))
            /\ Advanced(r, old.state).lease = old.lease
        BY <1>1, <1>6
      <3> QED
        BY <3>1, <1>1 DEF WorkItem, Lease, KeepsEvidence
    <2> HIDE DEF item, old
    <2>3. KeepingTransition(old, new) /\ claimedAt' = claimedAt
      BY <2>1, <2>2, <1>3, <1>5 DEF KeepingTransition
    <2> QED
      BY <2>3 DEF Transition, old, new
  <1>11. CASE TestsPass(r)
    <2> DEFINE item == Advanced(r, "inspecting")
    <2>1. r.op = "tests-pass" /\ Commit(r, item, 0)
      BY <1>11 DEF TestsPass
    <2>2. /\ item.state = "inspecting" /\ KeepsEvidence(old, item)
          /\ item.lease = old.lease
      BY <1>1, <1>6
    <2> HIDE DEF item, old
    <2>3. KeepingTransition(old, new) /\ claimedAt' = claimedAt
      BY <2>1, <2>2, <1>3, <1>5 DEF KeepingTransition, Working
    <2> QED
      BY <2>3 DEF Transition, old, new
  <1>12. CASE RaiseSpecQuestion(r)
    <2> DEFINE item == [Advanced(r, "blocked") EXCEPT !.lease = NoLease]
    <2>1. r.op = "raise-spec-question" /\ Commit(r, item, 0)
      BY <1>12 DEF RaiseSpecQuestion
    <2>2. item.state = "blocked" /\ KeepsEvidence(old, item)
      BY <1>1, <1>6, ReplacedFields DEF KeepsEvidence
    <2> HIDE DEF item, old
    <2>3. KeepingTransition(old, new) /\ claimedAt' = claimedAt
      BY <2>1, <2>2, <1>3, <1>5 DEF KeepingTransition
    <2> QED
      BY <2>3 DEF Transition, old, new
  <1>13. CASE RefreshActive(r)
    <2> DEFINE again == [Refreshed(r, "building") EXCEPT
                           !.lease = startLease(r)]
               block == [Refreshed(r, "blocked") EXCEPT !.lease = NoLease]
    <2>1. /\ r.op = "refresh-active"
          /\ Commit(r, again, nextToken) \/ Commit(r, block, 0)
      BY <1>13 DEF RefreshActive
    <2>2. /\ again.state = "building" /\ KeepsEvidence(old, again)
          /\ block.state = "blocked" /\ KeepsEvidence(old, block)
      BY <1>1, <1>6, ReplacedFields DEF KeepsEvidence
    <2> HIDE DEF again, block, old
    <2>3. KeepingTransition(old, new) /\ claimedAt' = claimedAt
      BY <2>1, <2>2, <1>3, <1>5 DEF KeepingTransition
    <2> QED
      BY <2>3 DEF Transition, old, new
  <1>14. CASE ReturnToBuilding(r)
    <2> DEFINE item == [Advanced(r, "building") EXCEPT !.lease = startLease(r)]
    <2>1. r.op = "return-to-building" /\ Commit(r, item, nextToken)
      BY <1>14 DEF ReturnToBuilding
    <2>2. item.state = "building" /\ KeepsEvidence(old, item)
      BY <1>1, <1>6, ReplacedFields DEF KeepsEvidence
    <2> HIDE DEF item, old
    <2>3. KeepingTransition(old, new) /\ claimedAt' = claimedAt
      BY <2>1, <2>2, <1>3, <1>5 DEF KeepingTransition, Working
    <2> QED
      BY <2>3 DEF Transition, old, new
  <1>15. CASE BeginMerge(r)
    <2> DEFINE item == [Advanced(r, "merging") EXCEPT !.expected = r.envelope]
    <2>1. r.op = "begin-merge" /\ Commit(r, item, 0)
      BY <1>15 DEF BeginMerge
    <2>2. /\ item.state = "merging" /\ item.rec = old.rec
          /\ item.expected = r.envelope /\ item.lease = old.lease
      BY <1>1, <1>6, ReplacedFields DEF KeepsEvidence
    <2> HIDE DEF item, old
    <2>3. MergingTransition(r, old, new) /\ claimedAt' = claimedAt
      BY <2>1, <2>2, <1>3, <1>4, <1>5 DEF MergingTransition
    <2> QED
      BY <2>3 DEF Transition, old, new
  <1>16. CASE MergeConflict(r)
    <2> DEFINE free == [Advanced(r, "ready-for-building") EXCEPT
                          !.rec = NoRecord, !.lease = NoLease]
               again == [Advanced(r, "building") EXCEPT
                           !.rec = NoRecord, !.lease = startLease(r)]
    <2>1. /\ r.op = "merge-conflict"
          /\ Commit(r, free, 0) \/ Commit(r, again, nextToken)
      BY <1>16 DEF MergeConflict
    <2>2. /\ free.state = "ready-for-building" /\ again.state = "building"
          /\ free.rec = NoRecord /\ again.rec = NoRecord
          /\ free.expected = old.expected /\ again.expected = old.expected
      BY <1>1, <1>6, ReplacedFields DEF KeepsEvidence
    <2> HIDE DEF free, again, old
    <2>3. ClearingTransition(old, new) /\ claimedAt' = claimedAt
      BY <2>1, <2>2, <1>3, <1>5 DEF ClearingTransition
    <2> QED
      BY <2>3 DEF Transition, old, new
  <1>17. CASE Free(r)
    <2> DEFINE item == [Advanced(r, "ready-for-building") EXCEPT
                          !.rec = NoRecord, !.lease = NoLease]
    <2>1. /\ r.op \in {"merge-not-applied", "recover-lease"}
          /\ Commit(r, item, 0)
      BY <1>17 DEF Free
    <2>2. /\ item.state = "ready-for-building" /\ item.rec = NoRecord
          /\ item.expected = old.expected
      BY <1>1, <1>6, ReplacedFields DEF KeepsEvidence
    <2> HIDE DEF item, old
    <2>3. ClearingTransition(old, new) /\ claimedAt' = claimedAt
      BY <2>1, <2>2, <1>3, <1>5 DEF ClearingTransition
    <2> QED
      BY <2>3 DEF Transition, old, new
  <1>18. CASE RecordMerge(r)
    <2> DEFINE envelope == IF r.role = "reconciler"
                             THEN old.rec.envelope ELSE r.envelope
               record == [kind |-> "merge-recorded", envelope |-> envelope,
                          seen |-> old.version]
               item == [Advanced(r, "completed") EXCEPT
                          !.rec = record, !.lease = NoLease]
    <2>1. r.op = "record-merge" /\ Commit(r, item, 0)
      BY <1>18 DEF RecordMerge
    <2>2. /\ item.state = "completed" /\ item.rec = record
          /\ item.expected = old.expected
      <3> HIDE DEF record
      <3> QED
        BY <1>1, <1>6, ReplacedFields DEF KeepsEvidence
    <2>3. item.rec.envelope = envelope /\ item.rec.seen = old.version
      <3> HIDE DEF envelope, item
      <3> QED
        BY <2>2
    <2>4. mergeEnvelopeMatches(old.expected, envelope, old.version)
      BY <2>1, <1>4
    <2> HIDE DEF item, envelope, record, old
    <2>5. RecordingTransition(old, new) /\ claimedAt' = claimedAt
      BY <2>1, <2>2, <2>3, <2>4, <1>3, <1>5 DEF RecordingTransition
    <2> QED
      BY <2>5 DEF Transition, old, new
  <1>19. CASE Abandon(r)
    <2> DEFINE item == [Advanced(r, "abandoned") EXCEPT !.lease = NoLease]
    <2>1. r.op = "abandon" /\ Commit(r, item, 0)
      BY <1>19 DEF Abandon
    <2>2. item.state = "abandoned" /\ KeepsEvidence(old, item)
      BY <1>1, <1>6, ReplacedFields DEF KeepsEvidence
    <2> HIDE DEF item, old
    <2>3. KeepingTransition(old, new) /\ claimedAt' = claimedAt
      BY <2>1, <2>2, <1>3, <1>5 DEF KeepingTransition
    <2> QED
      BY <2>3 DEF Transition, old, new
  <1> QED
    BY <1>7, <1>8, <1>9, <1>10, <1>11, <1>12, <1>13, <1>14, <1>15, <1>16,
       <1>17, <1>18, <1>19 DEF Lifecycle, new

-----------------------------------------------------------------------------
(* The same for materializations, observations and every step.             *)

\* A new item has no evidence and expects no merge, though it may name where
\* one would go.
CreatingTransition(new) ==
    /\ new.rec = NoRecord
    /\ new.expected.version = 0
    /\ new.expected.target \in Targets \cup {None}
    /\ claimedAt' = claimedAt

\* Materialize creates its item so.
LEMMA MaterializeTransition ==
    ASSUME TypeOK, NEW r \in Request, Materialize(r)
    PROVE  CreatingTransition(workItems'[r.item])
  <1> DEFINE done == liveDependencies(r.source.deps)
             start == MaterializedState(r.source, done)
             item == [NoItem EXCEPT
                        !.state = start,
                        !.version = 1,
                        !.mkey = r.mkey,
                        !.deps = r.source.deps,
                        !.done = done,
                        !.readiness = r.source.readiness,
                        !.expected.target = r.source.target]
  <1>1. /\ r.item \in Items /\ workItems \in [Items -> WorkItem]
        /\ r.source.target \in Targets \cup {None}
    BY DEF Request, Source, TypeOK, StoreTypeOK
  <1>2. Commit(r, item, 0) /\ r.op = "materialize"
    BY DEF Materialize
  <1>3. /\ item.rec = NoRecord /\ item.expected.version = 0
        /\ item.expected.target = r.source.target
    <2> HIDE DEF start, done
    <2> QED
      BY DEF NoItem, NoEnvelope
  <1> HIDE DEF item
  <1>4. workItems'[r.item] = item /\ claimedAt' = claimedAt
    BY <1>1, <1>2 DEF Commit
  <1> QED
    BY <1>1, <1>3, <1>4 DEF CreatingTransition

\* Evidence is observed at the version the item has.
ObservingTransition(old, new) ==
    /\ new.rec = old.rec \/ new.rec.seen = old.version
    /\ claimedAt' = claimedAt

\* The hooks observe so.
LEMMA ObserveTransition ==
    ASSUME TypeOK, Observe
    PROVE  \/ UNCHANGED storeVars
           \/ \E i \in Items :
                /\ ObservationEffect(i, workItems[i], workItems'[i])
                /\ ObservingTransition(workItems[i], workItems'[i])
  <1>1. workItems \in [Items -> WorkItem]
    BY DEF TypeOK, StoreTypeOK
  <1>2. CASE \E i \in Items, readiness \in Reports :
                ObserveReadiness(i, readiness)
    BY <1>2 DEF ObserveReadiness
  <1>3. CASE \E i \in Items, complete \in BOOLEAN :
                ObserveInspection(i, complete)
    <2> PICK i \in Items, complete \in BOOLEAN : ObserveInspection(i, complete)
      BY <1>3
    <2> DEFINE old == workItems[i]
               new == [old EXCEPT !.inspected = complete]
    <2>1. /\ old.state = "inspecting"
          /\ workItems' = [workItems EXCEPT ![i] = new]
          /\ workItems'[i] = new
          /\ consumed' = consumed /\ nextFencingToken' = nextFencingToken
          /\ claimedAt' = claimedAt
      BY <1>1 DEF ObserveInspection
    <2>2. new.rec = old.rec
      BY <1>1 DEF WorkItem
    <2>3. ObservationEffect(i, old, workItems'[i])
      BY <2>1 DEF ObservationEffect
    <2> HIDE DEF new, old
    <2>4. ObservingTransition(old, workItems'[i])
      BY <2>1, <2>2 DEF ObservingTransition
    <2> QED
      BY <2>3, <2>4 DEF old
  <1>4. CASE \E i \in Items : \E e : ObserveReconciliation(i, e)
    <2> PICK i \in Items : \E e : ObserveReconciliation(i, e)
      BY <1>4
    <2> PICK e : ObserveReconciliation(i, e)
      OBVIOUS
    <2> DEFINE old == workItems[i]
               rec == [kind |-> e.kind, envelope |-> e.envelope,
                       seen |-> old.version]
               new == [old EXCEPT !.rec = rec]
    <2>1. /\ old.state # "initial"
          /\ workItems' = [workItems EXCEPT ![i] = new]
          /\ workItems'[i] = new
          /\ consumed' = consumed /\ nextFencingToken' = nextFencingToken
          /\ claimedAt' = claimedAt
      BY <1>1 DEF ObserveReconciliation, Exists
    <2>2. rec.seen = old.version
      OBVIOUS
    <2> HIDE DEF rec
    <2>3. new.rec = rec
      BY <1>1 DEF WorkItem
    <2>4. ObservationEffect(i, old, workItems'[i])
      BY <2>1 DEF ObservationEffect
    <2> HIDE DEF new, old
    <2>5. ObservingTransition(old, workItems'[i])
      BY <2>1, <2>2, <2>3 DEF ObservingTransition
    <2> QED
      BY <2>4, <2>5 DEF old
  <1> QED
    BY <1>2, <1>3, <1>4 DEF Observe

\* Every step: what StepEffect says, with the evidence and the merge.
LEMMA StepTransition ==
    ASSUME TypeOK, [Next]_vars
    PROVE  \/ UNCHANGED storeVars
           \/ \E r \in Request :
                /\ CommandEffect(r, workItems[r.item], workItems'[r.item])
                /\ Transition(r, workItems[r.item], workItems'[r.item])
           \/ \E r \in Request :
                /\ MaterializationEffect(r, workItems[r.item],
                                         workItems'[r.item])
                /\ CreatingTransition(workItems'[r.item])
           \/ \E i \in Items :
                /\ ObservationEffect(i, workItems[i], workItems'[i])
                /\ ObservingTransition(workItems[i], workItems'[i])
  <1>1. ASSUME NEW r \in Request, Execute(r)
        PROVE  \/ UNCHANGED storeVars
               \/ /\ CommandEffect(r, workItems[r.item], workItems'[r.item])
                  /\ Transition(r, workItems[r.item], workItems'[r.item])
               \/ /\ MaterializationEffect(r, workItems[r.item],
                                           workItems'[r.item])
                  /\ CreatingTransition(workItems'[r.item])
    <2>1. CASE Lifecycle(r) \/ ResolveBlock(r)
      BY <2>1, LifecycleEffect, CommandTransition
    <2>2. CASE Materialize(r)
      BY <2>2, MaterializeEffect, MaterializeTransition
    <2>3. CASE Omit(r) \/ ReturnMaterialized(r) \/ SubmitResolution(r)
               \/ Acknowledge(r) \/ Reject(r)
      BY <2>3 DEF Omit, ReturnMaterialized, SubmitResolution, Acknowledge,
                  Reject
    <2> QED
      BY <1>1, <2>1, <2>2, <2>3 DEF Execute, Lifecycle
  <1>2. CASE \E c \in Calls : \E v \in Versions(c), t \in Tokens(c) :
               \E n \in Named(c, v) :
                  Execute([c EXCEPT !.expVersion = v, !.token = t,
                                    !.envelope.version = n])
    <2>1. PICK r \in Request : Execute(r)
      BY <1>2, RequestType
    <2> QED
      BY <2>1, <1>1
  <1>3. CASE \E a \in answered : Retry(a.request)
    BY <1>3 DEF Retry
  <1>4. CASE Observe
    BY <1>4, ObserveTransition
  <1>5. CASE \E id \in SubmissionIds :
                ObserveIndependentInspectorConfirmation(id)
    BY <1>5 DEF ObserveIndependentInspectorConfirmation
  <1>6. CASE Grant \/ Tick
    BY <1>6 DEF Grant, SeedApproval, Tick
  <1>7. CASE UNCHANGED vars
    BY <1>7 DEF vars
  <1> QED
    BY <1>2, <1>3, <1>4, <1>5, <1>6, <1>7 DEF Next

-----------------------------------------------------------------------------
(* Reconciliation evidence.  The strengthening orders the versions: nothing *)
(* was claimed later than now, the merge a merging item expects names its   *)
(* current version, and the merge any other item once expected is over.     *)

VersionsAreOrdered ==
    \A i \in Items :
        LET item == workItems[i]
        IN  /\ item.state = "initial" => item = NoItem
            /\ claimedAt[i] <= item.version
            /\ item.state = "merging" => item.expected.version = item.version
            /\ item.state \notin {"initial", "merging"} =>
                 item.expected.version < item.version

EvidenceInv ==
    /\ LifecycleInv
    /\ VersionsAreOrdered
    /\ EvidenceIsFresh

\* The two properties of one item.
Ordered(item, claimed) ==
    /\ item.state = "initial" => item = NoItem
    /\ claimed <= item.version
    /\ item.state = "merging" => item.expected.version = item.version
    /\ item.state \notin {"initial", "merging"} =>
         item.expected.version < item.version

Fresh(item, claimed) ==
    item.rec.kind # "empty" =>
      /\ item.state \in Executing => item.rec.seen >= claimed
      /\ item.state \notin {"merging", "completed"} =>
           item.rec.seen > item.expected.version

\* A step that keeps the two properties of the item it changes keeps them of
\* all.
LEMMA EvidenceOfOne ==
    ASSUME TypeOK, TypeOK', VersionsAreOrdered, EvidenceIsFresh,
           NEW i \in Items, NEW new,
           workItems' = [workItems EXCEPT ![i] = new],
           \A j \in Items : j # i => claimedAt'[j] = claimedAt[j],
           Ordered(new, claimedAt'[i]), Fresh(new, claimedAt'[i])
    PROVE  VersionsAreOrdered' /\ EvidenceIsFresh'
  <1>1. /\ workItems'[i] = new
        /\ \A j \in Items : j # i => workItems'[j] = workItems[j]
    BY OneItemChanges
  <1>2. \A j \in Items : /\ Ordered(workItems[j], claimedAt[j])
                         /\ Fresh(workItems[j], claimedAt[j])
    BY DEF VersionsAreOrdered, EvidenceIsFresh, Ordered, Fresh
  <1>3. \A j \in Items : /\ Ordered(workItems'[j], claimedAt'[j])
                         /\ Fresh(workItems'[j], claimedAt'[j])
    BY <1>1, <1>2
  <1> QED
    BY <1>3 DEF VersionsAreOrdered, EvidenceIsFresh, Ordered, Fresh

\* A command keeps both properties.
LEMMA CommandEvidence ==
    ASSUME EvidenceInv, TypeOK', NEW r \in Request,
           CommandEffect(r, workItems[r.item], workItems'[r.item]),
           Transition(r, workItems[r.item], workItems'[r.item])
    PROVE  VersionsAreOrdered' /\ EvidenceIsFresh'
  <1> DEFINE i == r.item
             old == workItems[i]
             new == workItems'[i]
  <1>1. i \in Items /\ TypeOK
    BY DEF Request, EvidenceInv, LifecycleInv
  <1>2. /\ old.version \in Nat /\ old.expected.version \in Nat
        /\ old.rec.seen \in Nat /\ new.rec.seen \in Nat
        /\ claimedAt[i] \in Nat /\ claimedAt'[i] \in Nat
        /\ claimedAt \in [Items -> Nat] /\ new.expected.version \in Nat
    BY <1>1 DEF TypeOK, StoreTypeOK, WorkItem, Envelope
  <1>3. /\ workItems' = [workItems EXCEPT ![i] = new]
        /\ new.version = old.version + 1 /\ new.state # "initial"
        /\ old.state # "completed" /\ old.state # "abandoned"
    BY DEF CommandEffect, Terminal
  <1>4. Ordered(old, claimedAt[i]) /\ Fresh(old, claimedAt[i])
    BY <1>1 DEF EvidenceInv, VersionsAreOrdered, EvidenceIsFresh, Ordered, Fresh
  <1>5. Transition(r, old, new)
    OBVIOUS
  <1>6. \A j \in Items : j # i => claimedAt'[j] = claimedAt[j]
    <2> HIDE DEF old, new
    <2> QED
      BY <1>1, <1>2, <1>5 DEF Transition
  <1>7. NoRecord.kind = "empty"
    BY DEF NoRecord
  <1> HIDE DEF old, new
  <1>8. CASE /\ ClaimingTransition(old, new)
             /\ claimedAt' = [claimedAt EXCEPT ![i] = new.version]
    <2>1. claimedAt'[i] = new.version
      BY <1>1, <1>2, <1>8
    <2>2. Ordered(new, claimedAt'[i]) /\ Fresh(new, claimedAt'[i])
      BY <2>1, <1>2, <1>3, <1>4, <1>7, <1>8
         DEF ClaimingTransition, Ordered, Fresh
    <2> QED
      BY <2>2, <1>1, <1>3, <1>6, EvidenceOfOne DEF EvidenceInv
  <1>9. CASE claimedAt' = claimedAt /\ KeepingTransition(old, new)
    <2>1. Ordered(new, claimedAt'[i])
      BY <1>2, <1>3, <1>4, <1>9
         DEF KeepingTransition, KeepsEvidence, OpenStates, Working, Ordered
    <2>2. Fresh(new, claimedAt'[i])
      BY <1>2, <1>3, <1>4, <1>9
         DEF KeepingTransition, KeepsEvidence, OpenStates, Working, Fresh,
             Executing
    <2> QED
      BY <2>1, <2>2, <1>1, <1>3, <1>6, EvidenceOfOne DEF EvidenceInv
  <1>10. CASE claimedAt' = claimedAt /\ MergingTransition(r, old, new)
    <2>1. Ordered(new, claimedAt'[i])
      BY <1>2, <1>3, <1>4, <1>10
         DEF MergingTransition, testedCandidate, Ordered
    <2>2. Fresh(new, claimedAt'[i])
      BY <1>2, <1>3, <1>4, <1>10 DEF MergingTransition, Fresh, Executing
    <2> QED
      BY <2>1, <2>2, <1>1, <1>3, <1>6, EvidenceOfOne DEF EvidenceInv
  <1>11. CASE claimedAt' = claimedAt /\ ClearingTransition(old, new)
    <2>1. Ordered(new, claimedAt'[i]) /\ Fresh(new, claimedAt'[i])
      BY <1>2, <1>3, <1>4, <1>7, <1>11
         DEF ClearingTransition, Working, Ordered, Fresh
    <2> QED
      BY <2>1, <1>1, <1>3, <1>6, EvidenceOfOne DEF EvidenceInv
  <1>12. CASE claimedAt' = claimedAt /\ RecordingTransition(old, new)
    <2>1. Ordered(new, claimedAt'[i]) /\ Fresh(new, claimedAt'[i])
      BY <1>2, <1>3, <1>4, <1>12
         DEF RecordingTransition, Ordered, Fresh, Executing
    <2> QED
      BY <2>1, <1>1, <1>3, <1>6, EvidenceOfOne DEF EvidenceInv
  <1> QED
    BY <1>5, <1>8, <1>9, <1>10, <1>11, <1>12 DEF Transition

\* A materialization keeps both properties.
LEMMA MaterializationEvidence ==
    ASSUME EvidenceInv, TypeOK', NEW r \in Request,
           MaterializationEffect(r, workItems[r.item], workItems'[r.item]),
           CreatingTransition(workItems'[r.item])
    PROVE  VersionsAreOrdered' /\ EvidenceIsFresh'
  <1> DEFINE i == r.item
             new == workItems'[i]
  <1>1. i \in Items /\ TypeOK
    BY DEF Request, EvidenceInv, LifecycleInv
  <1>2. /\ workItems' = [workItems EXCEPT ![i] = new]
        /\ new.state \in OpenStates /\ new.version = 1
        /\ new.rec.kind = "empty" /\ new.expected.version = 0
        /\ claimedAt' = claimedAt
    BY DEF MaterializationEffect, CreatingTransition, OpenStates, NoRecord
  <1>3. claimedAt[i] = 0
    <2>1. workItems[i].state = "initial" /\ workItems[i].version = 0
      BY <1>1 DEF MaterializationEffect, EvidenceInv, LifecycleInv, AbsentIsNew
    <2>2. claimedAt[i] \in Nat /\ claimedAt[i] <= workItems[i].version
      BY <1>1 DEF EvidenceInv, VersionsAreOrdered, TypeOK, StoreTypeOK
    <2> QED
      BY <2>1, <2>2
  <1> HIDE DEF new
  <1>4. Ordered(new, claimedAt'[i]) /\ Fresh(new, claimedAt'[i])
    BY <1>2, <1>3 DEF Ordered, Fresh, OpenStates
  <1> QED
    BY <1>1, <1>2, <1>4, EvidenceOfOne DEF EvidenceInv

\* A hook keeps both properties.
LEMMA ObservationEvidence ==
    ASSUME EvidenceInv, TypeOK', NEW i \in Items,
           ObservationEffect(i, workItems[i], workItems'[i]),
           ObservingTransition(workItems[i], workItems'[i])
    PROVE  VersionsAreOrdered' /\ EvidenceIsFresh'
  <1> DEFINE old == workItems[i]
             new == workItems'[i]
  <1>1. TypeOK /\ old \in WorkItem
    BY DEF EvidenceInv, LifecycleInv, TypeOK, StoreTypeOK
  <1>2. /\ workItems' = [workItems EXCEPT ![i] = new]
        /\ old.state # "initial"
        /\ \/ \E complete \in BOOLEAN :
                new = [old EXCEPT !.inspected = complete]
           \/ \E rec : new = [old EXCEPT !.rec = rec]
    BY DEF ObservationEffect
  <1>3. /\ claimedAt' = claimedAt
        /\ new.rec = old.rec \/ new.rec.seen = old.version
    BY DEF ObservingTransition
  <1>4. Ordered(old, claimedAt[i]) /\ Fresh(old, claimedAt[i])
    BY DEF EvidenceInv, VersionsAreOrdered, EvidenceIsFresh, Ordered, Fresh
  <1>5. /\ old.version \in Nat /\ old.expected.version \in Nat
        /\ claimedAt[i] \in Nat
    BY <1>1 DEF TypeOK, StoreTypeOK, WorkItem, Envelope
  <1> HIDE DEF old, new
  <1>6. /\ new.state = old.state /\ new.version = old.version
        /\ new.expected = old.expected
    BY <1>1, <1>2 DEF WorkItem
  <1>7. Ordered(new, claimedAt'[i]) /\ Fresh(new, claimedAt'[i])
    BY <1>2, <1>3, <1>4, <1>5, <1>6 DEF Ordered, Fresh
  <1> QED
    BY <1>1, <1>2, <1>3, <1>7, EvidenceOfOne DEF EvidenceInv

\* Every step keeps the inductive invariant.
LEMMA EvidenceInductive ==
    ASSUME EvidenceInv, [Next]_vars
    PROVE  EvidenceInv'
  <1>1. LifecycleInv /\ LifecycleInv' /\ TypeOK /\ TypeOK'
    BY LifecycleInductive DEF EvidenceInv, LifecycleInv
  <1>2. CASE UNCHANGED storeVars
    BY <1>1, <1>2
       DEF EvidenceInv, VersionsAreOrdered, EvidenceIsFresh, storeVars
  <1>3. CASE ~UNCHANGED storeVars
    <2>1. VersionsAreOrdered' /\ EvidenceIsFresh'
      BY <1>1, <1>3, StepTransition, CommandEvidence, MaterializationEvidence,
         ObservationEvidence
    <2> QED
      BY <1>1, <2>1 DEF EvidenceInv
  <1> QED
    BY <1>2, <1>3

\* The empty store satisfies it.
LEMMA EvidenceInit ==
    ASSUME Init
    PROVE  EvidenceInv
  <1>1. /\ workItems = [i \in Items |-> NoItem]
        /\ claimedAt = [i \in Items |-> 0]
    BY DEF Init
  <1>2. /\ NoItem.state = "initial" /\ NoItem.version = 0
        /\ NoItem.rec.kind = "empty"
    BY DEF NoItem, NoRecord
  <1>3. VersionsAreOrdered /\ EvidenceIsFresh
    BY <1>1, <1>2 DEF VersionsAreOrdered, EvidenceIsFresh
  <1> QED
    BY <1>3, LifecycleInit DEF EvidenceInv

\* The invariant holds in every reachable state.
LEMMA EvidenceAlways == Spec => []EvidenceInv
  <1>1. Init => EvidenceInv
    BY EvidenceInit
  <1>2. EvidenceInv /\ [Next]_vars => EvidenceInv'
    BY EvidenceInductive
  <1> QED
    BY <1>1, <1>2, PTL DEF Spec

\* Reconciliation evidence is never older than what it is used to decide: not
\* than the claim of the Job Site that holds the item, and, outside merging,
\* not than the last attempt to merge.
THEOREM FreshEvidence == Spec => []EvidenceIsFresh
  <1>1. EvidenceInv => EvidenceIsFresh
    BY DEF EvidenceInv
  <1> QED
    BY <1>1, EvidenceAlways, PTL

\* An item completes from merging only, with a merge of exactly the tested
\* candidate into the target and under the version begin-merge named.
THEOREM Completion == Spec => CompletionIsBound
  <1> DEFINE Step(i) ==
        LET old == workItems[i]
            merged == workItems'[i].rec.envelope
        IN  workItems'[i].state = "completed" /\ old.state # "completed" =>
              /\ old.state = "merging"
              /\ old.expected.version = old.version
              /\ merged.commit
              /\ merged.candidate \in Candidates
              /\ merged.target \in Targets
              /\ merged = [old.expected EXCEPT !.commit = TRUE]
  <1>1. ASSUME EvidenceInv, Next, NEW i \in Items
        PROVE  Step(i)
    <2> DEFINE old == workItems[i]
               new == workItems'[i]
    <2> SUFFICES ASSUME new.state = "completed", old.state # "completed"
                 PROVE  Step(i)
      OBVIOUS
    <2>1. TypeOK /\ TypeOK' /\ workItems \in [Items -> WorkItem]
      BY <1>1, EvidenceInductive
         DEF EvidenceInv, LifecycleInv, TypeOK, StoreTypeOK
    <2>2. RecordingTransition(old, new)
      <3>1. CASE UNCHANGED storeVars
        BY <3>1 DEF storeVars
      <3>2. CASE \E r \in Request :
              /\ CommandEffect(r, workItems[r.item], workItems'[r.item])
              /\ Transition(r, workItems[r.item], workItems'[r.item])
        <4> PICK r \in Request :
              /\ CommandEffect(r, workItems[r.item], workItems'[r.item])
              /\ Transition(r, workItems[r.item], workItems'[r.item])
          BY <3>2
        <4>1. r.item = i
          BY <2>1, OneItemChanges DEF CommandEffect, Request
        <4>2. Transition(r, old, new)
          BY <4>1
        <4> HIDE DEF old, new
        <4> QED
          BY <4>2 DEF Transition, ClaimingTransition, KeepingTransition,
             MergingTransition, ClearingTransition, OpenStates, Working
      <3>3. CASE \E r \in Request :
              MaterializationEffect(r, workItems[r.item], workItems'[r.item])
        <4> PICK r \in Request :
              MaterializationEffect(r, workItems[r.item], workItems'[r.item])
          BY <3>3
        <4>1. /\ r.item \in Items
              /\ workItems' = [workItems EXCEPT
                                 ![r.item] = workItems'[r.item]]
              /\ workItems'[r.item].state # "completed"
          BY DEF MaterializationEffect, Request
        <4> QED
          BY <4>1, <2>1, OneItemChanges
      <3>4. CASE \E j \in Items :
              ObservationEffect(j, workItems[j], workItems'[j])
        <4> PICK j \in Items :
              ObservationEffect(j, workItems[j], workItems'[j])
          BY <3>4
        <4>1. j = i
          BY <2>1, OneItemChanges DEF ObservationEffect
        <4>2. new.state = old.state
          BY <4>1, <2>1 DEF ObservationEffect, WorkItem
        <4> QED
          BY <4>2
      <3> QED
        BY <1>1, <2>1, <3>1, <3>2, <3>3, <3>4, StepTransition
    <2>3. /\ old.expected \in Envelope /\ new.rec.envelope \in Envelope
      BY <2>1 DEF TypeOK, StoreTypeOK, WorkItem
    <2>4. /\ old.state = "merging"
          /\ mergeEnvelopeMatches(old.expected, new.rec.envelope, old.version)
      BY <2>2 DEF RecordingTransition
    <2> DEFINE merged == new.rec.envelope
               expected == old.expected
               version == old.version
    <2> HIDE DEF merged, expected, version
    <2>5. /\ expected \in Envelope /\ merged \in Envelope
          /\ mergeEnvelopeMatches(expected, merged, version)
      BY <2>3, <2>4 DEF merged, expected, version
    <2>6. /\ expected.version = version
          /\ merged.commit = TRUE
          /\ merged.candidate \in Candidates
          /\ merged.target \in Targets
      BY <2>5 DEF mergeEnvelopeMatches, Envelope
    <2>7. merged = [expected EXCEPT !.commit = TRUE]
      BY <2>5, <2>6 DEF mergeEnvelopeMatches, Envelope
    <2> QED
      BY <2>4, <2>6, <2>7 DEF merged, expected, version
  <1>2. EvidenceInv /\ [Next]_vars => [\A i \in Items : Step(i)]_vars
    BY <1>1
  <1> QED
    BY <1>2, EvidenceAlways, PTL DEF Spec, CompletionIsBound

-----------------------------------------------------------------------------
(* The refinement.                                                         *)

\* The phases of the states, group by group.
LEMMA Phases ==
    /\ PhaseOf("initial") = "none"
    /\ \A state \in OpenStates : PhaseOf(state) = "open"
    /\ \A state \in Working : PhaseOf(state) = "attempt"
    /\ PhaseOf("merging") = "merging"
    /\ PhaseOf("completed") = "completed"
    /\ PhaseOf("abandoned") = "abandoned"
    BY DEF PhaseOf, OpenStates, Working

\* Two functions that agree but at one point.
LEMMA DifferAtOne ==
    ASSUME NEW S, NEW f, NEW g, NEW i \in S, NEW x,
           f = [j \in S |-> f[j]], g = [j \in S |-> g[j]],
           g[i] = x, \A j \in S : j # i => g[j] = f[j]
    PROVE  g = [f EXCEPT ![i] = x] /\ (x = f[i] => g = f)
  <1>1. g = [f EXCEPT ![i] = x]
    <2>1. [f EXCEPT ![i] = x] = [j \in S |-> IF j = i THEN x ELSE f[j]]
      OBVIOUS
    <2> QED
      BY <2>1
  <1>2. x = f[i] => g = f
    OBVIOUS
  <1> QED
    BY <1>1, <1>2

\* What the contract sees of a step that replaces one record.
LEMMA ContractOfOne ==
    ASSUME TypeOK, NEW i \in Items, NEW new,
           workItems' = [workItems EXCEPT ![i] = new]
    PROVE  /\ phases' = [phases EXCEPT ![i] = PhaseOf(new.state)]
           /\ attempts' = [attempts EXCEPT ![i] = new.lease.token]
           /\ inspections' = [inspections EXCEPT ![i] = new.inspected]
           /\ targets' = [targets EXCEPT ![i] = new.expected.target]
           /\ PhaseOf(new.state) = phases[i] => phases' = phases
           /\ new.lease.token = attempts[i] => attempts' = attempts
           /\ new.inspected = inspections[i] => inspections' = inspections
           /\ new.expected.target = targets[i] => targets' = targets
  <1>1. /\ workItems'[i] = new
        /\ \A j \in Items : j # i => workItems'[j] = workItems[j]
    BY OneItemChanges
  <1>2. /\ phases' = [phases EXCEPT ![i] = PhaseOf(new.state)]
        /\ PhaseOf(new.state) = phases[i] => phases' = phases
    <2>1. /\ phases = [j \in Items |-> phases[j]]
          /\ phases' = [j \in Items |-> phases'[j]]
          /\ phases'[i] = PhaseOf(new.state)
          /\ \A j \in Items : j # i => phases'[j] = phases[j]
      BY <1>1 DEF phases
    <2> QED
      BY <2>1, DifferAtOne
  <1>3. /\ attempts' = [attempts EXCEPT ![i] = new.lease.token]
        /\ new.lease.token = attempts[i] => attempts' = attempts
    <2>1. /\ attempts = [j \in Items |-> attempts[j]]
          /\ attempts' = [j \in Items |-> attempts'[j]]
          /\ attempts'[i] = new.lease.token
          /\ \A j \in Items : j # i => attempts'[j] = attempts[j]
      BY <1>1 DEF attempts
    <2> QED
      BY <2>1, DifferAtOne
  <1>4. /\ inspections' = [inspections EXCEPT ![i] = new.inspected]
        /\ new.inspected = inspections[i] => inspections' = inspections
    <2>1. /\ inspections = [j \in Items |-> inspections[j]]
          /\ inspections' = [j \in Items |-> inspections'[j]]
          /\ inspections'[i] = new.inspected
          /\ \A j \in Items : j # i => inspections'[j] = inspections[j]
      BY <1>1 DEF inspections
    <2> QED
      BY <2>1, DifferAtOne
  <1>5. /\ targets' = [targets EXCEPT ![i] = new.expected.target]
        /\ new.expected.target = targets[i] => targets' = targets
    <2>1. /\ targets = [j \in Items |-> targets[j]]
          /\ targets' = [j \in Items |-> targets'[j]]
          /\ targets'[i] = new.expected.target
          /\ \A j \in Items : j # i => targets'[j] = targets[j]
      BY <1>1 DEF targets
    <2> QED
      BY <2>1, DifferAtOne
  <1> QED
    BY <1>2, <1>3, <1>4, <1>5

\* A command is a step of the contract or invisible to it.
LEMMA CommandRefines ==
    ASSUME EvidenceInv, EvidenceInv', NEW r \in Request,
           CommandEffect(r, workItems[r.item], workItems'[r.item]),
           Transition(r, workItems[r.item], workItems'[r.item])
    PROVE  [Contract!Next]_(Contract!contractVars)
  <1> DEFINE i == r.item
             old == workItems[i]
             new == workItems'[i]
  <1>1. i \in Items /\ TypeOK /\ TypeOK'
    BY DEF Request, EvidenceInv, LifecycleInv
  <1>2. /\ workItems' = [workItems EXCEPT ![i] = new]
        /\ FenceEffect(old, new) /\ InspectionEffect(old, new)
        /\ Transition(r, old, new)
    BY DEF CommandEffect
  <1>3. /\ phases' = [phases EXCEPT ![i] = PhaseOf(new.state)]
        /\ attempts' = [attempts EXCEPT ![i] = new.lease.token]
        /\ inspections' = [inspections EXCEPT ![i] = new.inspected]
        /\ targets' = [targets EXCEPT ![i] = new.expected.target]
        /\ PhaseOf(new.state) = phases[i] => phases' = phases
        /\ new.lease.token = attempts[i] => attempts' = attempts
        /\ new.inspected = inspections[i] => inspections' = inspections
        /\ new.expected.target = targets[i] => targets' = targets
    BY <1>1, <1>2, ContractOfOne
  <1>4. /\ phases[i] = PhaseOf(old.state) /\ attempts[i] = old.lease.token
        /\ inspections[i] = old.inspected /\ targets[i] = old.expected.target
    BY <1>1 DEF phases, attempts, inspections, targets
  <1>5. /\ nextFencingToken \in Nat
        /\ old.lease.token \in Nat /\ old.lease.token <= nextFencingToken
        /\ old.lease.token # 0 <=> old.state \in Executing
    BY <1>1 DEF EvidenceInv, LifecycleInv, ExecutionIsFenced, HasLease, TypeOK,
                StoreTypeOK, WorkItem, Lease
  <1>6. old.inspected => old.state \in Inspected
    BY <1>1 DEF EvidenceInv, LifecycleInv, InspectionIsCurrent, Inspected
  <1>7. old.inspected \in BOOLEAN /\ r.envelope.target \in Targets \cup {None}
    BY <1>1 DEF TypeOK, StoreTypeOK, WorkItem, Request, Envelope
  <1>8. NoLease.token = 0
    BY DEF NoLease
  <1>9. (\/ Contract!Begin(i) \/ Contract!Merge(i) \/ Contract!Free(i)
         \/ Contract!Complete(i) \/ Contract!Abandon(i))
        => Contract!Next
    BY <1>1 DEF Contract!Next
  <1>10. /\ phases' = phases /\ attempts' = attempts
         /\ nextFencingToken' = nextFencingToken
         /\ inspections' = inspections /\ targets' = targets
         => UNCHANGED Contract!contractVars
    BY DEF Contract!contractVars
  <1> HIDE DEF i, old, new
  <1>11. CASE new.state = "building"
    <2>1. old.state \in OpenStates \cup Working \cup {"merging"}
          /\ new.expected = old.expected
      BY <1>2, <1>11 DEF Transition, ClaimingTransition, KeepingTransition,
         KeepsEvidence, MergingTransition, ClearingTransition,
         RecordingTransition, OpenStates, Working
    <2>2. new.inspected = FALSE
      BY <1>2, <1>11 DEF InspectionEffect, Inspected
    <2>3. PhaseOf(new.state) = "attempt"
          /\ PhaseOf(old.state) \in {"open", "attempt", "merging"}
      BY <2>1, <1>11, Phases DEF Working
    <2>4. CASE /\ new.lease.token = nextFencingToken + 1
               /\ nextFencingToken' = nextFencingToken + 1
      <3>1. Contract!Begin(i)
        BY <2>1, <2>2, <2>3, <2>4, <1>3, <1>4
           DEF Contract!Begin, Contract!Running, Contract!Open
      <3> QED
        BY <3>1, <1>9
    <2>5. CASE /\ old.state = "building"
               /\ new.lease.token = old.lease.token
               /\ nextFencingToken' = nextFencingToken
      <3>1. old.inspected = FALSE
        BY <2>5, <1>6, <1>7 DEF Inspected
      <3>2. PhaseOf(new.state) = PhaseOf(old.state)
        BY <2>5, <1>11
      <3> QED
        BY <2>1, <2>2, <2>5, <3>1, <3>2, <1>3, <1>4, <1>10
    <2> QED
      BY <1>2, <1>11, <2>4, <2>5 DEF FenceEffect, Executing
  <1>12. CASE new.state = "inspecting"
    <2>1. /\ old.state \in Working /\ new.expected = old.expected
          /\ new.lease.token = old.lease.token
      BY <1>2, <1>12 DEF Transition, ClaimingTransition, KeepingTransition,
         KeepsEvidence, MergingTransition, ClearingTransition,
         RecordingTransition, OpenStates, Working
    <2>2. new.inspected = old.inspected
      BY <1>2, <1>12 DEF InspectionEffect, Inspected
    <2>3. PhaseOf(new.state) = PhaseOf(old.state)
      BY <2>1, <1>12, Phases DEF Working
    <2>4. nextFencingToken' = nextFencingToken
      BY <2>1, <1>2, <1>5, <1>12 DEF FenceEffect, Executing
    <2> QED
      BY <2>1, <2>2, <2>3, <2>4, <1>3, <1>4, <1>10
  <1>13. CASE new.state = "merging"
    <2>1. MergingTransition(r, old, new)
      BY <1>2, <1>13 DEF Transition, ClaimingTransition, KeepingTransition,
         ClearingTransition, RecordingTransition, OpenStates, Working
    <2>2. /\ new.inspected = old.inspected /\ old.inspected
      BY <1>2, <1>13 DEF InspectionEffect, Inspected
    <2>3. /\ PhaseOf(new.state) = "merging" /\ PhaseOf(old.state) = "attempt"
          /\ new.lease.token = old.lease.token
      BY <2>1, Phases DEF MergingTransition, Working
    <2>4. nextFencingToken' = nextFencingToken
      BY <2>3, <1>2, <1>5, <1>13 DEF FenceEffect, Executing
    <2>5. \E t \in Targets : /\ old.expected.target \in {None, t}
                             /\ new.expected.target = t
      BY <2>1, <1>7 DEF MergingTransition, testedCandidate
    <2>6. Contract!Merge(i)
      BY <2>2, <2>3, <2>4, <2>5, <1>3, <1>4 DEF Contract!Merge
    <2> QED
      BY <2>6, <1>9
  <1>14. CASE new.state \in OpenStates
    <2>1. /\ old.state \in OpenStates \cup Working \cup {"merging"}
          /\ new.expected = old.expected
      BY <1>2, <1>14 DEF Transition, ClaimingTransition, KeepingTransition,
         KeepsEvidence, MergingTransition, ClearingTransition,
         RecordingTransition, OpenStates, Working
    <2>2. new.inspected = FALSE
      BY <1>2, <1>14 DEF InspectionEffect, Inspected, OpenStates
    <2>3. /\ nextFencingToken' = nextFencingToken
          /\ new.lease.token = 0
      BY <1>2, <1>5, <1>8, <1>14 DEF FenceEffect, Executing, OpenStates
    <2>4. PhaseOf(new.state) = "open"
      BY <1>14, Phases
    <2>5. CASE old.state \in OpenStates
      <3>1. old.inspected = FALSE /\ old.lease.token = 0
        BY <2>5, <1>5, <1>6, <1>7 DEF Inspected, OpenStates, Executing
      <3>2. PhaseOf(old.state) = "open"
        BY <2>5, Phases
      <3> QED
        BY <2>1, <2>2, <2>3, <2>4, <3>1, <3>2, <1>3, <1>4, <1>10
    <2>6. CASE old.state \in Working \cup {"merging"}
      <3>1. PhaseOf(old.state) \in {"attempt", "merging"}
        BY <2>6, Phases
      <3>2. Contract!Free(i)
        BY <2>1, <2>2, <2>3, <2>4, <3>1, <1>3, <1>4
           DEF Contract!Free, Contract!Running, Contract!Open
      <3> QED
        BY <3>2, <1>9
    <2> QED
      BY <2>1, <2>5, <2>6
  <1>15. CASE new.state = "completed"
    <2>1. old.state = "merging" /\ new.expected = old.expected
      BY <1>2, <1>15 DEF Transition, ClaimingTransition, KeepingTransition,
         MergingTransition, ClearingTransition, RecordingTransition,
         OpenStates, Working
    <2>2. new.inspected = old.inspected
      BY <1>2, <1>15 DEF InspectionEffect, Inspected
    <2>3. nextFencingToken' = nextFencingToken /\ new.lease.token = 0
      BY <1>2, <1>5, <1>8, <1>15 DEF FenceEffect, Executing
    <2>4. PhaseOf(old.state) = "merging" /\ PhaseOf(new.state) = "completed"
      BY <2>1, <1>15, Phases
    <2>5. Contract!Complete(i)
      BY <2>1, <2>2, <2>3, <2>4, <1>3, <1>4 DEF Contract!Complete
    <2> QED
      BY <2>5, <1>9
  <1>16. CASE new.state = "abandoned"
    <2>1. /\ old.state \in OpenStates \cup Working
          /\ new.expected = old.expected
      BY <1>2, <1>16 DEF Transition, ClaimingTransition, KeepingTransition,
         KeepsEvidence, MergingTransition, ClearingTransition,
         RecordingTransition, OpenStates, Working
    <2>2. new.inspected = old.inspected
      BY <1>2, <1>16 DEF InspectionEffect, Inspected
    <2>3. nextFencingToken' = nextFencingToken /\ new.lease.token = 0
      BY <1>2, <1>5, <1>8, <1>16 DEF FenceEffect, Executing
    <2>4. /\ PhaseOf(old.state) \in {"open", "attempt"}
          /\ PhaseOf(new.state) = "abandoned"
      BY <2>1, <1>16, Phases
    <2>5. Contract!Abandon(i)
      BY <2>1, <2>2, <2>3, <2>4, <1>3, <1>4
         DEF Contract!Abandon, Contract!Open
    <2> QED
      BY <2>5, <1>9
  <1>17. new.state \in {"building", "inspecting", "merging", "completed",
                        "abandoned"} \cup OpenStates
    BY <1>2 DEF Transition, ClaimingTransition, KeepingTransition,
       MergingTransition, ClearingTransition, RecordingTransition, OpenStates,
       Working
  <1> QED
    BY <1>11, <1>12, <1>13, <1>14, <1>15, <1>16, <1>17

\* A materialization is the appearance of its item.
LEMMA MaterializationRefines ==
    ASSUME EvidenceInv, NEW r \in Request,
           MaterializationEffect(r, workItems[r.item], workItems'[r.item]),
           CreatingTransition(workItems'[r.item])
    PROVE  Contract!Next
  <1> DEFINE i == r.item
             old == workItems[i]
             new == workItems'[i]
  <1>1. i \in Items /\ TypeOK
    BY DEF Request, EvidenceInv, LifecycleInv
  <1>2. /\ workItems' = [workItems EXCEPT ![i] = new]
        /\ nextFencingToken' = nextFencingToken
        /\ old.state = "initial" /\ new.state \in OpenStates
        /\ new.lease.token = 0 /\ new.inspected = FALSE
        /\ new.expected.target \in Targets \cup {None}
    BY DEF MaterializationEffect, CreatingTransition, OpenStates, NoLease
  <1>3. old.lease.token = 0 /\ old.inspected = FALSE
    <2>1. old = NoItem
      BY <1>1, <1>2 DEF EvidenceInv, VersionsAreOrdered
    <2> QED
      BY <2>1 DEF NoItem, NoLease
  <1>4. /\ phases' = [phases EXCEPT ![i] = PhaseOf(new.state)]
        /\ targets' = [targets EXCEPT ![i] = new.expected.target]
        /\ new.lease.token = attempts[i] => attempts' = attempts
        /\ new.inspected = inspections[i] => inspections' = inspections
    BY <1>1, <1>2, ContractOfOne
  <1>5. /\ phases[i] = PhaseOf(old.state) /\ attempts[i] = old.lease.token
        /\ inspections[i] = old.inspected
    BY <1>1 DEF phases, attempts, inspections
  <1>6. PhaseOf(old.state) = "none" /\ PhaseOf(new.state) = "open"
    BY <1>2, Phases
  <1> HIDE DEF old, new
  <1>7. Contract!Appear(i)
    BY <1>2, <1>3, <1>4, <1>5, <1>6 DEF Contract!Appear, Contract!Open
  <1> QED
    BY <1>1, <1>7 DEF Contract!Next

\* An observation is an inspection, or evidence the contract does not see.
LEMMA ObservationRefines ==
    ASSUME EvidenceInv, NEW i \in Items,
           ObservationEffect(i, workItems[i], workItems'[i])
    PROVE  [Contract!Next]_(Contract!contractVars)
  <1> DEFINE old == workItems[i]
             new == workItems'[i]
  <1>1. TypeOK /\ old \in WorkItem
    BY DEF EvidenceInv, LifecycleInv, TypeOK, StoreTypeOK
  <1>2. /\ workItems' = [workItems EXCEPT ![i] = new]
        /\ nextFencingToken' = nextFencingToken
        /\ \/ /\ old.state = "inspecting"
              /\ \E complete \in BOOLEAN :
                    new = [old EXCEPT !.inspected = complete]
           \/ \E rec : new = [old EXCEPT !.rec = rec]
    BY DEF ObservationEffect
  <1>3. /\ inspections' = [inspections EXCEPT ![i] = new.inspected]
        /\ PhaseOf(new.state) = phases[i] => phases' = phases
        /\ new.lease.token = attempts[i] => attempts' = attempts
        /\ new.inspected = inspections[i] => inspections' = inspections
        /\ new.expected.target = targets[i] => targets' = targets
    BY <1>1, <1>2, ContractOfOne
  <1>4. /\ phases[i] = PhaseOf(old.state) /\ attempts[i] = old.lease.token
        /\ inspections[i] = old.inspected /\ targets[i] = old.expected.target
    BY DEF phases, attempts, inspections, targets
  <1> HIDE DEF old, new
  <1>5. /\ new.state = old.state /\ new.lease = old.lease
        /\ new.expected = old.expected
    BY <1>1, <1>2 DEF WorkItem
  <1>6. UNCHANGED <<phases, attempts, nextFencingToken, targets>>
    BY <1>2, <1>3, <1>4, <1>5
  <1>7. CASE /\ old.state = "inspecting"
             /\ \E complete \in BOOLEAN :
                   new = [old EXCEPT !.inspected = complete]
    <2>1. PICK complete \in BOOLEAN : new = [old EXCEPT !.inspected = complete]
      BY <1>7
    <2>2. new.inspected = complete
      BY <2>1, <1>1 DEF WorkItem
    <2>3. phases[i] = "attempt"
      BY <1>4, <1>7, Phases DEF Working
    <2>4. Contract!Inspect(i)
      BY <2>2, <2>3, <1>3, <1>6 DEF Contract!Inspect
    <2> QED
      BY <2>4 DEF Contract!Next
  <1>8. CASE \E rec : new = [old EXCEPT !.rec = rec]
    <2>1. new.inspected = old.inspected
      BY <1>1, <1>8 DEF WorkItem
    <2> QED
      BY <2>1, <1>3, <1>4, <1>6 DEF Contract!contractVars
  <1> QED
    BY <1>2, <1>7, <1>8

\* The in-memory WMS implements the contract of a work item: what any adapter
\* promises follows from what this one does, command by command.
THEOREM Implements == Spec => ImplementsContract
  <1>1. Init => Contract!Init
    <2> SUFFICES ASSUME Init PROVE Contract!Init
      OBVIOUS
    <2>1. workItems = [i \in Items |-> NoItem] /\ nextFencingToken = 0
      BY DEF Init
    <2>2. /\ NoItem.state = "initial" /\ NoItem.lease.token = 0
          /\ NoItem.inspected = FALSE /\ NoItem.expected.target = None
      BY DEF NoItem, NoLease, NoEnvelope
    <2>3. /\ phases = [i \in Items |-> "none"]
          /\ attempts = [i \in Items |-> 0]
          /\ inspections = [i \in Items |-> FALSE]
          /\ targets = [i \in Items |-> None]
      BY <2>1, <2>2, Phases DEF phases, attempts, inspections, targets
    <2> QED
      BY <2>1, <2>3 DEF Contract!Init
  <1>2. EvidenceInv /\ [Next]_vars => [Contract!Next]_(Contract!contractVars)
    <2> SUFFICES ASSUME EvidenceInv, [Next]_vars
                 PROVE  [Contract!Next]_(Contract!contractVars)
      OBVIOUS
    <2>1. TypeOK /\ EvidenceInv'
      BY EvidenceInductive DEF EvidenceInv, LifecycleInv
    <2>2. CASE UNCHANGED storeVars
      BY <2>2 DEF storeVars, Contract!contractVars, phases, attempts,
                  inspections, targets
    <2> QED
      BY <2>1, <2>2, StepTransition, CommandRefines, MaterializationRefines,
         ObservationRefines
  <1> QED
    BY <1>1, <1>2, EvidenceAlways, PTL
       DEF Spec, ImplementsContract, Contract!Spec
=============================================================================
