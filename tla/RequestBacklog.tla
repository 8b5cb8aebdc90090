--------------------------- MODULE RequestBacklog ---------------------------
(***************************************************************************)
(* The request backlog of the in-memory WMS adapter (wms/memory/requests): *)
(* requests, the index that finds semantic duplicates, request revisions,  *)
(* refinements under a Gate approval of their content, and business        *)
(* priorities copied to linked change sets and work items.  Every call     *)
(* runs under the adapter's mutex and is one step.                         *)
(*                                                                         *)
(* Data abstraction.  A topic stands for what the semantic key is computed *)
(* from (the normalized intent, interfaces and scopes), a text for the     *)
(* other fields a refinement may replace or leave (rationale, owner,       *)
(* classification, spelling).  The refinement digest is injective, so a    *)
(* content is its own digest.  None is the empty value, but for the key,   *)
(* where it is a fresh key that no later call repeats (every mutation must *)
(* carry one).  A payload outside the vocabulary is not valid.             *)
(*                                                                         *)
(* A call the Gate refuses changes nothing; a rejected one changes nothing *)
(* but the idempotency table, and is a step only under a key of Keys.      *)
(***************************************************************************)
EXTENDS Integers, FiniteSets

CONSTANTS Topics, Texts,  \* what requests are about, and say
          Subjects,       \* principals the Gate can resolve
          ChangeSets, Items, Approvals,
          Keys,           \* idempotency keys that callers may use again
          Calls,          \* the calls made, up to the expected revision
          Grants,         \* the refinements humans approve
          None,
          MaxRequests,    \* bound: requests created
          MaxRevision,    \* bound: revisions of one request
          MaxLag,         \* bound: how old a caller's revision may be
          MaxTime         \* bound: clock

RequestIds == 1..MaxRequests

Priorities == {"low", "normal", "high", "urgent"}
RefinementStates == {"unrefined", "refining", "ready-for-dimensioning", "closed"}
MutableRevisions == {"proposed", "approved"}
ChangeSetRevisions == MutableRevisions \cup {"merged"}
Operations == {"create", "refine", "update-priority", "link-change-set",
               "link-build-work-item"}
Roles == {"drafting-table", "human-maintainer"}

Content == [topic: Topics, text: Texts, related: SUBSET RequestIds,
            state: RefinementStates]

Call == [op: Operations, role: Roles, subject: Subjects,
         key: Keys \cup {None}, request: RequestIds \cup {0}, revision: Nat,
         valid: BOOLEAN, topic: Topics \cup {None}, text: Texts \cup {None},
         related: {None} \cup SUBSET RequestIds, state: RefinementStates,
         approval: Approvals \cup {None}, digest: {None} \cup Content,
         priority: Priorities, cs: ChangeSets \cup {None},
         target: ChangeSetRevisions \cup {None}, item: Items \cup {None}]

\* What a refinement approval is bound to.
Scope == [principal: Subjects, request: RequestIds, content: Content]

ASSUME BacklogAssumption ==
    /\ None \notin Topics \cup Texts \cup Subjects \cup ChangeSets \cup Items
                   \cup Approvals \cup Keys \cup Priorities
                   \cup ChangeSetRevisions \cup {"absent"}
    /\ \A s \in SUBSET RequestIds : s # None
    /\ \A c \in Content : c # None
    /\ Calls \subseteq Call
    /\ Grants \subseteq Scope
    /\ {MaxRequests, MaxRevision, MaxLag, MaxTime} \subseteq Nat

VARIABLES requests,         \* request records
          semanticRequests, \* topic -> the request about it, or 0
          nextRequestID,    \* requests created so far
          changeSets,       \* change sets: revision and priority snapshot
          itemPriority,     \* work item -> priority snapshot, or "absent"
          approvals,        \* Gate approvals of refinements
          idempotency,      \* remembered results, by key
          now,              \* the clock
          consumed,         \* history: revisions accepted calls expected
          refinements,      \* history: <<approval, request, revision>>
          linked,           \* history: <<request, change set or item>>
          answered          \* history: results given to keyed calls

keyVars == <<idempotency, answered>>
linkVars == <<changeSets, itemPriority, linked>>
refineVars == <<approvals, refinements>>
indexVars == <<semanticRequests, nextRequestID>>
vars == <<requests, indexVars, linkVars, refineVars, keyVars, now, consumed>>

Record == [content: {None} \cup Content, priority: Priorities \cup {None},
           cs: ChangeSets \cup {None}, item: Items \cup {None}, revision: Nat]
NoRequest == [content |-> None, priority |-> None, cs |-> None,
              item |-> None, revision |-> 0]

ChangeSet == [revision: ChangeSetRevisions \cup {"absent"},
              priority: Priorities \cup {None}]
NoChangeSet == [revision |-> "absent", priority |-> None]

Approval == [status: {"absent", "unused", "consumed"},
             scope: {None} \cup Scope, expires: Nat]
NoApproval == [status |-> "absent", scope |-> None, expires |-> 0]

Verdicts == {"applied", "NOT_FOUND", "STALE_REQUEST_REVISION",
             "INVALID_REQUEST", "UNAUTHORIZED_ACTION", "DUPLICATE_REQUEST",
             "IDEMPOTENCY_CONFLICT"}
Result == [verdict: Verdicts, request: RequestIds \cup {0}, revision: Nat]
Rejected(code) == [verdict |-> code, request |-> 0, revision |-> 0]
Applied(q, revision) ==
    [verdict |-> "applied", request |-> q, revision |-> revision]

Init ==
    /\ requests = [q \in RequestIds |-> NoRequest]
    /\ semanticRequests = [t \in Topics |-> 0]
    /\ nextRequestID = 0
    /\ changeSets = [s \in ChangeSets |-> NoChangeSet]
    /\ itemPriority = [i \in Items |-> "absent"]
    /\ approvals = [a \in Approvals |-> NoApproval]
    /\ idempotency = {}
    /\ now = 0
    /\ consumed = [q \in RequestIds |-> {}]
    /\ refinements = {}
    /\ linked = {}
    /\ answered = {}

-----------------------------------------------------------------------------
(* What every mutation does.                                               *)

Exists(q) == q \in RequestIds /\ requests[q].revision # 0

RoleHasWMSOperation(role, op) ==
    \/ /\ role = "drafting-table"
       /\ op \in {"create", "refine", "link-change-set",
                  "link-build-work-item"}
    \/ role = "human-maintainer" /\ op \in {"update-priority",
                                            "link-change-set"}

Enters(c) ==
    /\ RoleHasWMSOperation(c.role, c.op)
    /\ \A e \in idempotency : e.key # c.key

rememberIdempotency(c, result) ==
    IF c.key = None THEN UNCHANGED keyVars
    ELSE /\ idempotency' = idempotency \cup
              {[key |-> c.key, call |-> c, result |-> result]}
         /\ answered' = answered \cup
              {[key |-> c.key, call |-> c, result |-> result]}

\* Mutation: the expected revision is not compared.
AnyRevision(c) == TRUE

validateRequestRevision(c) == requests[c.request].revision = c.revision

\* The target checks of every operation but create.
Targeted(c) ==
    IF ~Exists(c.request) THEN "NOT_FOUND"
    ELSE IF ~validateRequestRevision(c) THEN "STALE_REQUEST_REVISION"
    ELSE "applied"

\* Store the record at its next revision.
Commit(c, record) ==
    /\ requests[c.request].revision < MaxRevision
    /\ requests' = [requests EXCEPT
                      ![c.request] = [record EXCEPT !.revision = @ + 1]]
    /\ consumed' = [consumed EXCEPT ![c.request] = @ \cup {c.revision}]
    /\ rememberIdempotency(c, Applied(c.request, record.revision + 1))
    /\ UNCHANGED now

-----------------------------------------------------------------------------
(* Creating and refining requests.                                         *)

CreateVerdict(c) ==
    IF c.topic = None \/ c.text = None THEN "INVALID_REQUEST"
    ELSE IF semanticRequests[c.topic] # 0 THEN "DUPLICATE_REQUEST"
    ELSE "applied"

createRequest(c) ==
    LET id == nextRequestID + 1
        content == [topic |-> c.topic, text |-> c.text, related |-> {},
                    state |-> "unrefined"]
    IN  /\ c.op = "create"
        /\ nextRequestID < MaxRequests
        /\ Enters(c)
        /\ CreateVerdict(c) = "applied"
        /\ nextRequestID' = id
        /\ requests' = [requests EXCEPT
              ![id] = [NoRequest EXCEPT !.content = content, !.revision = 1]]
        /\ semanticRequests' = [semanticRequests EXCEPT ![c.topic] = id]
        /\ rememberIdempotency(c, Applied(id, 1))
        /\ UNCHANGED <<linkVars, refineVars, consumed, now>>

\* The content a refinement results in: what the payload leaves out stays.
Refined(c) ==
    LET old == requests[c.request].content
        Given(new, stored) == IF new = None THEN stored ELSE new
    IN  [topic |-> Given(c.topic, old.topic), text |-> Given(c.text, old.text),
         related |-> Given(c.related, old.related), state |-> c.state]

ValidateApproval(approval, scope) ==
    /\ approval.status = "unused"
    /\ now < approval.expires
    /\ approval.scope = scope

validateRelationships(c) ==
    IF c.related = None THEN "applied"
    ELSE IF c.request \in c.related THEN "INVALID_REQUEST"
    ELSE IF \E q \in c.related : ~Exists(q) THEN "NOT_FOUND"
    ELSE "applied"

\* Mutation: the digest the caller quotes is taken for the digest of what
\* the refinement results in.
RefineVerdictAsQuoted(c) ==
    IF Targeted(c) # "applied" THEN Targeted(c)
    ELSE IF ~c.valid THEN "INVALID_REQUEST"
    ELSE IF \/ c.approval = None \/ c.digest = None
            \/ ~ValidateApproval(approvals[c.approval],
                  [principal |-> c.subject, request |-> c.request,
                   content |-> c.digest])
      THEN "UNAUTHORIZED_ACTION"
    ELSE IF validateRelationships(c) # "applied" THEN validateRelationships(c)
    ELSE IF semanticRequests[Refined(c).topic] \notin {0, c.request}
      THEN "DUPLICATE_REQUEST"
    ELSE "applied"

RefineVerdict(c) ==
    IF Targeted(c) # "applied" THEN Targeted(c)
    ELSE IF ~c.valid THEN "INVALID_REQUEST"
    ELSE IF \/ c.approval = None \/ c.digest = None
            \/ ~ValidateApproval(approvals[c.approval],
                  [principal |-> c.subject, request |-> c.request,
                   content |-> c.digest])
      THEN "UNAUTHORIZED_ACTION"
    ELSE IF validateRelationships(c) # "applied" THEN validateRelationships(c)
    ELSE IF semanticRequests[Refined(c).topic] \notin {0, c.request}
      THEN "DUPLICATE_REQUEST"
    ELSE IF Refined(c) # c.digest THEN "UNAUTHORIZED_ACTION"
    ELSE "applied"

\* Mutation: the topic the request leaves stays in the index.
ReindexKeepsPrior(old, new, q) == [semanticRequests EXCEPT ![new] = q]

\* The index after request q moves from topic old to topic new.
Reindex(old, new, q) ==
    [t \in Topics |-> IF t = new THEN q
                      ELSE IF t = old THEN 0
                      ELSE semanticRequests[t]]

\* Mutation: the approval stays unused.
ConsumeNothing(a) == approvals

Consume(a) == [approvals EXCEPT ![a].status = "consumed"]

refineRequest(c) ==
    LET q == c.request
    IN  /\ c.op = "refine"
        /\ Enters(c)
        /\ RefineVerdict(c) = "applied"
        /\ Commit(c, [requests[q] EXCEPT !.content = Refined(c)])
        /\ semanticRequests' =
              Reindex(requests[q].content.topic, Refined(c).topic, q)
        /\ approvals' = Consume(c.approval)
        /\ refinements' = refinements \cup
              {<<c.approval, q, requests[q].revision + 1>>}
        /\ UNCHANGED <<nextRequestID, linkVars>>

-----------------------------------------------------------------------------
(* Priorities and links.                                                   *)

PriorityVerdict(c) ==
    IF Targeted(c) # "applied" THEN Targeted(c)
    ELSE IF ~c.valid THEN "INVALID_REQUEST"
    ELSE "applied"

\* Mutation: the snapshot of the linked work item is forgotten.
updatePriorityOfChangeSet(c) ==
    LET q == requests[c.request]
    IN  /\ c.op = "update-priority"
        /\ Enters(c)
        /\ PriorityVerdict(c) = "applied"
        /\ Commit(c, [q EXCEPT !.priority = c.priority])
        /\ changeSets' = IF q.cs = None THEN changeSets
              ELSE [changeSets EXCEPT ![q.cs].priority = c.priority]
        /\ UNCHANGED <<indexVars, refineVars, linked, itemPriority>>

\* The links of a request name records that exist and are never removed.
updatePriority(c) ==
    LET q == requests[c.request]
    IN  /\ c.op = "update-priority"
        /\ Enters(c)
        /\ PriorityVerdict(c) = "applied"
        /\ Commit(c, [q EXCEPT !.priority = c.priority])
        /\ changeSets' = IF q.cs = None THEN changeSets
              ELSE [changeSets EXCEPT ![q.cs].priority = c.priority]
        /\ itemPriority' = IF q.item = None THEN itemPriority
              ELSE [itemPriority EXCEPT ![q.item] = c.priority]
        /\ UNCHANGED <<indexVars, refineVars, linked>>

ChangeSetVerdict(c) ==
    IF Targeted(c) # "applied" THEN Targeted(c)
    ELSE IF c.cs = None THEN "NOT_FOUND"
    ELSE IF changeSets[c.cs].revision = "absent" THEN "NOT_FOUND"
    ELSE IF \/ requests[c.request].cs = c.cs
            \/ c.target \notin {None, changeSets[c.cs].revision}
            \/ changeSets[c.cs].revision \notin MutableRevisions
      THEN "INVALID_REQUEST"
    ELSE "applied"

linkChangeSet(c) ==
    LET q == requests[c.request]
    IN  /\ c.op = "link-change-set"
        /\ Enters(c)
        /\ ChangeSetVerdict(c) = "applied"
        /\ Commit(c, [q EXCEPT !.cs = c.cs])
        /\ changeSets' = IF q.priority = None THEN changeSets
              ELSE [changeSets EXCEPT ![c.cs].priority = q.priority]
        /\ linked' = linked \cup {<<c.request, c.cs>>}
        /\ UNCHANGED <<indexVars, refineVars, itemPriority>>

WorkItemVerdict(c) ==
    IF Targeted(c) # "applied" THEN Targeted(c)
    ELSE IF c.item = None THEN "NOT_FOUND"
    ELSE IF itemPriority[c.item] = "absent" THEN "NOT_FOUND"
    ELSE IF requests[c.request].item = c.item THEN "INVALID_REQUEST"
    ELSE "applied"

linkWorkItem(c) ==
    LET q == requests[c.request]
    IN  /\ c.op = "link-build-work-item"
        /\ Enters(c)
        /\ WorkItemVerdict(c) = "applied"
        /\ Commit(c, [q EXCEPT !.item = c.item])
        /\ itemPriority' = IF q.priority = None THEN itemPriority
              ELSE [itemPriority EXCEPT ![c.item] = q.priority]
        /\ linked' = linked \cup {<<c.request, c.item>>}
        /\ UNCHANGED <<indexVars, refineVars, changeSets>>

-----------------------------------------------------------------------------
(* Rejections and retries.                                                 *)

CallVerdict(c) ==
    CASE c.op = "create" -> CreateVerdict(c)
      [] c.op = "refine" -> RefineVerdict(c)
      [] c.op = "update-priority" -> PriorityVerdict(c)
      [] c.op = "link-change-set" -> ChangeSetVerdict(c)
      [] c.op = "link-build-work-item" -> WorkItemVerdict(c)

\* A rejection changes nothing, and is remembered like a success.
Reject(c) ==
    /\ c.key # None
    /\ Enters(c)
    /\ CallVerdict(c) # "applied"
    /\ rememberIdempotency(c, Rejected(CallVerdict(c)))
    /\ UNCHANGED <<requests, indexVars, linkVars, refineVars, now, consumed>>

\* The answer to a key that is already recorded.
checkIdempotency(c) ==
    LET entry == CHOOSE e \in idempotency : e.key = c.key
    IN  IF entry.call = c THEN entry.result
        ELSE Rejected("IDEMPOTENCY_CONFLICT")

\* A caller that lost the response sends the very same call again.
\* (Another call under a recorded key is refused and changes nothing.)
Retry(c) ==
    /\ \E e \in idempotency : e.key = c.key
    /\ answered' = answered \cup
          {[key |-> c.key, call |-> c, result |-> checkIdempotency(c)]}
    /\ UNCHANGED <<requests, indexVars, linkVars, refineVars, idempotency,
                   now, consumed>>

-----------------------------------------------------------------------------
(* The records other parts of the system create.                           *)

SeedChangeSet(s, revision, priority) ==
    /\ changeSets[s].revision = "absent"
    /\ changeSets' = [changeSets EXCEPT
          ![s] = [revision |-> revision, priority |-> priority]]
    /\ UNCHANGED <<requests, indexVars, itemPriority, linked, refineVars,
                   keyVars, now, consumed>>

\* A work item is materialized with the priority its source names.
Materialized(i, priority) ==
    /\ itemPriority[i] = "absent"
    /\ itemPriority' = [itemPriority EXCEPT ![i] = priority]
    /\ UNCHANGED <<requests, indexVars, changeSets, linked, refineVars,
                   keyVars, now, consumed>>

SeedApproval(a, scope, expires) ==
    /\ approvals[a].status = "absent"
    /\ approvals' = [approvals EXCEPT
          ![a] = [status |-> "unused", scope |-> scope, expires |-> expires]]
    /\ UNCHANGED <<requests, indexVars, linkVars, refinements, keyVars, now,
                   consumed>>

Tick ==
    /\ now < MaxTime
    /\ now' = now + 1
    /\ UNCHANGED <<requests, indexVars, linkVars, refineVars, keyVars,
                   consumed>>

-----------------------------------------------------------------------------
(* The next-state relation.  A caller expects a revision that it read at   *)
(* most MaxLag revisions ago.                                              *)

Revisions(c) ==
    IF c.request \in DOMAIN requests /\ Exists(c.request)
      THEN {v \in 1..requests[c.request].revision :
              requests[c.request].revision - v <= MaxLag}
      ELSE {0}

Execute(c) ==
    \/ createRequest(c)  \/ refineRequest(c) \/ updatePriority(c)
    \/ linkChangeSet(c)  \/ linkWorkItem(c)  \/ Reject(c)

Next ==
    \/ \E c \in Calls : \E v \in Revisions(c) :
          Execute([c EXCEPT !.revision = v])
    \/ \E a \in answered : Retry(a.call)
    \/ \E s \in ChangeSets, revision \in ChangeSetRevisions,
          priority \in {None, "normal"} : SeedChangeSet(s, revision, priority)
    \/ \E i \in Items, priority \in {None, "normal"} :
          Materialized(i, priority)
    \/ \E a \in Approvals, g \in Grants, x \in 1..(MaxTime + 1) :
          SeedApproval(a, g, x)
    \/ Tick

Spec == Init /\ [][Next]_vars

-----------------------------------------------------------------------------
(* Properties.                                                             *)

\* The maps of the adapter and their records have their types.
TypeOK ==
    /\ requests \in [RequestIds -> Record]
    /\ \A q \in RequestIds : Exists(q) => requests[q].content \in Content
    /\ semanticRequests \in [Topics -> RequestIds \cup {0}]
    /\ nextRequestID \in 0..MaxRequests
    /\ changeSets \in [ChangeSets -> ChangeSet]
    /\ itemPriority \in [Items -> Priorities \cup {None, "absent"}]
    /\ approvals \in [Approvals -> Approval]
    /\ idempotency \subseteq [key: Keys, call: Call, result: Result]
    /\ answered \subseteq [key: Keys, call: Call, result: Result]
    /\ now \in Nat
    /\ consumed \in [RequestIds -> SUBSET Nat]
    /\ refinements \subseteq Approvals \X RequestIds \X Nat
    /\ linked \subseteq RequestIds \X (ChangeSets \cup Items)

\* The semantic index finds a request under its present topic and under no
\* other, through every creation and refinement: so no two requests are
\* about the same thing, and a topic a refinement leaves is free again.
IndexIsExact ==
    \A q \in RequestIds, t \in Topics :
        semanticRequests[t] = q <=> Exists(q) /\ requests[q].content.topic = t

\* Every revision of a request was made from the one before it, by one call:
\* of two calls prepared on the same revision at most one is applied.
RevisionConsumedOnce ==
    \A q \in RequestIds : consumed[q] = 1..(requests[q].revision - 1)

\* A request's content changes only to exactly the content a human approved
\* for it, on an approval that was unused and not expired; and an approval
\* is consumed in the same step as the revision it authorizes, never by a
\* call that is rejected.
RefinedAsApproved ==
    [][/\ \A q \in RequestIds :
            /\ Exists(q)
            /\ requests'[q].content # requests[q].content
            => \E a \in Approvals :
                  /\ approvals[a].status = "unused"
                  /\ approvals'[a].status = "consumed"
                  /\ now < approvals[a].expires
                  /\ approvals[a].scope.request = q
                  /\ approvals[a].scope.content = requests'[q].content
       /\ \A a \in Approvals :
            /\ approvals[a].status = "unused"
            /\ approvals'[a].status # "unused"
            => LET q == approvals[a].scope.request
               IN  /\ requests'[q].content = approvals[a].scope.content
                   /\ requests'[q].revision = requests[q].revision + 1]_vars

\* One approval authorizes one refinement, whatever is retried or repeated
\* under another key.
ApprovalRefinesOnce ==
    \A r, s \in refinements : r[1] = s[1] => r = s

\* The priority snapshot of a change set or work item that one request only
\* was ever linked to is that request's priority, however priority updates,
\* links and materialization interleave.
PrioritySnapshotAgrees ==
    \A q \in RequestIds :
        LET r == requests[q]
            Alone(x) == \A l \in linked : l[2] = x => l[1] = q
        IN  r.priority # None =>
              /\ r.cs # None /\ Alone(r.cs) =>
                   changeSets[r.cs].priority = r.priority
              /\ r.item # None /\ Alone(r.item) =>
                   itemPriority[r.item] = r.priority

=============================================================================
