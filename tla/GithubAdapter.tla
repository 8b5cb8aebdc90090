--------------------------- MODULE GithubAdapter ---------------------------
(***************************************************************************)
(* The GitHub WMS adapter (wms/github): requests and build work items are  *)
(* JSON documents in the bodies of issues; everything else the adapter     *)
(* knows is an index of the running process.  A call runs to its end under *)
(* the coordinator's lock, so with one process (the deployment             *)
(* InProcessCoordinator is documented for) a call is one step.  What a     *)
(* step meets on the network is part of it: a read may fail, a write may   *)
(* fail, or take effect and lose its answer.  Restart starts a new process *)
(* on the same issues.  A process that dies between two writes of a call   *)
(* leaves what the step with a lost first write and a Restart leave.       *)
(*                                                                         *)
(* Data abstraction.  Issue numbers are positions in one sequence per      *)
(* label, and the two maps from identifiers to numbers are left out: the   *)
(* identifier of a document never changes, so looking it up in the map or  *)
(* scanning for it gives the same document.  A content stands for the      *)
(* fields that make up a request's semantic key and refinement digest.     *)
(* The clock stands still: this adapter never renews or recovers a lease.  *)
(* The Gate accepts the calls modelled here.                               *)
(***************************************************************************)
EXTENDS ValidationRules, Sequences

CONSTANTS Keys,          \* idempotency keys
          MKeys,         \* materialization keys
          Contents,      \* semantic contents of requests
          Priorities,    \* business priorities
          ApprovalScope, \* approval -> the request and content it approves
          Workloads,     \* sets of calls that callers make and repeat
          Seeds,         \* change-set states the drafting table reports
          MaxRequests,   \* bound: request identifiers
          MaxTokens      \* bound: fencing tokens of one process

RequestIds == 1..MaxRequests

\* A call: fields an operation does not read hold None, 0 or NoSource.
Call == [op: {"create", "refine", "update-priority", "link-change-set",
              "link-work-item", "materialize", "claim"},
         role: Roles, subject: Subjects, key: Keys,
         req: RequestIds \cup {0}, rev: Nat, content: Contents \cup {None},
         related: RequestIds \cup {0}, approval: Approvals \cup {None},
         prio: Priorities \cup {None}, cs: ChangeSets \cup {None},
         item: Items \cup {None}, mkey: MKeys \cup {None}, source: Source,
         expState: States, expVersion: Nat]

ASSUME GithubAssumption ==
    /\ \A W \in Workloads : W \subseteq Call
    /\ ApprovalScope \in [Approvals -> [req: RequestIds, content: Contents]]
    /\ Seeds \subseteq [ChangeSets -> [rev: {"proposed", "approved", "merged"},
                                       prio: Priorities \cup {None}]]
    /\ MaxRequests \in Nat /\ MaxTokens \in Nat
    /\ None \notin Keys \cup MKeys \cup Contents \cup Priorities

VARIABLES calls,           \* the calls of this behaviour's callers
          requestIssues,   \* durable: documents of the request label
          workItemIssues,  \* durable: documents of the work-item label
          idx,             \* the indexes of the running process
          effects,         \* history: durable effects of each call, up to 2
          reply            \* the last call and its answer

issueVars == <<calls, requestIssues, workItemIssues, effects>>
vars == <<issueVars, idx, reply>>

-----------------------------------------------------------------------------
(* Documents and indexes.                                                  *)

\* The request fingerprint is all of a call but its key.
requestFingerprint(c) == [c EXCEPT !.key = None]

\* The binding a write leaves with the revision it wrote.
lastMutationRecord(c, token) ==
    [key |-> c.key, call |-> requestFingerprint(c), token |-> token]

newIndexes ==
    [idempotency |-> {}, pending |-> [k \in Keys |-> 0],
     semantic |-> [x \in Contents |-> 0], materialized |-> {},
     changeSets |-> [s \in ChangeSets |-> [rev |-> "absent", prio |-> None]],
     approvals |-> [a \in Approvals |-> "absent"],
     requestSeq |-> 0, fenceSeq |-> 0, requestsHydrated |-> FALSE]

newResult(code, id, rev, token) ==
    [code |-> code, id |-> id, rev |-> rev, token |-> token,
     replayed |-> FALSE]

rejectedResult(code) == newResult(code, 0, 0, 0)

markReplayed(result) == [result EXCEPT !.replayed = TRUE]

Determinate(result) == result.code \notin {"UNKNOWN_MUTATION",
                                           "WMS_UNAVAILABLE"}

NoReply == [call |-> None, result |-> rejectedResult("none")]

Init ==
    /\ calls \in Workloads
    /\ requestIssues = <<>>
    /\ workItemIssues = <<>>
    /\ idx = newIndexes
    /\ effects = [c \in calls |-> 0]
    /\ reply = NoReply

-----------------------------------------------------------------------------
(* The issue client.  Reads and updates are retried by RetryingClient, so  *)
(* FALSE, and every delivery but "ok", is what is left after the attempts: *)
(* "lost" took effect, "dropped" did not, both end in ErrTransient;        *)
(* "failed" is any other error.                                            *)

Deliveries == {"ok", "lost", "dropped", "failed"}

\* What a call meets.  The first fault ends a call, so one is enough, but
\* for a create whose answer was lost and that cannot be looked up either.
Calm == [scan |-> TRUE, load |-> TRUE, link |-> TRUE, rescan |-> TRUE,
         first |-> "ok", write |-> "ok"]

Networks ==
    {Calm, [Calm EXCEPT !.write = "lost", !.rescan = FALSE]}
      \cup {[Calm EXCEPT ![f] = FALSE] : f \in {"scan", "load", "link"}}
      \cup {[Calm EXCEPT ![f] = d] : f \in {"first", "write"},
                                     d \in Deliveries \ {"ok"}}

Durable(delivery) == delivery \in {"ok", "lost"}

\* The code of a call whose update ended in this error.
UpdateRejection(delivery) ==
    IF delivery = "failed" THEN "WMS_UNAVAILABLE" ELSE "UNKNOWN_MUTATION"

\* First match: what a scan of one label in issue order returns.
First(n, S) == n \in S /\ \A m \in S : n <= m

RequestNumbers(id) == {n \in DOMAIN requestIssues : requestIssues[n].id = id}

WorkItemNumbers(id) ==
    {n \in DOMAIN workItemIssues : /\ ~workItemIssues[n].omitted
                                   /\ workItemIssues[n].id = id}

findRequestByID(id) == CHOOSE n \in RequestNumbers(id) :
                           First(n, RequestNumbers(id))

findWorkItemByID(id) == CHOOSE n \in WorkItemNumbers(id) :
                            First(n, WorkItemNumbers(id))

BindingNumbers(mkey) == {n \in DOMAIN workItemIssues :
                            workItemIssues[n].mkey = mkey}

findMaterializationBinding(mkey) ==
    CHOOSE n \in BindingNumbers(mkey) : First(n, BindingNumbers(mkey))

\* The indexes after a scan of the request label; present entries stay.
hydrateRequestsLocked(i) ==
    LET holders(x) == {n \in DOMAIN requestIssues :
                           requestIssues[n].content = x}
        ids == {requestIssues[n].id : n \in DOMAIN requestIssues}
    IN  [i EXCEPT
           !.semantic = [x \in Contents |->
               IF i.semantic[x] # 0 \/ holders(x) = {} THEN i.semantic[x]
               ELSE requestIssues[CHOOSE n \in holders(x) :
                                      First(n, holders(x))].id],
           !.requestSeq = CHOOSE m \in ids \cup {@} :
                              \A n \in ids \cup {@} : n <= m]

\* The cache entry for a durable binding: its source and replay envelope.
materializationEntryForBinding(n) ==
    LET doc == workItemIssues[n]
    IN  [mkey |-> doc.mkey, source |-> doc.source,
         result |-> IF doc.omitted THEN newResult("omitted", 0, 0, 0)
                    ELSE markReplayed(newResult("applied", doc.id,
                                                 doc.version, 0))]

hydrateWorkItemsLocked(i) ==
    LET missing == {workItemIssues[n].mkey : n \in DOMAIN workItemIssues}
                     \ {e.mkey : e \in i.materialized}
    IN  [i EXCEPT !.materialized = @ \cup
           {materializationEntryForBinding(findMaterializationBinding(k)) :
                k \in missing}]

-----------------------------------------------------------------------------
(* How a call ends.  An outcome holds the documents, the indexes and the   *)
(* result the call leaves, and whether its own write took effect.          *)

Outcome(requests, items, i, effect, result) ==
    [requests |-> requests, items |-> items, idx |-> i, effect |-> effect,
     result |-> result]

Refuse(i, code) ==
    Outcome(requestIssues, workItemIssues, i, FALSE, rejectedResult(code))

Return(i, result) ==
    Outcome(requestIssues, workItemIssues, i, FALSE, result)

shouldRememberIdempotency(result) == Determinate(result)

rememberIdempotencyLocked(i, c, result) ==
    [i EXCEPT !.idempotency =
        {e \in @ : e.key # c.key} \cup
        {[key |-> c.key, call |-> requestFingerprint(c), result |-> result]}]

Finish(c, out) ==
    /\ requestIssues' = out.requests
    /\ workItemIssues' = out.items
    /\ idx' = out.idx
    /\ effects' = IF out.effect /\ effects[c] < 2
                    THEN [effects EXCEPT ![c] = @ + 1] ELSE effects
    /\ reply' = [call |-> c, result |-> out.result]
    /\ UNCHANGED calls

\* A result that may be replayed later is kept under the key.
Remembering(c, out) ==
    IF shouldRememberIdempotency(out.result)
      THEN [out EXCEPT !.idx = rememberIdempotencyLocked(@, c, out.result)]
      ELSE out

Entries(c) == {e \in idx.idempotency : e.key = c.key}

\* The answer of a key that this process has seen before.
checkIdempotencyLocked(c, i) ==
    LET entry == CHOOSE e \in Entries(c) : TRUE
    IN  IF entry.call = requestFingerprint(c)
          THEN Return(i, markReplayed(entry.result))
          ELSE Refuse(i, "IDEMPOTENCY_CONFLICT")

-----------------------------------------------------------------------------
(* request.create                                                          *)

NewRequest(c, id) ==
    [id |-> id, content |-> c.content, rev |-> 1, prio |-> None, cs |-> None,
     item |-> None, createKey |-> c.key, createCall |-> requestFingerprint(c),
     consumed |-> {}, last |-> None]

persistNewRequestLocked(c, w, i) ==
    LET id == IF i.pending[c.key] # 0 THEN i.pending[c.key]
                                      ELSE i.requestSeq + 1
        seq == IF i.pending[c.key] # 0 THEN i.requestSeq ELSE id
        docs == IF Durable(w.write) THEN Append(requestIssues, NewRequest(c, id))
                                    ELSE requestIssues
        bound == [i EXCEPT !.requestSeq = seq, !.pending[c.key] = 0,
                           !.semantic[c.content] = id]
        reserved == [i EXCEPT !.requestSeq = seq, !.pending[c.key] = id]
    IN  IF w.write = "failed"
          THEN Refuse([i EXCEPT !.requestSeq = seq], "WMS_UNAVAILABLE")
        ELSE IF w.write = "ok" \/ (w.write = "lost" /\ w.rescan)
          THEN Outcome(docs, workItemIssues, bound, TRUE,
                       newResult("applied", id, 1, 0))
        ELSE Outcome(docs, workItemIssues, reserved, w.write = "lost",
                     rejectedResult("UNKNOWN_MUTATION"))

\* The issues that record this creation key.
DurableCreates(c) ==
    {n \in DOMAIN requestIssues : requestIssues[n].createKey = c.key}

replayDurableRequestCreate(c, i) ==
    LET doc == requestIssues[CHOOSE n \in DurableCreates(c) : TRUE]
    IN  IF doc.createCall # requestFingerprint(c)
          THEN Refuse(i, "IDEMPOTENCY_CONFLICT")
          ELSE Return([i EXCEPT !.pending[c.key] = 0],
                      markReplayed(newResult("applied", doc.id, doc.rev, 0)))

\* A request that appeared under the identifier reserved for this key.
reconcilePendingRequestCreate(c, w, i) ==
    LET id == i.pending[c.key]
    IN  IF ~w.load THEN Refuse(i, "WMS_UNAVAILABLE")
        ELSE Return([i EXCEPT !.pending[c.key] = 0, !.semantic[c.content] = id],
                    newResult("applied", id,
                              requestIssues[findRequestByID(id)].rev, 0))

createRequestLocked(c, w) ==
    LET i == hydrateRequestsLocked(idx)
    IN  IF c.content = None THEN Refuse(idx, "INVALID_REQUEST")
        ELSE IF ~w.scan THEN Refuse(idx, "WMS_UNAVAILABLE")
        ELSE IF DurableCreates(c) # {} THEN replayDurableRequestCreate(c, i)
        ELSE IF /\ i.pending[c.key] # 0
                /\ ~w.load \/ RequestNumbers(i.pending[c.key]) # {}
          THEN reconcilePendingRequestCreate(c, w, i)
        ELSE IF i.semantic[c.content] # 0 THEN Refuse(i, "DUPLICATE_REQUEST")
        ELSE persistNewRequestLocked(c, w, i)

-----------------------------------------------------------------------------
(* Mutations of a request: load, compare the revision, check, write.       *)

\* Mutation: a revision that moved is stale, whoever moved it.
StaleWhoeverMoved(c, doc, i) == Refuse(i, "STALE_REQUEST_REVISION")

\* The expected revision is not the current one: the retry of the mutation
\* the document records last, or a stale call.
resolveRequestRevision(c, doc, i) ==
    IF doc.last # None /\ doc.last = lastMutationRecord(c, 0)
      THEN Return(i, markReplayed(newResult("applied", doc.id, doc.rev, 0)))
      ELSE Refuse(i, "STALE_REQUEST_REVISION")

\* One body write: the revision, the binding and whatever changed.
updateRequestIssue(c, doc) ==
    [requestIssues EXCEPT ![findRequestByID(c.req)] =
        [doc EXCEPT !.rev = @ + 1, !.last = lastMutationRecord(c, 0)]]

\* A request write ends the call; after says what the process does when the
\* write was answered, and items are the work items written before it.
WriteRequest(c, w, doc, items, i, after) ==
    LET docs == IF Durable(w.write) THEN updateRequestIssue(c, doc)
                                    ELSE requestIssues
    IN  IF w.write = "ok"
          THEN Outcome(docs, items, after, TRUE,
                       newResult("applied", doc.id, doc.rev + 1, 0))
          ELSE Outcome(docs, items, i, w.write = "lost",
                       rejectedResult(UpdateRejection(w.write)))

\* Mutation: the consumed approval is kept in the process only.
ConsumedInProcess(doc, a) == doc

\* The approval is consumed in the write that applies it.
Consume(doc, a) == [doc EXCEPT !.consumed = @ \cup {a}]

validateRelationshipsLocked(c, w) ==
    IF c.related = 0 THEN "valid"
    ELSE IF c.related = c.req THEN "INVALID_REQUEST"
    ELSE IF ~w.link THEN "WMS_UNAVAILABLE"
    ELSE IF RequestNumbers(c.related) = {} THEN "NOT_FOUND"
    ELSE "valid"

refineRequestLocked(c, w, doc, i) ==
    LET related == validateRelationshipsLocked(c, w)
        scope == ApprovalScope[c.approval]
        refined == Consume([doc EXCEPT !.content = c.content], c.approval)
        after == [i EXCEPT
                    !.semantic = [x \in Contents |->
                        IF x = c.content THEN doc.id
                        ELSE IF x = doc.content THEN 0 ELSE @[x]],
                    !.approvals[c.approval] = "consumed"]
    IN  IF \/ c.approval = None \/ c.approval \in doc.consumed
           \/ i.approvals[c.approval] # "unused"
           \/ scope.req # c.req
          THEN Refuse(i, "UNAUTHORIZED_ACTION")
        ELSE IF related # "valid" THEN Refuse(i, related)
        ELSE IF i.semantic[c.content] \notin {0, doc.id}
          THEN Refuse(i, "DUPLICATE_REQUEST")
        ELSE IF scope.content # c.content THEN Refuse(i, "UNAUTHORIZED_ACTION")
        ELSE WriteRequest(c, w, refined, workItemIssues, i, after)

\* The linked work item with its new priority and links.
updateWorkItemIssue(id, prio, doc) ==
    LET n == findWorkItemByID(id)
        item == workItemIssues[n]
    IN  [workItemIssues EXCEPT ![n] =
           [item EXCEPT !.prio = IF prio = None THEN @ ELSE prio,
                        !.request = doc.id,
                        !.cs = IF doc.cs = None THEN @ ELSE doc.cs]]

\* Mutation: the failure of the first of two writes is not looked at.
WriteBothRegardless(c, w, id, prio, doc, i) ==
    LET items == IF Durable(w.first) THEN updateWorkItemIssue(id, prio, doc)
                                     ELSE workItemIssues
    IN  WriteRequest(c, w, doc, items, i, i)

\* The linked work item is written first; the request only after it.
WriteBoth(c, w, id, prio, doc, i) ==
    LET items == IF Durable(w.first) THEN updateWorkItemIssue(id, prio, doc)
                                     ELSE workItemIssues
    IN  IF w.first # "ok"
          THEN Outcome(requestIssues, items, i, FALSE,
                       rejectedResult(UpdateRejection(w.first)))
          ELSE WriteRequest(c, w, doc, items, i, i)

\* A linked change set takes the priority at once and keeps it even when a
\* later write of the call fails.
updatePriorityLocked(c, w, doc, i) ==
    LET linked == IF doc.cs = None THEN i
                  ELSE [i EXCEPT !.changeSets[doc.cs].prio = c.prio]
        moved == [doc EXCEPT !.prio = c.prio]
    IN  IF c.prio = None THEN Refuse(i, "INVALID_REQUEST")
        ELSE IF doc.cs # None /\ i.changeSets[doc.cs].rev = "absent"
          THEN Refuse(i, "NOT_FOUND")
        ELSE IF doc.item = None
          THEN WriteRequest(c, w, moved, workItemIssues, linked, linked)
        ELSE IF ~w.link THEN Refuse(linked, "WMS_UNAVAILABLE")
        ELSE IF WorkItemNumbers(doc.item) = {} THEN Refuse(linked, "NOT_FOUND")
        ELSE WriteBoth(c, w, doc.item, c.prio, moved, linked)

linkChangeSetLocked(c, w, doc, i) ==
    LET changeSet == i.changeSets[c.cs]
        linked == [doc EXCEPT !.cs = c.cs,
                              !.prio = IF changeSet.prio = None THEN @
                                       ELSE changeSet.prio]
    IN  IF c.cs = None \/ changeSet.rev = "absent" THEN Refuse(i, "NOT_FOUND")
        ELSE IF doc.cs = c.cs \/ changeSet.rev \notin {"proposed", "approved"}
          THEN Refuse(i, "INVALID_REQUEST")
        ELSE WriteRequest(c, w, linked, workItemIssues, i, i)

linkWorkItemLocked(c, w, doc, i) ==
    IF ~w.link THEN Refuse(i, "WMS_UNAVAILABLE")
    ELSE IF WorkItemNumbers(c.item) = {} THEN Refuse(i, "NOT_FOUND")
    ELSE IF doc.item = c.item THEN Refuse(i, "INVALID_REQUEST")
    ELSE WriteBoth(c, w, c.item, doc.prio, [doc EXCEPT !.item = c.item], i)

\* loadRequest, and the revision check every mutation begins with.
MutateLoaded(c, w, i) ==
    IF ~w.load THEN Refuse(i, "WMS_UNAVAILABLE")
    ELSE IF RequestNumbers(c.req) = {} THEN Refuse(i, "NOT_FOUND")
    ELSE LET doc == requestIssues[findRequestByID(c.req)]
         IN  IF c.rev # doc.rev THEN resolveRequestRevision(c, doc, i)
             ELSE IF c.op = "refine" THEN refineRequestLocked(c, w, doc, i)
             ELSE IF c.op = "update-priority"
               THEN updatePriorityLocked(c, w, doc, i)
             ELSE IF c.op = "link-change-set"
               THEN linkChangeSetLocked(c, w, doc, i)
             ELSE linkWorkItemLocked(c, w, doc, i)

\* The first request operation of a process other than create scans.
ensureRequestsHydratedLocked(i) ==
    IF i.requestsHydrated THEN i
    ELSE [hydrateRequestsLocked(i) EXCEPT !.requestsHydrated = TRUE]

\* Bound: no call needs an identifier beyond MaxRequests.
CreateWithinBound(c) ==
    \/ hydrateRequestsLocked(idx).requestSeq < MaxRequests
    \/ Entries(c) # {} \/ DurableCreates(c) # {} \/ idx.pending[c.key] # 0

CreateRequest(c, w) ==
    /\ c.op = "create"
    /\ CreateWithinBound(c)
    /\ Finish(c, IF Entries(c) # {} THEN checkIdempotencyLocked(c, idx)
                 ELSE Remembering(c, createRequestLocked(c, w)))

MutateRequest(c, w) ==
    LET i == ensureRequestsHydratedLocked(idx)
    IN  /\ c.op \in {"refine", "update-priority", "link-change-set",
                     "link-work-item"}
        /\ Finish(c, IF ~idx.requestsHydrated /\ ~w.scan
                       THEN Refuse(idx, "WMS_UNAVAILABLE")
                     ELSE IF Entries(c) # {} THEN checkIdempotencyLocked(c, i)
                     ELSE Remembering(c, MutateLoaded(c, w, i)))
    
-----------------------------------------------------------------------------
(* build-work-item.materialize and claim.                                  *)

\* Mutation: a materialization key is looked up in the process only.
BoundInProcess(mkey, i) == {}

\* Bindings of a key that only the issues know.
DurableBindings(mkey, i) ==
    IF \E e \in i.materialized : e.mkey = mkey THEN {}
    ELSE BindingNumbers(mkey)

\* The indexes once the binding of a key has been looked for.
loadMaterializationEntryLocked(mkey, i) ==
    IF DurableBindings(mkey, i) = {} THEN i
    ELSE [i EXCEPT !.materialized = @ \cup
            {materializationEntryForBinding(findMaterializationBinding(mkey))}]

checkMaterializationLocked(c, i) ==
    LET entry == CHOOSE e \in i.materialized : e.mkey = c.mkey
    IN  IF c.source.item # c.item \/ c.source.defect = "tested-candidate"
          THEN Refuse(i, "PRECONDITION_FAILED")
        ELSE IF SourceFingerprint(c.source) # entry.source
          THEN Refuse(i, "IDEMPOTENCY_CONFLICT")
        ELSE Return(i, markReplayed(entry.result))

liveDependenciesLocked(deps) ==
    {d \in deps : /\ WorkItemNumbers(d) # {}
                  /\ workItemIssues[findWorkItemByID(d)].state = "completed"}

NoItem == [state |-> "initial", version |-> 0, lease |-> NoLease]

CurrentItem(id) == IF WorkItemNumbers(id) = {} THEN NoItem
                   ELSE workItemIssues[findWorkItemByID(id)]

\* The document an allowed or omitted materialization creates.
NewWorkItem(c, omitted) ==
    LET done == liveDependenciesLocked(c.source.deps)
    IN  [omitted |-> omitted, id |-> c.item, mkey |-> c.mkey,
         source |-> SourceFingerprint(c.source),
         state |-> MaterializedState(c.source, done), version |-> 1,
         deps |-> c.source.deps, done |-> done,
         readiness |-> c.source.readiness, lease |-> NoLease, prio |-> None,
         request |-> 0, cs |-> None, lastClaim |-> None]

\* The document is created once; an ambiguous create is looked up by its
\* key and otherwise left unknown.
applyMaterialization(c, w, i, omitted) ==
    LET doc == NewWorkItem(c, omitted)
        docs == IF Durable(w.write) THEN Append(workItemIssues, doc)
                                    ELSE workItemIssues
        result == IF omitted THEN newResult("omitted", 0, 0, 0)
                  ELSE newResult("applied", c.item, 1, 0)
        bound == [i EXCEPT !.materialized = @ \cup
                    {[mkey |-> c.mkey, source |-> doc.source,
                      result |-> result]}]
    IN  IF w.write = "failed" THEN Refuse(i, "WMS_UNAVAILABLE")
        ELSE IF w.write = "ok" \/ (w.write = "lost" /\ w.rescan)
          THEN Outcome(requestIssues, docs, bound, TRUE, result)
        ELSE Outcome(requestIssues, docs, i, w.write = "lost",
                     rejectedResult("UNKNOWN_MUTATION"))

materializeLocked(c, w) ==
    LET i == loadMaterializationEntryLocked(c.mkey, idx)
        verdict == Evaluate(c, CurrentItem(c.item), [now |-> 0])
    IN  IF \E e \in i.materialized : e.mkey = c.mkey
          THEN checkMaterializationLocked(c, i)
        ELSE IF verdict = "allowed" THEN applyMaterialization(c, w, i, FALSE)
        ELSE IF verdict = "omitted" THEN applyMaterialization(c, w, i, TRUE)
        ELSE Refuse(i, verdict)

\* The target and the dependencies are read before the key is looked at;
\* what the lookup of the materialization key answers is remembered, even
\* when the lookup itself failed.
Materialize(c, w) ==
    /\ c.op = "materialize"
    /\ Finish(c, IF ~w.load \/ (c.source.deps # {} /\ ~w.link)
                   THEN Refuse(idx, "WMS_UNAVAILABLE")
                 ELSE IF Entries(c) # {} THEN checkIdempotencyLocked(c, idx)
                 ELSE IF /\ \A e \in idx.materialized : e.mkey # c.mkey
                         /\ ~w.scan
                   THEN LET out == Refuse(idx, "WMS_UNAVAILABLE")
                        IN  [out EXCEPT !.idx = rememberIdempotencyLocked(
                                                  idx, c, out.result)]
                 ELSE Remembering(c, materializeLocked(c, w)))

\* The claim that the issue records is this very call.
IsRecordedClaim(c, doc) ==
    /\ doc.lastClaim # None
    /\ doc.lastClaim = lastMutationRecord(c, doc.lastClaim.token)

reconcileAppliedClaim(c, doc) ==
    Return(idx, markReplayed(newResult("applied", doc.id, doc.version,
                                       doc.lastClaim.token)))

\* The candidate token is consumed by the decision, before the write.
peekFenceTokenLocked == idx.fenceSeq + 1

startLease(c) ==
    [owner |-> c.subject, token |-> peekFenceTokenLocked, expires |-> 1]

applyClaim(c, w) ==
    LET n == findWorkItemByID(c.item)
        item == workItemIssues[n]
        token == peekFenceTokenLocked
        docs == IF ~Durable(w.write) THEN workItemIssues
                ELSE [workItemIssues EXCEPT ![n] =
                        [item EXCEPT !.state = "building", !.version = @ + 1,
                                     !.lease = startLease(c),
                                     !.lastClaim = lastMutationRecord(c, token)]]
        i == [idx EXCEPT !.fenceSeq = token]
    IN  IF w.write = "ok"
          THEN Outcome(requestIssues, docs, i, TRUE,
                       newResult("applied", c.item, docs[n].version, token))
          ELSE Outcome(requestIssues, docs, i, w.write = "lost",
                       rejectedResult(UpdateRejection(w.write)))

claimLocked(c, w) ==
    LET doc == CurrentItem(c.item)
        verdict == Evaluate(c, doc, [now |-> 0])
    IN  IF doc.state = "initial" THEN Refuse(idx, verdict)
        ELSE IF ~w.link THEN Refuse(idx, "WMS_UNAVAILABLE")
        ELSE IF IsRecordedClaim(c, doc) THEN reconcileAppliedClaim(c, doc)
        ELSE IF verdict = "allowed" THEN applyClaim(c, w)
        ELSE Refuse(idx, verdict)

Claim(c, w) ==
    LET out == IF ~w.load THEN Refuse(idx, "WMS_UNAVAILABLE")
               ELSE IF Entries(c) # {} THEN checkIdempotencyLocked(c, idx)
               ELSE Remembering(c, claimLocked(c, w))
    IN  /\ c.op = "claim"
        /\ idx.fenceSeq < MaxTokens
        /\ Finish(c, out)

-----------------------------------------------------------------------------
(* Reads, the seeded Gate state, and a new process.                        *)

\* Queries change nothing but the caches of a process that has not scanned.
QueryRequests ==
    /\ ~idx.requestsHydrated
    /\ idx' = ensureRequestsHydratedLocked(idx)
    /\ UNCHANGED issueVars /\ reply' = NoReply

QueryWorkItems ==
    /\ idx' = hydrateWorkItemsLocked(idx)
    /\ idx' # idx
    /\ UNCHANGED issueVars /\ reply' = NoReply

SeedApproval(a) ==
    /\ idx.approvals[a] = "absent"
    /\ idx' = [idx EXCEPT !.approvals[a] = "unused"]
    /\ UNCHANGED issueVars /\ reply' = NoReply

SeedChangeSet(s, seed) ==
    /\ idx.changeSets[s].rev = "absent"
    /\ idx' = [idx EXCEPT !.changeSets[s] = seed[s]]
    /\ UNCHANGED issueVars /\ reply' = NoReply

Restart ==
    /\ idx # newIndexes
    /\ idx' = newIndexes
    /\ reply' = NoReply
    /\ UNCHANGED issueVars

Execute(c, w) ==
    \/ CreateRequest(c, w)
    \/ MutateRequest(c, w)
    \/ Materialize(c, w)
    \/ Claim(c, w)

Next ==
    \/ \E c \in calls, w \in Networks : Execute(c, w)
    \/ QueryRequests
    \/ QueryWorkItems
    \/ \E c \in calls : c.approval # None /\ SeedApproval(c.approval)
    \/ \E c \in calls, seed \in Seeds : c.cs # None /\ SeedChangeSet(c.cs, seed)
    \/ Restart

Spec == Init /\ [][Next]_vars

-----------------------------------------------------------------------------
(* Properties.                                                             *)

\* Type correctness: documents and indexes refer to calls, keys and records
\* of the right kind.
TypeOK ==
    /\ \A n \in DOMAIN requestIssues :
         /\ requestIssues[n].id \in RequestIds
         /\ requestIssues[n].content \in Contents
         /\ requestIssues[n].item \in Items \cup {None}
         /\ requestIssues[n].cs \in ChangeSets \cup {None}
    /\ \A n \in DOMAIN workItemIssues :
         /\ workItemIssues[n].state \in States
         /\ workItemIssues[n].lease \in Lease
         /\ workItemIssues[n].request \in RequestIds \cup {0}
    /\ \A e \in idx.idempotency : e.key \in Keys
    /\ idx.requestSeq \in 0..MaxRequests /\ idx.fenceSeq \in 0..MaxTokens
    /\ effects \in [calls -> 0..2]

\* Lost answers, outages, restarts and retries never leave two issues for
\* one request identifier, creation key, work item or materialization key.
OneIssuePerIdentity ==
    /\ \A m, n \in DOMAIN requestIssues :
         m # n => /\ requestIssues[m].id # requestIssues[n].id
                  /\ requestIssues[m].createKey # requestIssues[n].createKey
    /\ \A m, n \in DOMAIN workItemIssues :
         m # n => /\ workItemIssues[m].mkey # workItemIssues[n].mkey
                  /\ \/ workItemIssues[m].omitted \/ workItemIssues[n].omitted
                     \/ workItemIssues[m].id # workItemIssues[n].id

\* A Gate approval authorizes at most one durable refinement, although the
\* process that saw it consumed may be gone or may have missed the answer.
ApprovalAppliedOnce ==
    \A c, d \in calls :
        /\ c.op = "refine" /\ d.op = "refine" /\ c.approval = d.approval
        /\ effects[c] > 0 /\ effects[d] > 0
        => c = d /\ effects[c] = 1

\* The issue records this call as the one that made it or wrote it last.  A
\* binding does not name its call: it is one of every call that has its key
\* and source and that the rules let make it.
Recorded(c) ==
    \/ c.op = "create" /\ \E n \in DurableCreates(c) :
                              requestIssues[n].createCall = requestFingerprint(c)
    \/ /\ c.op = "materialize"
       /\ \E n \in BindingNumbers(c.mkey) :
              workItemIssues[n].source = SourceFingerprint(c.source)
       /\ Evaluate(c, NoItem, [now |-> 0]) \in {"allowed", "omitted"}
    \/ /\ c.op = "claim" /\ WorkItemNumbers(c.item) # {}
       /\ IsRecordedClaim(c, CurrentItem(c.item))
    \/ \E n \in RequestNumbers(c.req) :
           /\ requestIssues[n].last # None
           /\ requestIssues[n].last = lastMutationRecord(c, 0)

\* A caller that repeats a call whose effect the issue records (the answer
\* was lost, or the adapter restarted) learns that it was applied or that
\* the store cannot be read; it is never told that the call was refused.
\* Keys used for two different calls are left out: a new process remembers
\* the conflict of the second call under the key and then refuses the first.
RetryIsRecognized ==
    LET c == reply.call
    IN  /\ c # None
        /\ \A d \in calls : d.key = c.key => d = c
        /\ Recorded(c)
        /\ Determinate(reply.result)
        => reply.result.code \in {"applied", "omitted"}

\* The calls that change the priority or the links of a request.
Linking == {"update-priority", "link-change-set", "link-work-item"}

\* This call was answered "applied" just now, and not from memory.
JustAnswered(c) ==
    /\ reply.call = c /\ c # None
    /\ reply.result.code = "applied" /\ ~reply.result.replayed

\* The work item a request is linked to has the request's priority, if any.
ItemCarries(doc) ==
    doc.item # None /\ doc.prio # None =>
        CurrentItem(doc.item).prio = doc.prio

\* An answer "applied" stands for every record the call writes, although
\* they are written one after the other without a transaction: update of the
\* priority and link of a work item for the work item and the request, the
\* update for the change set too, and link of a change set for the request,
\* which takes over the priority of the set.  The last call does not write
\* the work item the request is linked to, which keeps its priority: the item
\* is left out of what that call promises.
AppliedMeansAllWritten ==
    LET c == reply.call
    IN  JustAnswered(c) /\ c.op \in Linking =>
          \A n \in RequestNumbers(c.req) :
            LET doc == requestIssues[n]
                set == idx.changeSets[doc.cs]
            IN  /\ c.op # "link-change-set" =>
                     /\ doc.item # None =>
                            CurrentItem(doc.item).request = doc.id
                     /\ ItemCarries(doc)
                /\ c.op = "update-priority" /\ doc.cs # None =>
                     set.prio = doc.prio
                /\ c.op = "link-change-set" =>
                     doc.cs = c.cs /\ set.prio \in {None, doc.prio}

\* The durable store stays well formed whatever is lost or repeated: its
\* documents have their types, and no identity has two issues.
StoreIsSound == TypeOK /\ OneIssuePerIdentity

\* No outage is remembered under an idempotency key, so that a retry after
\* it can use the same key.  (Fails: Materialize remembers a failed lookup.)
OutageIsNotRemembered ==
    \A e \in idx.idempotency : Determinate(e.result)
=============================================================================
