------------------------ MODULE GithubAdapterProofs ------------------------
(***************************************************************************)
(* The GitHub adapter of GithubAdapter, proved for every value of the      *)
(* constants.  An outcome leaves the issues alone, appends a request,      *)
(* rewrites a request (and before it the linked work item), appends a work *)
(* item or records a claim; one lemma per operation says which and what    *)
(* the operation has checked before, and the properties follow from that.  *)
(***************************************************************************)
EXTENDS GithubAdapter, WellFoundedInduction, TLAPS

-----------------------------------------------------------------------------
(* Sequences of documents.                                                 *)

IsSeq(s) == s \in Seq({s[n] : n \in DOMAIN s})

\* What Append does to the positions of a sequence.
LEMMA AppendFacts ==
    ASSUME NEW s, IsSeq(s), NEW e, NEW t, t = Append(s, e)
    PROVE  /\ IsSeq(t)
           /\ DOMAIN t = DOMAIN s \cup {Len(s) + 1}
           /\ Len(s) + 1 \notin DOMAIN s
           /\ t[Len(s) + 1] = e
           /\ \A n \in DOMAIN s : t[n] = s[n]
  <1> DEFINE S == {s[n] : n \in DOMAIN s} \cup {e}
  <1>1. s \in Seq(S)
    BY DEF IsSeq
  <1>2. /\ t \in Seq(S) /\ Len(s) \in Nat
        /\ DOMAIN s = 1..Len(s)
        /\ Len(t) = Len(s) + 1 /\ DOMAIN t = 1..(Len(s) + 1)
        /\ t[Len(s) + 1] = e
        /\ \A n \in 1..Len(s) : t[n] = s[n]
    BY <1>1
  <1>3. t \in Seq({t[n] : n \in DOMAIN t})
    BY <1>2
  <1> QED
    BY <1>2, <1>3 DEF IsSeq

\* A function on an initial segment is a sequence.
LEMMA FunctionIsSeq ==
    ASSUME NEW k \in Nat, NEW t, t = [n \in 1..k |-> t[n]]
    PROVE  IsSeq(t) /\ DOMAIN t = 1..k
  <1>1. DOMAIN t = 1..k
    OBVIOUS
  <1>2. t \in Seq({t[n] : n \in DOMAIN t})
    BY <1>1
  <1> QED
    BY <1>1, <1>2 DEF IsSeq

\* A sequence whose elements are replaced is a sequence.
LEMMA ReplacedIsSeq ==
    ASSUME NEW s, IsSeq(s), NEW t, t = [n \in DOMAIN s |-> t[n]]
    PROVE  IsSeq(t)
  <1>1. Len(s) \in Nat /\ DOMAIN s = 1..Len(s)
    BY DEF IsSeq
  <1> QED
    BY <1>1, FunctionIsSeq

NatLess == {ss \in Nat \X Nat : ss[1] < ss[2]}

\* A nonempty set of numbers up to m has a greatest element.
LEMMA GreatestExists ==
    ASSUME NEW m \in Nat, NEW S \in SUBSET (0..m), S # {}
    PROVE  \E x \in S : \A y \in S : y <= x
  <1> DEFINE T == {m - x : x \in S}
  <1>1. T \subseteq Nat /\ T # {}
    <2>1. \A x \in S : x \in 0..m /\ m - x \in Nat
      OBVIOUS
    <2>2. PICK x \in S : TRUE
      OBVIOUS
    <2>3. m - x \in T
      OBVIOUS
    <2> QED
      BY <2>1, <2>3
  <1>2. PICK t \in T : \A u \in T : ~ (<<u, t>> \in NatLess)
    <2>1. IsWellFoundedOn(NatLess, Nat)
      BY NatLessThanWellFounded DEF OpToRel, NatLess
    <2> HIDE DEF T
    <2> QED
      BY <1>1, <2>1, WFMin
  <1>3. \A u \in T : ~ (u < t)
    <2> TAKE u \in T
    <2>1. <<u, t>> \in Nat \X Nat
      BY <1>1
    <2>2. NatLess = {ss \in Nat \X Nat : ss[1] < ss[2]}
      BY DEF NatLess
    <2> HIDE DEF T
    <2> QED
      BY <1>2, <2>1, <2>2
  <1>4. PICK x \in S : t = m - x
    BY <1>2
  <1>5. \A y \in S : y <= x
    <2> TAKE y \in S
    <2>1. ~ (m - y < t)
      BY <1>3
    <2> QED
      BY <2>1, <1>4
  <1> QED
    BY <1>5

-----------------------------------------------------------------------------
(* The invariant, and what an outcome can be.                              *)

RequestFields == {"id", "content", "rev", "prio", "cs", "item", "createKey",
                  "createCall", "consumed", "last"}

ItemFields == {"omitted", "id", "mkey", "source", "state", "version", "deps",
               "done", "readiness", "lease", "prio", "request", "cs",
               "lastClaim"}

IndexFields == {"idempotency", "pending", "semantic", "materialized",
                "changeSets", "approvals", "requestSeq", "fenceSeq",
                "requestsHydrated"}

ResultFields == {"code", "id", "rev", "token", "replayed"}

OutcomeFields == {"requests", "items", "idx", "effect", "result"}

RequestOK(d) ==
    /\ DOMAIN d = RequestFields
    /\ d.id \in RequestIds /\ d.content \in Contents /\ d.rev \in Nat
    /\ d.item \in Items \cup {None} /\ d.cs \in ChangeSets \cup {None}

\* A document that is a work item has left the initial state, so that
\* Evaluate tells an existing work item from a missing one.
ItemOK(d) ==
    /\ DOMAIN d = ItemFields
    /\ d.state \in States \ {"initial"} /\ d.version \in Nat
    /\ d.lease \in Lease /\ d.request \in RequestIds \cup {0}
    /\ d.omitted \in BOOLEAN

ChangeSetState == [rev: {"absent", "proposed", "approved", "merged"},
                   prio: Priorities \cup {None}]

IndexOK(i) ==
    /\ DOMAIN i = IndexFields
    /\ i.pending \in [Keys -> 0..MaxRequests]
    /\ i.requestSeq \in 0..MaxRequests /\ i.fenceSeq \in 0..MaxTokens
    /\ i.changeSets \in [ChangeSets -> ChangeSetState]
    /\ \A e \in i.idempotency :
         e.key \in Keys /\ DOMAIN e.result = ResultFields
    /\ \A e \in i.materialized : DOMAIN e.result = ResultFields

StoreInv ==
    /\ IsSeq(requestIssues) /\ IsSeq(workItemIssues)
    /\ \A n \in DOMAIN requestIssues : RequestOK(requestIssues[n])
    /\ \A n \in DOMAIN workItemIssues : ItemOK(workItemIssues[n])
    /\ IndexOK(idx)
    /\ calls \subseteq Call
    /\ effects \in [calls -> 0..2]
    /\ OneIssuePerIdentity

\* A call answers that it was applied just now.
JustApplied(result) == result.code = "applied" /\ ~result.replayed

MutateOps == {"refine", "update-priority", "link-change-set",
              "link-work-item"}

\* Nothing durable changes.
QuietOut(c, out) ==
    /\ out.requests = requestIssues
    /\ out.items = workItemIssues
    /\ out.effect = FALSE
    /\ c.op \in Linking => ~JustApplied(out.result)

\* A request is appended under an identifier and a key no issue has.
CreateOut(c, out) ==
    /\ c.op = "create"
    /\ DurableCreates(c) = {}
    /\ \E id \in RequestIds :
         /\ RequestNumbers(id) = {}
         /\ out.requests = Append(requestIssues, NewRequest(c, id))
    /\ c.content \in Contents
    /\ out.items = workItemIssues
    /\ out.effect = TRUE

\* The document a mutation prepares: the identity of the stored one, at the
\* revision the call expects, with the approval consumed if it refines.
Prepared(c, new) ==
    LET doc == requestIssues[findRequestByID(c.req)]
    IN  /\ c.op \in MutateOps
        /\ RequestNumbers(c.req) # {}
        /\ RequestOK(new)
        /\ new.id = doc.id /\ new.rev = doc.rev /\ c.rev = doc.rev
        /\ new.createKey = doc.createKey /\ new.createCall = doc.createCall
        /\ c.op = "refine" =>
             /\ c.approval \notin doc.consumed
             /\ ApprovalScope[c.approval].req = c.req
             /\ new.consumed = doc.consumed \cup {c.approval}
        /\ c.op # "refine" => new.consumed = doc.consumed

\* The work items before the request is written: as they were, or with the
\* linked one rewritten.
ItemsFor(new, items) ==
    \/ items = workItemIssues
    \/ \E id \in Items \cup {None} : \E prio :
          /\ WorkItemNumbers(id) # {}
          /\ items = updateWorkItemIssue(id, prio, new)

\* What the answer of a call that changes the priority or a link stands for.
AllWritten(c, new, items, i) ==
    /\ c.op # "link-change-set" /\ new.item # None =>
         /\ WorkItemNumbers(new.item) # {}
         /\ items = updateWorkItemIssue(new.item, new.prio, new)
    /\ c.op = "update-priority" /\ new.cs # None =>
         i.changeSets[new.cs].prio = new.prio
    /\ c.op = "link-change-set" =>
         new.cs = c.cs /\ i.changeSets[new.cs].prio \in {None, new.prio}

\* The request the call names is rewritten if the call has an effect; its
\* work item may be rewritten in any case.
RewriteOut(c, out) ==
    \E new :
       /\ Prepared(c, new)
       /\ ItemsFor(new, out.items)
       /\ out.effect \in BOOLEAN
       /\ out.requests = IF out.effect THEN updateRequestIssue(c, new)
                                       ELSE requestIssues
       /\ c.op \in Linking /\ JustApplied(out.result) =>
            out.effect /\ AllWritten(c, new, out.items, out.idx)

\* No issue has the materialization key or the work item, and the rules let
\* the call make one.
CanBind(c) ==
    /\ BindingNumbers(c.mkey) = {}
    /\ WorkItemNumbers(c.item) = {}
    /\ Evaluate(c, NoItem, [now |-> 0]) \in {"allowed", "omitted"}

\* A work item, or the binding of an omitted one, is appended.
BindOut(c, out) ==
    /\ c.op = "materialize"
    /\ CanBind(c)
    /\ c.item \in Items \cup {None}
    /\ out.requests = requestIssues
    /\ \E omitted \in BOOLEAN :
         out.items = Append(workItemIssues, NewWorkItem(c, omitted))
    /\ out.effect = TRUE

\* The claim, its lease and its token are recorded.
Claimed(c, d, token) ==
    [d EXCEPT !.state = "building", !.version = @ + 1, !.lease = startLease(c),
              !.lastClaim = lastMutationRecord(c, token)]

ClaimOut(c, out) ==
    LET n == findWorkItemByID(c.item)
    IN  /\ c.op = "claim"
        /\ WorkItemNumbers(c.item) # {}
        /\ out.requests = requestIssues
        /\ out.items = [workItemIssues EXCEPT
                          ![n] = Claimed(c, workItemIssues[n],
                                         idx.fenceSeq + 1)]
        /\ out.effect = TRUE

\* The caller is told that the call was applied, or not told its fate.
NotRefused(result) ==
    Determinate(result) => result.code \in {"applied", "omitted"}

OutcomeOK(c, out) ==
    /\ DOMAIN out = OutcomeFields
    /\ DOMAIN out.result = ResultFields
    /\ IndexOK(out.idx)
    /\ \/ QuietOut(c, out)
       \/ /\ NotRefused(out.result)
          /\ \/ CreateOut(c, out)
             \/ RewriteOut(c, out)
             \/ BindOut(c, out)
             \/ ClaimOut(c, out)

\* The codes that do not refuse a call.
LEMMA NotRefusing ==
    ASSUME NEW code,
           code \in {"applied", "omitted", "UNKNOWN_MUTATION",
                     "WMS_UNAVAILABLE"}
    PROVE  /\ \A id, rev, token : NotRefused(newResult(code, id, rev, token))
           /\ NotRefused(rejectedResult(code))
  BY DEF NotRefused, Determinate, newResult, rejectedResult

\* The results the adapter builds.
LEMMA ResultShape ==
    ASSUME NEW code, NEW id, NEW rev, NEW token
    PROVE  /\ DOMAIN newResult(code, id, rev, token) = ResultFields
           /\ newResult(code, id, rev, token).code = code
           /\ newResult(code, id, rev, token).replayed = FALSE
           /\ rejectedResult(code) = newResult(code, 0, 0, 0)
  BY DEF newResult, rejectedResult, ResultFields

\* A replayed result is the result with its mark.
LEMMA ReplayShape ==
    ASSUME NEW result, DOMAIN result = ResultFields
    PROVE  /\ DOMAIN markReplayed(result) = ResultFields
           /\ markReplayed(result).code = result.code
           /\ markReplayed(result).replayed = TRUE
  BY DEF markReplayed, ResultFields

\* A refusal leaves the issues alone.
LEMMA RefuseOut ==
    ASSUME NEW c, NEW i, IndexOK(i), NEW code, code # "applied"
    PROVE  OutcomeOK(c, Refuse(i, code))
  BY DEF OutcomeOK, QuietOut, Refuse, Outcome, JustApplied, OutcomeFields,
         rejectedResult, newResult, ResultFields

\* A replay leaves the issues alone and is marked as one.
LEMMA ReplayOut ==
    ASSUME NEW c, NEW i, IndexOK(i), NEW result, DOMAIN result = ResultFields
    PROVE  OutcomeOK(c, Return(i, markReplayed(result)))
  BY ReplayShape
     DEF OutcomeOK, QuietOut, Return, Outcome, JustApplied, OutcomeFields

\* A key this process knows is answered without a write.
LEMMA KnownKeyOut ==
    ASSUME StoreInv, NEW c, NEW i, IndexOK(i), Entries(c) # {}
    PROVE  OutcomeOK(c, checkIdempotencyLocked(c, i))
  <1> DEFINE entry == CHOOSE e \in Entries(c) : TRUE
  <1>1. entry \in Entries(c)
    OBVIOUS
  <1> HIDE DEF entry
  <1>2. DOMAIN entry.result = ResultFields
    BY <1>1 DEF Entries, StoreInv, IndexOK
  <1>3. checkIdempotencyLocked(c, i) =
          IF entry.call = requestFingerprint(c)
            THEN Return(i, markReplayed(entry.result))
            ELSE Refuse(i, "IDEMPOTENCY_CONFLICT")
    BY DEF checkIdempotencyLocked, entry
  <1>4. OutcomeOK(c, Return(i, markReplayed(entry.result)))
    BY <1>2, ReplayOut
  <1>5. OutcomeOK(c, Refuse(i, "IDEMPOTENCY_CONFLICT"))
    BY RefuseOut
  <1> QED
    BY <1>3, <1>4, <1>5

\* Remembering changes the idempotency index of the outcome only.
LEMMA RememberIndex ==
    ASSUME NEW c \in Call, NEW i, IndexOK(i), NEW result,
           DOMAIN result = ResultFields
    PROVE  /\ IndexOK(rememberIdempotencyLocked(i, c, result))
           /\ rememberIdempotencyLocked(i, c, result).changeSets = i.changeSets
  <1> DEFINE j == rememberIdempotencyLocked(i, c, result)
  <1>1. c.key \in Keys
    BY DEF Call
  <1>2. /\ DOMAIN j = IndexFields
        /\ \A f \in IndexFields \ {"idempotency"} : j[f] = i[f]
        /\ j.idempotency = {e \in i.idempotency : e.key # c.key} \cup
             {[key |-> c.key, call |-> requestFingerprint(c),
               result |-> result]}
    BY DEF IndexOK, rememberIdempotencyLocked, IndexFields
  <1> HIDE DEF j
  <1>3. \A e \in j.idempotency : e.key \in Keys /\ DOMAIN e.result = ResultFields
    BY <1>1, <1>2 DEF IndexOK
  <1> QED
    BY <1>2, <1>3 DEF IndexOK, IndexFields, j

\* A remembered outcome is of the same kind.
LEMMA RememberOut ==
    ASSUME NEW c \in Call, NEW out, OutcomeOK(c, out)
    PROVE  OutcomeOK(c, Remembering(c, out))
  <1> DEFINE r == Remembering(c, out)
  <1>1. CASE shouldRememberIdempotency(out.result)
    <2>1. r = [out EXCEPT !.idx =
                 rememberIdempotencyLocked(out.idx, c, out.result)]
      BY <1>1 DEF Remembering
    <2>2. /\ DOMAIN r = OutcomeFields
          /\ r.requests = out.requests /\ r.items = out.items
          /\ r.effect = out.effect /\ r.result = out.result
          /\ r.idx = rememberIdempotencyLocked(out.idx, c, out.result)
      BY <2>1 DEF OutcomeOK, OutcomeFields
    <2> SUFFICES OutcomeOK(c, r)
      OBVIOUS
    <2> HIDE DEF r
    <2>3. IndexOK(r.idx) /\ r.idx.changeSets = out.idx.changeSets
      BY <2>2, RememberIndex DEF OutcomeOK
    <2>4. CASE QuietOut(c, out)
      BY <2>2, <2>3, <2>4 DEF OutcomeOK, QuietOut
    <2>5. CASE NotRefused(out.result) /\ CreateOut(c, out)
      BY <2>2, <2>3, <2>5 DEF OutcomeOK, CreateOut
    <2>6. CASE NotRefused(out.result) /\ RewriteOut(c, out)
      <3>1. RewriteOut(c, r)
        <4>1. PICK new :
                /\ Prepared(c, new)
                /\ ItemsFor(new, out.items)
                /\ out.effect \in BOOLEAN
                /\ out.requests = IF out.effect THEN updateRequestIssue(c, new)
                                                ELSE requestIssues
                /\ c.op \in Linking /\ JustApplied(out.result) =>
                     out.effect /\ AllWritten(c, new, out.items, out.idx)
          BY <2>6 DEF RewriteOut
        <4>2. AllWritten(c, new, out.items, out.idx) =>
                AllWritten(c, new, r.items, r.idx)
          BY <2>2, <2>3 DEF AllWritten
        <4> QED
          BY <4>1, <4>2, <2>2 DEF RewriteOut
      <3> QED
        BY <3>1, <2>2, <2>3, <2>6 DEF OutcomeOK
    <2>7. CASE NotRefused(out.result) /\ BindOut(c, out)
      BY <2>2, <2>3, <2>7 DEF OutcomeOK, BindOut
    <2>8. CASE NotRefused(out.result) /\ ClaimOut(c, out)
      BY <2>2, <2>3, <2>8 DEF OutcomeOK, ClaimOut
    <2> QED
      BY <2>4, <2>5, <2>6, <2>7, <2>8 DEF OutcomeOK, r
  <1>2. CASE ~ shouldRememberIdempotency(out.result)
    BY <1>2 DEF Remembering
  <1> QED
    BY <1>1, <1>2

-----------------------------------------------------------------------------
(* request.create.                                                         *)

\* A scan leaves the indexes well formed, and the sequence number is then no
\* smaller than any identifier in use.
LEMMA HydrateFacts ==
    ASSUME StoreInv, NEW i, IndexOK(i)
    PROVE  LET j == hydrateRequestsLocked(i)
           IN  /\ IndexOK(j)
               /\ \A f \in IndexFields \ {"semantic", "requestSeq"} : j[f] = i[f]
               /\ \A n \in DOMAIN requestIssues :
                      requestIssues[n].id <= j.requestSeq
  <1> DEFINE j == hydrateRequestsLocked(i)
             ids == {requestIssues[n].id : n \in DOMAIN requestIssues}
             S == ids \cup {i.requestSeq}
             top == CHOOSE m \in S : \A n \in S : n <= m
  <1>1. /\ DOMAIN j = IndexFields
        /\ \A f \in IndexFields \ {"semantic", "requestSeq"} : j[f] = i[f]
        /\ j.requestSeq = top
    BY DEF IndexOK, hydrateRequestsLocked, IndexFields
  <1>2. S \in SUBSET (0..MaxRequests) /\ S # {} /\ MaxRequests \in Nat
    <2>1. MaxRequests \in Nat /\ i.requestSeq \in 0..MaxRequests
      BY GithubAssumption DEF IndexOK
    <2>2. \A n \in DOMAIN requestIssues : requestIssues[n].id \in 1..MaxRequests
      BY DEF StoreInv, RequestOK, RequestIds
    <2>3. \A x \in ids : x \in 0..MaxRequests
      BY <2>1, <2>2
    <2> QED
      BY <2>1, <2>3
  <1>3. top \in S /\ \A n \in S : n <= top
    <2>1. \E m \in S : \A n \in S : n <= m
      <3> HIDE DEF S
      <3> QED
        BY <1>2, GreatestExists
    <2> HIDE DEF S
    <2> QED
      BY <2>1
  <1> HIDE DEF top, j
  <1>4. j.requestSeq \in 0..MaxRequests
    BY <1>1, <1>2, <1>3
  <1>5. \A n \in DOMAIN requestIssues : requestIssues[n].id <= j.requestSeq
    BY <1>1, <1>3
  <1>6. IndexOK(j)
    BY <1>1, <1>4 DEF IndexOK, IndexFields
  <1> QED
    BY <1>1, <1>5, <1>6 DEF j

\* The request a create writes has an identifier that no issue has: the one
\* reserved for the key if it is still free, or the next in sequence.
LEMMA PersistOut ==
    ASSUME StoreInv, NEW c \in Call, c.op = "create", NEW w, NEW i, IndexOK(i),
           c.content \in Contents, DurableCreates(c) = {},
           i.pending[c.key] # 0 => RequestNumbers(i.pending[c.key]) = {},
           \A n \in DOMAIN requestIssues : requestIssues[n].id <= i.requestSeq,
           i.pending[c.key] = 0 => i.requestSeq < MaxRequests
    PROVE  OutcomeOK(c, persistNewRequestLocked(c, w, i))
  <1> DEFINE id == IF i.pending[c.key] # 0 THEN i.pending[c.key]
                                           ELSE i.requestSeq + 1
             seq == IF i.pending[c.key] # 0 THEN i.requestSeq ELSE id
             docs == IF Durable(w.write)
                       THEN Append(requestIssues, NewRequest(c, id))
                       ELSE requestIssues
             failed == [i EXCEPT !.requestSeq = seq]
             bound == [i EXCEPT !.requestSeq = seq, !.pending[c.key] = 0,
                                !.semantic[c.content] = id]
             reserved == [i EXCEPT !.requestSeq = seq, !.pending[c.key] = id]
             out == persistNewRequestLocked(c, w, i)
  <1>1. c.key \in Keys /\ MaxRequests \in Nat /\ i.pending[c.key] \in 0..MaxRequests
    BY GithubAssumption DEF Call, IndexOK
  <1>2. /\ id \in RequestIds /\ seq \in 0..MaxRequests
        /\ RequestNumbers(id) = {}
    <2>1. CASE i.pending[c.key] # 0
      BY <2>1, <1>1 DEF IndexOK, RequestIds
    <2>2. CASE i.pending[c.key] = 0
      <3>1. i.requestSeq \in Nat /\ i.requestSeq < MaxRequests
        BY <2>2, <1>1 DEF IndexOK
      <3>2. id = i.requestSeq + 1 /\ seq = i.requestSeq + 1
        BY <2>2
      <3>3. \A n \in DOMAIN requestIssues : requestIssues[n].id # id
        BY <3>1, <3>2, <1>1 DEF StoreInv, RequestOK, RequestIds
      <3> QED
        BY <3>1, <3>2, <3>3, <1>1 DEF RequestIds, RequestNumbers
    <2> QED
      BY <2>1, <2>2
  <1> HIDE DEF id, seq
  <1>3. IndexOK(failed) /\ IndexOK(bound) /\ IndexOK(reserved)
    BY <1>1, <1>2 DEF IndexOK, IndexFields, RequestIds
  <1>4. out = IF w.write = "failed"
          THEN Refuse(failed, "WMS_UNAVAILABLE")
        ELSE IF w.write = "ok" \/ (w.write = "lost" /\ w.rescan)
          THEN Outcome(docs, workItemIssues, bound, TRUE,
                       newResult("applied", id, 1, 0))
        ELSE Outcome(docs, workItemIssues, reserved, w.write = "lost",
                     rejectedResult("UNKNOWN_MUTATION"))
    BY DEF persistNewRequestLocked, id, seq
  <1> SUFFICES OutcomeOK(c, out)
    OBVIOUS
  <1> HIDE DEF out, failed, bound, reserved
  <1>5. CASE w.write = "failed"
    BY <1>3, <1>4, <1>5, RefuseOut
  <1>6. CASE w.write # "failed" /\ (w.write = "ok" \/ (w.write = "lost" /\ w.rescan))
    <2>1. out = Outcome(Append(requestIssues, NewRequest(c, id)), workItemIssues,
                        bound, TRUE, newResult("applied", id, 1, 0))
      BY <1>4, <1>6 DEF Durable
    <2>2. CreateOut(c, out)
      BY <2>1, <1>2 DEF CreateOut, Outcome
    <2> QED
      BY <2>1, <2>2, <1>3, ResultShape, NotRefusing
         DEF OutcomeOK, Outcome, OutcomeFields
  <1>7. CASE w.write \notin {"failed", "ok", "lost"}
    <2>1. out = Outcome(requestIssues, workItemIssues, reserved, FALSE,
                        rejectedResult("UNKNOWN_MUTATION"))
      BY <1>4, <1>7 DEF Durable
    <2> QED
      BY <2>1, <1>3, RefuseOut DEF Refuse
  <1>8. CASE w.write = "lost" /\ ~ w.rescan
    <2>1. out = Outcome(Append(requestIssues, NewRequest(c, id)), workItemIssues,
                        reserved, TRUE, rejectedResult("UNKNOWN_MUTATION"))
      BY <1>4, <1>8 DEF Durable
    <2>2. CreateOut(c, out)
      BY <2>1, <1>2 DEF CreateOut, Outcome
    <2>3. DOMAIN rejectedResult("UNKNOWN_MUTATION") = ResultFields
      BY DEF rejectedResult, newResult, ResultFields
    <2> QED
      BY <2>1, <2>2, <2>3, <1>3, NotRefusing
         DEF OutcomeOK, Outcome, OutcomeFields
  <1> QED
    BY <1>5, <1>6, <1>7, <1>8

\* What request.create does.
LEMMA CreateOutcome ==
    ASSUME StoreInv, NEW c \in Call, c.op = "create", NEW w,
           CreateWithinBound(c), Entries(c) = {}
    PROVE  OutcomeOK(c, createRequestLocked(c, w))
  <1> DEFINE i == hydrateRequestsLocked(idx)
             out == createRequestLocked(c, w)
             id == i.pending[c.key]
             doc == requestIssues[CHOOSE n \in DurableCreates(c) : TRUE]
  <1>1. /\ IndexOK(i) /\ i.pending = idx.pending
        /\ \A n \in DOMAIN requestIssues : requestIssues[n].id <= i.requestSeq
    BY HydrateFacts DEF StoreInv, IndexFields
  <1>2. IndexOK(idx) /\ c.key \in Keys /\ c.content \in Contents \cup {None}
    BY DEF StoreInv, Call
  <1>3. i.requestSeq < MaxRequests \/ DurableCreates(c) # {} \/ i.pending[c.key] # 0
    BY <1>1 DEF CreateWithinBound
  <1> HIDE DEF i
  <1>4. IndexOK([i EXCEPT !.pending[c.key] = 0])
    BY <1>1, <1>2, GithubAssumption DEF IndexOK, IndexFields
  <1>5. IndexOK([i EXCEPT !.pending[c.key] = 0, !.semantic[c.content] = id])
    BY <1>1, <1>2, GithubAssumption DEF IndexOK, IndexFields
  <1>6. /\ c.content = None => out = Refuse(idx, "INVALID_REQUEST")
        /\ c.content # None /\ ~ w.scan => out = Refuse(idx, "WMS_UNAVAILABLE")
        /\ c.content # None /\ w.scan /\ DurableCreates(c) # {} =>
             out = replayDurableRequestCreate(c, i)
        /\ /\ c.content # None /\ w.scan /\ DurableCreates(c) = {}
           /\ i.pending[c.key] # 0
           /\ ~w.load \/ RequestNumbers(i.pending[c.key]) # {}
           => out = reconcilePendingRequestCreate(c, w, i)
        /\ /\ c.content # None /\ w.scan /\ DurableCreates(c) = {}
           /\ ~ (/\ i.pending[c.key] # 0
                 /\ ~w.load \/ RequestNumbers(i.pending[c.key]) # {})
           => out = IF i.semantic[c.content] # 0
                      THEN Refuse(i, "DUPLICATE_REQUEST")
                      ELSE persistNewRequestLocked(c, w, i)
    BY DEF createRequestLocked, i
  <1> SUFFICES OutcomeOK(c, out)
    OBVIOUS
  <1> HIDE DEF out
  <1>7. CASE c.content = None \/ ~ w.scan
    BY <1>2, <1>6, <1>7, RefuseOut
  <1>8. CASE c.content # None /\ w.scan /\ DurableCreates(c) # {}
    <2>1. out = IF doc.createCall # requestFingerprint(c)
                  THEN Refuse(i, "IDEMPOTENCY_CONFLICT")
                  ELSE Return([i EXCEPT !.pending[c.key] = 0],
                         markReplayed(newResult("applied", doc.id, doc.rev, 0)))
      BY <1>6, <1>8 DEF replayDurableRequestCreate
    <2>2. OutcomeOK(c, Refuse(i, "IDEMPOTENCY_CONFLICT"))
      BY <1>1, RefuseOut
    <2>3. OutcomeOK(c, Return([i EXCEPT !.pending[c.key] = 0],
                         markReplayed(newResult("applied", doc.id, doc.rev, 0))))
      <3> DEFINE result == newResult("applied", doc.id, doc.rev, 0)
                 j == [i EXCEPT !.pending[c.key] = 0]
      <3>1. DOMAIN result = ResultFields
        BY DEF newResult, ResultFields
      <3>2. IndexOK(j)
        BY <1>4
      <3> HIDE DEF result, j
      <3>3. OutcomeOK(c, Return(j, markReplayed(result)))
        BY <3>1, <3>2, ReplayOut
      <3> QED
        BY <3>3 DEF result, j
    <2> QED
      BY <2>1, <2>2, <2>3
  <1>9. CASE /\ c.content # None /\ w.scan /\ DurableCreates(c) = {}
             /\ i.pending[c.key] # 0
             /\ ~w.load \/ RequestNumbers(i.pending[c.key]) # {}
    <2> DEFINE j == [i EXCEPT !.pending[c.key] = 0, !.semantic[c.content] = id]
               result == newResult("applied", id,
                                   requestIssues[findRequestByID(id)].rev, 0)
    <2>1. out = IF ~w.load THEN Refuse(i, "WMS_UNAVAILABLE")
                ELSE Return(j, result)
      BY <1>6, <1>9 DEF reconcilePendingRequestCreate
    <2>2. OutcomeOK(c, Refuse(i, "WMS_UNAVAILABLE"))
      BY <1>1, RefuseOut
    <2>3. OutcomeOK(c, Return(j, result))
      <3>1. DOMAIN result = ResultFields
        BY DEF newResult, ResultFields
      <3> HIDE DEF result, j
      <3> QED
        BY <3>1, <1>5
           DEF OutcomeOK, QuietOut, Return, Outcome, OutcomeFields, Linking,
               j
    <2> QED
      BY <2>1, <2>2, <2>3
  <1>10. CASE /\ c.content # None /\ w.scan /\ DurableCreates(c) = {}
              /\ ~ (/\ i.pending[c.key] # 0
                    /\ ~w.load \/ RequestNumbers(i.pending[c.key]) # {})
    <2>1. OutcomeOK(c, Refuse(i, "DUPLICATE_REQUEST"))
      BY <1>1, RefuseOut
    <2>2. OutcomeOK(c, persistNewRequestLocked(c, w, i))
      BY <1>1, <1>2, <1>3, <1>10, PersistOut
    <2> QED
      BY <2>1, <2>2, <1>6, <1>10
  <1> QED
    BY <1>7, <1>8, <1>9, <1>10

-----------------------------------------------------------------------------
(* Mutations of a request.                                                 *)

\* An identifier with an issue has exactly one.
LEMMA FindRequest ==
    ASSUME StoreInv, NEW id, RequestNumbers(id) # {}
    PROVE  /\ findRequestByID(id) \in DOMAIN requestIssues
           /\ requestIssues[findRequestByID(id)].id = id
           /\ RequestNumbers(id) = {findRequestByID(id)}
  <1>1. PICK n \in RequestNumbers(id) : TRUE
    OBVIOUS
  <1>2. RequestNumbers(id) = {n}
    BY <1>1 DEF RequestNumbers, StoreInv, OneIssuePerIdentity
  <1>3. n \in DOMAIN requestIssues /\ n \in Nat /\ requestIssues[n].id = id
    BY <1>1 DEF RequestNumbers, StoreInv, IsSeq
  <1>4. findRequestByID(id) = n
    BY <1>2, <1>3 DEF findRequestByID, First
  <1> QED
    BY <1>2, <1>3, <1>4

\* A work item with an issue that is not a binding of an omitted one has
\* exactly one.
LEMMA FindWorkItem ==
    ASSUME StoreInv, NEW id, WorkItemNumbers(id) # {}
    PROVE  /\ findWorkItemByID(id) \in DOMAIN workItemIssues
           /\ workItemIssues[findWorkItemByID(id)].id = id
           /\ ~ workItemIssues[findWorkItemByID(id)].omitted
           /\ WorkItemNumbers(id) = {findWorkItemByID(id)}
           /\ CurrentItem(id) = workItemIssues[findWorkItemByID(id)]
  <1>1. PICK n \in WorkItemNumbers(id) : TRUE
    OBVIOUS
  <1>2. WorkItemNumbers(id) = {n}
    BY <1>1 DEF WorkItemNumbers, StoreInv, OneIssuePerIdentity
  <1>3. /\ n \in DOMAIN workItemIssues /\ n \in Nat
        /\ workItemIssues[n].id = id /\ ~ workItemIssues[n].omitted
    BY <1>1 DEF WorkItemNumbers, StoreInv, IsSeq
  <1>4. findWorkItemByID(id) = n
    BY <1>2, <1>3 DEF findWorkItemByID, First
  <1> QED
    BY <1>2, <1>3, <1>4 DEF CurrentItem

\* The write of a request that ends a mutation.
LEMMA WriteOut ==
    ASSUME NEW c, NEW w, NEW new, NEW items, NEW i, NEW after,
           Prepared(c, new), ItemsFor(new, items), IndexOK(i), IndexOK(after),
           c.op \in Linking => AllWritten(c, new, items, after)
    PROVE  OutcomeOK(c, WriteRequest(c, w, new, items, i, after))
  <1> DEFINE out == WriteRequest(c, w, new, items, i, after)
             docs == IF Durable(w.write) THEN updateRequestIssue(c, new)
                                         ELSE requestIssues
  <1> SUFFICES OutcomeOK(c, out)
    OBVIOUS
  <1>1. out = IF w.write = "ok"
          THEN Outcome(docs, items, after, TRUE,
                       newResult("applied", new.id, new.rev + 1, 0))
          ELSE Outcome(docs, items, i, w.write = "lost",
                       rejectedResult(UpdateRejection(w.write)))
    BY DEF WriteRequest
  <1> HIDE DEF out
  <1>2. CASE w.write = "ok"
    <2>1. /\ DOMAIN out = OutcomeFields /\ out.idx = after /\ out.effect = TRUE
          /\ out.requests = updateRequestIssue(c, new) /\ out.items = items
          /\ out.result = newResult("applied", new.id, new.rev + 1, 0)
      BY <1>1, <1>2 DEF Outcome, OutcomeFields, Durable
    <2>2. RewriteOut(c, out)
      BY <2>1 DEF RewriteOut
    <2> QED
      BY <2>1, <2>2, NotRefusing DEF OutcomeOK, newResult, ResultFields
  <1>3. CASE w.write # "ok"
    <2>1. /\ DOMAIN out = OutcomeFields /\ out.idx = i
          /\ out.effect = (w.write = "lost")
          /\ out.requests = docs /\ out.items = items
          /\ out.result = rejectedResult(UpdateRejection(w.write))
      BY <1>1, <1>3 DEF Outcome, OutcomeFields
    <2>2. DOMAIN out.result = ResultFields /\ out.result.code # "applied"
      BY <2>1 DEF rejectedResult, newResult, ResultFields, UpdateRejection
    <2>3. out.requests = IF out.effect THEN updateRequestIssue(c, new)
                                       ELSE requestIssues
      <3>1. CASE w.write = "lost"
        BY <2>1, <3>1 DEF Durable
      <3>2. CASE w.write # "lost"
        BY <2>1, <1>3, <3>2 DEF Durable
      <3> QED
        BY <3>1, <3>2
    <2>4. out.effect \in BOOLEAN
      BY <2>1
    <2>5. RewriteOut(c, out)
      BY <2>1, <2>2, <2>3, <2>4 DEF RewriteOut, JustApplied
    <2>6. NotRefused(out.result)
      BY <2>1, NotRefusing DEF UpdateRejection
    <2> QED
      BY <2>1, <2>2, <2>5, <2>6 DEF OutcomeOK
  <1> QED
    BY <1>2, <1>3

\* The write of the linked work item that comes before it.
LEMMA WriteBothOut ==
    ASSUME NEW c, NEW w, NEW id \in Items \cup {None}, NEW prio, NEW new, NEW i,
           Prepared(c, new), WorkItemNumbers(id) # {}, IndexOK(i),
           c.op \in Linking =>
             AllWritten(c, new, updateWorkItemIssue(id, prio, new), i)
    PROVE  OutcomeOK(c, WriteBoth(c, w, id, prio, new, i))
  <1> DEFINE out == WriteBoth(c, w, id, prio, new, i)
             written == updateWorkItemIssue(id, prio, new)
             items == IF Durable(w.first) THEN written ELSE workItemIssues
  <1> SUFFICES OutcomeOK(c, out)
    OBVIOUS
  <1>1. out = IF w.first # "ok"
          THEN Outcome(requestIssues, items, i, FALSE,
                       rejectedResult(UpdateRejection(w.first)))
          ELSE WriteRequest(c, w, new, items, i, i)
    BY DEF WriteBoth
  <1>2. ItemsFor(new, items) /\ ItemsFor(new, written)
    BY DEF ItemsFor
  <1> HIDE DEF out
  <1>3. CASE w.first = "ok"
    <2>1. out = WriteRequest(c, w, new, written, i, i)
      BY <1>1, <1>3 DEF Durable
    <2> HIDE DEF written
    <2> QED
      BY <2>1, <1>2, WriteOut DEF written
  <1>4. CASE w.first # "ok"
    <2> HIDE DEF items
    <2>1. /\ DOMAIN out = OutcomeFields /\ out.idx = i /\ out.effect = FALSE
          /\ out.requests = requestIssues /\ out.items = items
          /\ out.result = rejectedResult(UpdateRejection(w.first))
      BY <1>1, <1>4 DEF Outcome, OutcomeFields
    <2>2. DOMAIN out.result = ResultFields /\ out.result.code # "applied"
      BY <2>1 DEF rejectedResult, newResult, ResultFields, UpdateRejection
    <2>3. RewriteOut(c, out)
      BY <2>1, <2>2, <1>2 DEF RewriteOut, JustApplied
    <2>4. NotRefused(out.result)
      BY <2>1, NotRefusing DEF UpdateRejection
    <2> QED
      BY <2>1, <2>2, <2>3, <2>4 DEF OutcomeOK
  <1> QED
    BY <1>3, <1>4

\* The answer to a call whose expected revision is not the current one.
LEMMA ResolveOut ==
    ASSUME NEW c, NEW doc, NEW i, IndexOK(i)
    PROVE  OutcomeOK(c, resolveRequestRevision(c, doc, i))
  <1> DEFINE result == newResult("applied", doc.id, doc.rev, 0)
  <1>1. DOMAIN result = ResultFields
    BY DEF newResult, ResultFields
  <1>2. resolveRequestRevision(c, doc, i) =
          IF doc.last # None /\ doc.last = lastMutationRecord(c, 0)
            THEN Return(i, markReplayed(result))
            ELSE Refuse(i, "STALE_REQUEST_REVISION")
    BY DEF resolveRequestRevision
  <1> HIDE DEF result
  <1>3. OutcomeOK(c, Return(i, markReplayed(result)))
    BY <1>1, ReplayOut
  <1>4. OutcomeOK(c, Refuse(i, "STALE_REQUEST_REVISION"))
    BY RefuseOut
  <1> QED
    BY <1>2, <1>3, <1>4

Loaded(c, doc) ==
    /\ c.op \in MutateOps
    /\ RequestNumbers(c.req) # {}
    /\ doc = requestIssues[findRequestByID(c.req)]
    /\ c.rev = doc.rev

\* A refinement consumes an approval that is bound to the request and that
\* the stored document has not consumed.
LEMMA RefineOut ==
    ASSUME StoreInv, NEW c \in Call, c.op = "refine", NEW w, NEW doc,
           Loaded(c, doc), NEW i, IndexOK(i)
    PROVE  OutcomeOK(c, refineRequestLocked(c, w, doc, i))
  <1> DEFINE related == validateRelationshipsLocked(c, w)
             scope == ApprovalScope[c.approval]
             refined == Consume([doc EXCEPT !.content = c.content], c.approval)
             after == [i EXCEPT
                         !.semantic = [x \in Contents |->
                             IF x = c.content THEN doc.id
                             ELSE IF x = doc.content THEN 0 ELSE @[x]],
                         !.approvals[c.approval] = "consumed"]
             out == refineRequestLocked(c, w, doc, i)
             bad == \/ c.approval = None \/ c.approval \in doc.consumed
                    \/ i.approvals[c.approval] # "unused"
                    \/ scope.req # c.req
  <1>1. out = IF bad THEN Refuse(i, "UNAUTHORIZED_ACTION")
              ELSE IF related # "valid" THEN Refuse(i, related)
              ELSE IF i.semantic[c.content] \notin {0, doc.id}
                THEN Refuse(i, "DUPLICATE_REQUEST")
              ELSE IF scope.content # c.content
                THEN Refuse(i, "UNAUTHORIZED_ACTION")
              ELSE WriteRequest(c, w, refined, workItemIssues, i, after)
    BY DEF refineRequestLocked
  <1>2. related # "applied"
    BY DEF validateRelationshipsLocked
  <1>3. IndexOK(after)
    BY DEF IndexOK, IndexFields
  <1>4. c.approval # None => scope.content \in Contents
    BY GithubAssumption DEF Call
  <1>5. RequestOK(doc)
    BY FindRequest DEF Loaded, StoreInv
  <1>6. ~ bad /\ scope.content = c.content => Prepared(c, refined)
    <2> SUFFICES ASSUME ~ bad, scope.content = c.content
                 PROVE  Prepared(c, refined)
      OBVIOUS
    <2>1. c.content \in Contents
      BY <1>4
    <2>2. /\ DOMAIN refined = RequestFields
          /\ \A f \in RequestFields \ {"content", "consumed"} :
                 refined[f] = doc[f]
          /\ refined.content = c.content
          /\ refined.consumed = doc.consumed \cup {c.approval}
      BY <1>5 DEF RequestOK, RequestFields, Consume
    <2>3. c.approval \notin doc.consumed /\ ApprovalScope[c.approval].req = c.req
      OBVIOUS
    <2> HIDE DEF refined, scope, bad
    <2>4. RequestOK(refined)
      BY <1>5, <2>1, <2>2 DEF RequestOK, RequestFields
    <2> QED
      BY <2>2, <2>3, <2>4, <1>5 DEF Loaded, Prepared, RequestFields
  <1> SUFFICES OutcomeOK(c, out)
    OBVIOUS
  <1> HIDE DEF out, after, refined, related, bad, scope
  <1>7. /\ OutcomeOK(c, Refuse(i, "UNAUTHORIZED_ACTION"))
        /\ OutcomeOK(c, Refuse(i, related))
        /\ OutcomeOK(c, Refuse(i, "DUPLICATE_REQUEST"))
    BY <1>2, RefuseOut
  <1>8. ItemsFor(refined, workItemIssues) /\ c.op \notin Linking
    BY DEF ItemsFor, Linking
  <1>9. ~ bad /\ scope.content = c.content =>
          OutcomeOK(c, WriteRequest(c, w, refined, workItemIssues, i, after))
    BY <1>3, <1>6, <1>8, WriteOut
  <1> QED
    BY <1>1, <1>7, <1>9

\* A change of priority reaches the linked change set and work item.
LEMMA PriorityOut ==
    ASSUME StoreInv, NEW c \in Call, c.op = "update-priority", NEW w, NEW doc,
           Loaded(c, doc), NEW i, IndexOK(i)
    PROVE  OutcomeOK(c, updatePriorityLocked(c, w, doc, i))
  <1> DEFINE linked == IF doc.cs = None THEN i
                       ELSE [i EXCEPT !.changeSets[doc.cs].prio = c.prio]
             moved == [doc EXCEPT !.prio = c.prio]
             out == updatePriorityLocked(c, w, doc, i)
  <1>1. out =
          IF c.prio = None THEN Refuse(i, "INVALID_REQUEST")
          ELSE IF doc.cs # None /\ i.changeSets[doc.cs].rev = "absent"
            THEN Refuse(i, "NOT_FOUND")
          ELSE IF doc.item = None
            THEN WriteRequest(c, w, moved, workItemIssues, linked, linked)
          ELSE IF ~w.link THEN Refuse(linked, "WMS_UNAVAILABLE")
          ELSE IF WorkItemNumbers(doc.item) = {} THEN Refuse(linked, "NOT_FOUND")
          ELSE WriteBoth(c, w, doc.item, c.prio, moved, linked)
    BY DEF updatePriorityLocked
  <1>2. RequestOK(doc)
    BY FindRequest DEF Loaded, StoreInv
  <1>3. /\ DOMAIN moved = RequestFields
        /\ \A f \in RequestFields \ {"prio"} : moved[f] = doc[f]
        /\ moved.prio = c.prio
    BY <1>2 DEF RequestOK, RequestFields
  <1> HIDE DEF moved
  <1>4. RequestOK(moved)
    BY <1>2, <1>3 DEF RequestOK, RequestFields
  <1>5. Prepared(c, moved) /\ c.prio \in Priorities \cup {None}
    BY <1>3, <1>4 DEF Loaded, Prepared, RequestFields, Call
  <1>6. /\ IndexOK(linked)
        /\ doc.cs # None => linked.changeSets[doc.cs].prio = c.prio
    <2>1. CASE doc.cs = None
      BY <2>1
    <2>2. CASE doc.cs # None
      <3>1. doc.cs \in ChangeSets
        BY <1>2, <2>2 DEF RequestOK
      <3>2. i.changeSets[doc.cs] \in ChangeSetState
        BY <3>1 DEF IndexOK
      <3>3. /\ [i.changeSets[doc.cs] EXCEPT !.prio = c.prio] \in ChangeSetState
            /\ [i.changeSets[doc.cs] EXCEPT !.prio = c.prio].prio = c.prio
        BY <3>2, <1>5 DEF ChangeSetState
      <3>4. /\ DOMAIN linked = IndexFields
            /\ \A f \in IndexFields \ {"changeSets"} : linked[f] = i[f]
            /\ linked.changeSets = [i.changeSets EXCEPT ![doc.cs] =
                                     [i.changeSets[doc.cs] EXCEPT !.prio = c.prio]]
        BY <2>2 DEF IndexOK, IndexFields
      <3> HIDE DEF linked
      <3>5. /\ linked.changeSets \in [ChangeSets -> ChangeSetState]
            /\ linked.changeSets[doc.cs].prio = c.prio
        BY <3>1, <3>3, <3>4 DEF IndexOK
      <3> QED
        BY <3>4, <3>5 DEF IndexOK, IndexFields
    <2> QED
      BY <2>1, <2>2
  <1> SUFFICES OutcomeOK(c, out)
    OBVIOUS
  <1> HIDE DEF linked, out
  <1>7. /\ OutcomeOK(c, Refuse(i, "INVALID_REQUEST"))
        /\ OutcomeOK(c, Refuse(i, "NOT_FOUND"))
        /\ OutcomeOK(c, Refuse(linked, "NOT_FOUND"))
        /\ OutcomeOK(c, Refuse(linked, "WMS_UNAVAILABLE"))
    BY <1>6, RefuseOut
  <1>8. moved.item = doc.item /\ moved.cs = doc.cs
    BY <1>3 DEF RequestFields
  <1>9. doc.item = None =>
          OutcomeOK(c, WriteRequest(c, w, moved, workItemIssues, linked, linked))
    <2>1. ItemsFor(moved, workItemIssues)
      BY DEF ItemsFor
    <2>2. doc.item = None => AllWritten(c, moved, workItemIssues, linked)
      BY <1>3, <1>6, <1>8 DEF AllWritten
    <2> QED
      BY <2>1, <2>2, <1>5, <1>6, WriteOut
  <1>10. doc.item # None /\ WorkItemNumbers(doc.item) # {} =>
           OutcomeOK(c, WriteBoth(c, w, doc.item, c.prio, moved, linked))
    <2>1. doc.item \in Items \cup {None}
      BY <1>2 DEF RequestOK
    <2>2. doc.item # None /\ WorkItemNumbers(doc.item) # {} =>
            AllWritten(c, moved, updateWorkItemIssue(doc.item, c.prio, moved),
                       linked)
      BY <1>3, <1>6, <1>8 DEF AllWritten
    <2> QED
      BY <2>1, <2>2, <1>5, <1>6, WriteBothOut
  <1> QED
    BY <1>1, <1>7, <1>9, <1>10

\* A change set is linked by one write of the request.
LEMMA LinkSetOut ==
    ASSUME StoreInv, NEW c \in Call, c.op = "link-change-set", NEW w, NEW doc,
           Loaded(c, doc), NEW i, IndexOK(i)
    PROVE  OutcomeOK(c, linkChangeSetLocked(c, w, doc, i))
  <1> DEFINE changeSet == i.changeSets[c.cs]
             linked == [doc EXCEPT !.cs = c.cs,
                                   !.prio = IF changeSet.prio = None THEN @
                                            ELSE changeSet.prio]
             out == linkChangeSetLocked(c, w, doc, i)
  <1>1. out =
          IF c.cs = None \/ changeSet.rev = "absent" THEN Refuse(i, "NOT_FOUND")
          ELSE IF doc.cs = c.cs \/ changeSet.rev \notin {"proposed", "approved"}
            THEN Refuse(i, "INVALID_REQUEST")
          ELSE WriteRequest(c, w, linked, workItemIssues, i, i)
    BY DEF linkChangeSetLocked
  <1>2. RequestOK(doc) /\ c.cs \in ChangeSets \cup {None}
    BY FindRequest DEF Loaded, StoreInv, Call
  <1>3. /\ DOMAIN linked = RequestFields
        /\ \A f \in RequestFields \ {"prio", "cs"} : linked[f] = doc[f]
        /\ linked.cs = c.cs
        /\ changeSet.prio \in {None, linked.prio}
    BY <1>2 DEF RequestOK, RequestFields
  <1> HIDE DEF linked
  <1>4. RequestOK(linked)
    BY <1>2, <1>3 DEF RequestOK, RequestFields
  <1>5. Prepared(c, linked) /\ ItemsFor(linked, workItemIssues)
    BY <1>3, <1>4 DEF Loaded, Prepared, RequestFields, ItemsFor
  <1>6. AllWritten(c, linked, workItemIssues, i)
    BY <1>3 DEF AllWritten
  <1> SUFFICES OutcomeOK(c, out)
    OBVIOUS
  <1> HIDE DEF out, changeSet
  <1>7. /\ OutcomeOK(c, Refuse(i, "INVALID_REQUEST"))
        /\ OutcomeOK(c, Refuse(i, "NOT_FOUND"))
    BY RefuseOut
  <1>8. OutcomeOK(c, WriteRequest(c, w, linked, workItemIssues, i, i))
    BY <1>5, <1>6, WriteOut
  <1> QED
    BY <1>1, <1>7, <1>8

\* A work item is linked by a write of its issue and one of the request.
LEMMA LinkItemOut ==
    ASSUME StoreInv, NEW c \in Call, c.op = "link-work-item", NEW w, NEW doc,
           Loaded(c, doc), NEW i, IndexOK(i)
    PROVE  OutcomeOK(c, linkWorkItemLocked(c, w, doc, i))
  <1> DEFINE linked == [doc EXCEPT !.item = c.item]
             out == linkWorkItemLocked(c, w, doc, i)
  <1>1. out = IF ~w.link THEN Refuse(i, "WMS_UNAVAILABLE")
              ELSE IF WorkItemNumbers(c.item) = {} THEN Refuse(i, "NOT_FOUND")
              ELSE IF doc.item = c.item THEN Refuse(i, "INVALID_REQUEST")
              ELSE WriteBoth(c, w, c.item, doc.prio, linked, i)
    BY DEF linkWorkItemLocked
  <1>2. RequestOK(doc) /\ c.item \in Items \cup {None}
    BY FindRequest DEF Loaded, StoreInv, Call
  <1>3. /\ DOMAIN linked = RequestFields
        /\ \A f \in RequestFields \ {"item"} : linked[f] = doc[f]
        /\ linked.item = c.item
    BY <1>2 DEF RequestOK, RequestFields
  <1> HIDE DEF linked
  <1>4. RequestOK(linked)
    BY <1>2, <1>3 DEF RequestOK, RequestFields
  <1>5. Prepared(c, linked)
    BY <1>3, <1>4 DEF Loaded, Prepared, RequestFields
  <1>6. WorkItemNumbers(c.item) # {} =>
          AllWritten(c, linked, updateWorkItemIssue(c.item, doc.prio, linked), i)
    BY <1>3 DEF AllWritten, RequestFields
  <1> SUFFICES OutcomeOK(c, out)
    OBVIOUS
  <1> HIDE DEF out
  <1>7. /\ OutcomeOK(c, Refuse(i, "INVALID_REQUEST"))
        /\ OutcomeOK(c, Refuse(i, "WMS_UNAVAILABLE"))
        /\ OutcomeOK(c, Refuse(i, "NOT_FOUND"))
    BY RefuseOut
  <1>8. WorkItemNumbers(c.item) # {} =>
          OutcomeOK(c, WriteBoth(c, w, c.item, doc.prio, linked, i))
    BY <1>2, <1>5, <1>6, WriteBothOut
  <1> QED
    BY <1>1, <1>7, <1>8

\* What a mutation of a request does.
LEMMA MutateOutcome ==
    ASSUME StoreInv, NEW c \in Call, c.op \in MutateOps, NEW w, NEW i, IndexOK(i)
    PROVE  OutcomeOK(c, MutateLoaded(c, w, i))
  <1> DEFINE doc == requestIssues[findRequestByID(c.req)]
             out == MutateLoaded(c, w, i)
  <1>1. out = IF ~w.load THEN Refuse(i, "WMS_UNAVAILABLE")
              ELSE IF RequestNumbers(c.req) = {} THEN Refuse(i, "NOT_FOUND")
              ELSE IF c.rev # doc.rev THEN resolveRequestRevision(c, doc, i)
              ELSE IF c.op = "refine" THEN refineRequestLocked(c, w, doc, i)
              ELSE IF c.op = "update-priority"
                THEN updatePriorityLocked(c, w, doc, i)
              ELSE IF c.op = "link-change-set"
                THEN linkChangeSetLocked(c, w, doc, i)
              ELSE linkWorkItemLocked(c, w, doc, i)
    BY DEF MutateLoaded
  <1> SUFFICES OutcomeOK(c, out)
    OBVIOUS
  <1> HIDE DEF out
  <1>2. /\ OutcomeOK(c, Refuse(i, "WMS_UNAVAILABLE"))
        /\ OutcomeOK(c, Refuse(i, "NOT_FOUND"))
    BY RefuseOut
  <1>3. RequestNumbers(c.req) # {} /\ c.rev = doc.rev => Loaded(c, doc)
    BY DEF Loaded
  <1> HIDE DEF doc
  <1>4. OutcomeOK(c, resolveRequestRevision(c, doc, i))
    BY ResolveOut
  <1>5. Loaded(c, doc) =>
          /\ c.op = "refine" => OutcomeOK(c, refineRequestLocked(c, w, doc, i))
          /\ c.op = "update-priority" =>
               OutcomeOK(c, updatePriorityLocked(c, w, doc, i))
          /\ c.op = "link-change-set" =>
               OutcomeOK(c, linkChangeSetLocked(c, w, doc, i))
          /\ c.op = "link-work-item" =>
               OutcomeOK(c, linkWorkItemLocked(c, w, doc, i))
    BY RefineOut, PriorityOut, LinkSetOut, LinkItemOut
  <1> QED
    BY <1>1, <1>2, <1>3, <1>4, <1>5 DEF MutateOps

-----------------------------------------------------------------------------
(* build-work-item.materialize and claim.                                  *)

\* The verdicts are codes of the validation vocabulary, and a materialization
\* is let through only for an item in the initial state.
LEMMA VerdictFacts ==
    ASSUME NEW c, NEW item, NEW ev
    PROVE  /\ Evaluate(c, item, ev) \in Verdicts
           /\ Evaluate(c, item, ev) # "applied"
           /\ c.op = "materialize" /\ Evaluate(c, item, ev) \in {"allowed", "omitted"}
                => item.state = "initial"
  <1>1. Evaluate(c, item, ev) \in Verdicts
    BY DEF Evaluate, validateMutationPreconditions, evaluateMaterialization,
           Verdicts
  <1>2. c.op = "materialize" /\ item.state # "initial" =>
          Evaluate(c, item, ev) = "IDEMPOTENCY_CONFLICT"
    BY DEF Evaluate
  <1> QED
    BY <1>1, <1>2 DEF Verdicts

\* A work item is in the initial state when no issue holds it.
LEMMA InitialItem ==
    ASSUME StoreInv, NEW id
    PROVE  CurrentItem(id).state = "initial" <=> WorkItemNumbers(id) = {}
  <1>1. CASE WorkItemNumbers(id) = {}
    BY <1>1 DEF CurrentItem, NoItem
  <1>2. CASE WorkItemNumbers(id) # {}
    BY <1>2, FindWorkItem DEF StoreInv, ItemOK
  <1> QED
    BY <1>1, <1>2

\* The entry kept for a durable binding has a result.
LEMMA BindingEntry ==
    ASSUME NEW n
    PROVE  LET e == materializationEntryForBinding(n)
           IN  /\ DOMAIN e.result = ResultFields
               /\ e.result.code \in {"applied", "omitted"}
               /\ e.mkey = workItemIssues[n].mkey
               /\ e.source = workItemIssues[n].source
  <1> DEFINE doc == workItemIssues[n]
             e == materializationEntryForBinding(n)
             applied == newResult("applied", doc.id, doc.version, 0)
             omitted == newResult("omitted", 0, 0, 0)
  <1>1. /\ DOMAIN applied = ResultFields /\ applied.code = "applied"
        /\ DOMAIN omitted = ResultFields /\ omitted.code = "omitted"
    BY DEF newResult, ResultFields
  <1>2. /\ e.mkey = doc.mkey /\ e.source = doc.source
        /\ e.result = IF doc.omitted THEN omitted ELSE markReplayed(applied)
    BY DEF materializationEntryForBinding
  <1> HIDE DEF applied, omitted, e
  <1>3. /\ DOMAIN markReplayed(applied) = ResultFields
        /\ markReplayed(applied).code = "applied"
    BY <1>1, ReplayShape
  <1>4. DOMAIN e.result = ResultFields /\ e.result.code \in {"applied", "omitted"}
    BY <1>1, <1>2, <1>3
  <1> QED
    BY <1>2, <1>4 DEF e

\* A materialization key with an issue has exactly one.
LEMMA FindBinding ==
    ASSUME StoreInv, NEW mkey, BindingNumbers(mkey) # {}
    PROVE  /\ findMaterializationBinding(mkey) \in DOMAIN workItemIssues
           /\ workItemIssues[findMaterializationBinding(mkey)].mkey = mkey
           /\ BindingNumbers(mkey) = {findMaterializationBinding(mkey)}
  <1>1. PICK n \in BindingNumbers(mkey) : TRUE
    OBVIOUS
  <1>2. BindingNumbers(mkey) = {n}
    BY <1>1 DEF BindingNumbers, StoreInv, OneIssuePerIdentity
  <1>3. n \in DOMAIN workItemIssues /\ n \in Nat /\ workItemIssues[n].mkey = mkey
    BY <1>1 DEF BindingNumbers, StoreInv, IsSeq
  <1>4. findMaterializationBinding(mkey) = n
    BY <1>2, <1>3 DEF findMaterializationBinding, First
  <1> QED
    BY <1>2, <1>3, <1>4

\* Looking a key up in the issues: afterwards a key without an entry has no
\* issue.
LEMMA LoadEntryFacts ==
    ASSUME StoreInv, NEW mkey
    PROVE  LET i == loadMaterializationEntryLocked(mkey, idx)
           IN  /\ IndexOK(i)
               /\ \A f \in IndexFields \ {"materialized"} : i[f] = idx[f]
               /\ (\A e \in i.materialized : e.mkey # mkey) =>
                    BindingNumbers(mkey) = {}
               /\ \A e \in i.materialized :
                    \/ e \in idx.materialized
                    \/ /\ BindingNumbers(mkey) # {}
                       /\ e = materializationEntryForBinding(
                                findMaterializationBinding(mkey))
  <1> DEFINE i == loadMaterializationEntryLocked(mkey, idx)
             new == materializationEntryForBinding(
                      findMaterializationBinding(mkey))
  <1>0. IndexOK(idx)
    BY DEF StoreInv
  <1>1. DOMAIN new.result = ResultFields
    BY BindingEntry
  <1>2. BindingNumbers(mkey) # {} => new.mkey = mkey
    BY BindingEntry, FindBinding
  <1> HIDE DEF new
  <1>3. CASE DurableBindings(mkey, idx) = {}
    <2>1. i = idx
      BY <1>3 DEF loadMaterializationEntryLocked
    <2>2. (\A e \in idx.materialized : e.mkey # mkey) => BindingNumbers(mkey) = {}
      BY <1>3 DEF DurableBindings
    <2> HIDE DEF i
    <2> QED
      BY <1>0, <2>1, <2>2 DEF i
  <1>4. CASE DurableBindings(mkey, idx) # {}
    <2>0. BindingNumbers(mkey) # {}
      BY <1>4 DEF DurableBindings
    <2>1. i = [idx EXCEPT !.materialized = @ \cup {new}]
      BY <1>4 DEF loadMaterializationEntryLocked, new
    <2>2. /\ DOMAIN i = IndexFields
          /\ \A f \in IndexFields \ {"materialized"} : i[f] = idx[f]
          /\ i.materialized = idx.materialized \cup {new}
      BY <1>0, <2>1 DEF IndexOK, IndexFields
    <2> HIDE DEF i
    <2>3. IndexOK(i)
      BY <1>0, <1>1, <2>2 DEF IndexOK, IndexFields
    <2> QED
      BY <1>2, <2>0, <2>2, <2>3 DEF i, new
  <1> QED
    BY <1>3, <1>4

\* The document a materialization creates is written under its key once.
LEMMA ApplyOut ==
    ASSUME StoreInv, NEW c \in Call, c.op = "materialize", NEW w, NEW i,
           IndexOK(i), NEW omitted \in BOOLEAN, CanBind(c)
    PROVE  OutcomeOK(c, applyMaterialization(c, w, i, omitted))
  <1> DEFINE doc == NewWorkItem(c, omitted)
             docs == IF Durable(w.write) THEN Append(workItemIssues, doc)
                                         ELSE workItemIssues
             result == IF omitted THEN newResult("omitted", 0, 0, 0)
                       ELSE newResult("applied", c.item, 1, 0)
             bound == [i EXCEPT !.materialized = @ \cup
                         {[mkey |-> c.mkey, source |-> doc.source,
                           result |-> result]}]
             out == applyMaterialization(c, w, i, omitted)
  <1>1. out = IF w.write = "failed" THEN Refuse(i, "WMS_UNAVAILABLE")
        ELSE IF w.write = "ok" \/ (w.write = "lost" /\ w.rescan)
          THEN Outcome(requestIssues, docs, bound, TRUE, result)
        ELSE Outcome(requestIssues, docs, i, w.write = "lost",
                     rejectedResult("UNKNOWN_MUTATION"))
    BY DEF applyMaterialization
  <1>2. DOMAIN result = ResultFields /\ NotRefused(result)
    BY NotRefusing DEF newResult, ResultFields
  <1> HIDE DEF result
  <1>3. IndexOK(bound)
    <2>1. /\ DOMAIN bound = IndexFields
          /\ \A f \in IndexFields \ {"materialized"} : bound[f] = i[f]
          /\ bound.materialized = i.materialized \cup
               {[mkey |-> c.mkey, source |-> doc.source, result |-> result]}
      BY DEF IndexOK, IndexFields
    <2> HIDE DEF bound, doc
    <2>2. \A e \in bound.materialized : DOMAIN e.result = ResultFields
      BY <1>2, <2>1 DEF IndexOK
    <2> QED
      BY <2>1, <2>2 DEF IndexOK, IndexFields
  <1>4. c.item \in Items \cup {None}
    BY DEF Call
  <1> SUFFICES OutcomeOK(c, out)
    OBVIOUS
  <1> HIDE DEF out, bound, doc
  <1>5. CASE w.write = "failed"
    BY <1>1, <1>5, RefuseOut
  <1>6. CASE w.write # "failed" /\ (w.write = "ok" \/ (w.write = "lost" /\ w.rescan))
    <2>1. out = Outcome(requestIssues, Append(workItemIssues, doc), bound, TRUE,
                        result)
      BY <1>1, <1>6 DEF Durable
    <2>2. /\ DOMAIN out = OutcomeFields /\ out.requests = requestIssues
          /\ out.items = Append(workItemIssues, doc) /\ out.idx = bound
          /\ out.effect = TRUE /\ out.result = result
      BY <2>1 DEF Outcome, OutcomeFields
    <2>3. BindOut(c, out)
      BY <2>2, <1>4 DEF BindOut, doc
    <2> QED
      BY <2>2, <2>3, <1>2, <1>3 DEF OutcomeOK
  <1>7. CASE w.write \notin {"failed", "ok", "lost"}
    <2>1. out = Outcome(requestIssues, workItemIssues, i, FALSE,
                        rejectedResult("UNKNOWN_MUTATION"))
      BY <1>1, <1>7 DEF Durable
    <2> QED
      BY <2>1, RefuseOut DEF Refuse
  <1>8. CASE w.write = "lost" /\ ~ w.rescan
    <2>1. out = Outcome(requestIssues, Append(workItemIssues, doc), i, TRUE,
                        rejectedResult("UNKNOWN_MUTATION"))
      BY <1>1, <1>8 DEF Durable
    <2>2. /\ DOMAIN out = OutcomeFields /\ out.requests = requestIssues
          /\ out.items = Append(workItemIssues, doc) /\ out.idx = i
          /\ out.effect = TRUE
          /\ out.result = rejectedResult("UNKNOWN_MUTATION")
      BY <2>1 DEF Outcome, OutcomeFields
    <2>3. BindOut(c, out)
      BY <2>2, <1>4 DEF BindOut, doc
    <2> QED
      BY <2>2, <2>3, NotRefusing
         DEF OutcomeOK, rejectedResult, newResult, ResultFields
  <1> QED
    BY <1>5, <1>6, <1>7, <1>8

\* What a materialization does once its target has been read.
LEMMA MaterializeOutcome ==
    ASSUME StoreInv, NEW c \in Call, c.op = "materialize", NEW w
    PROVE  OutcomeOK(c, materializeLocked(c, w))
  <1> DEFINE i == loadMaterializationEntryLocked(c.mkey, idx)
             item == CurrentItem(c.item)
             verdict == Evaluate(c, item, [now |-> 0])
             out == materializeLocked(c, w)
             entry == CHOOSE e \in i.materialized : e.mkey = c.mkey
  <1>1. out = IF \E e \in i.materialized : e.mkey = c.mkey
                THEN checkMaterializationLocked(c, i)
              ELSE IF verdict = "allowed"
                THEN applyMaterialization(c, w, i, FALSE)
              ELSE IF verdict = "omitted"
                THEN applyMaterialization(c, w, i, TRUE)
              ELSE Refuse(i, verdict)
    BY DEF materializeLocked
  <1>2. /\ IndexOK(i)
        /\ (\A e \in i.materialized : e.mkey # c.mkey) =>
             BindingNumbers(c.mkey) = {}
    BY LoadEntryFacts
  <1> SUFFICES OutcomeOK(c, out)
    OBVIOUS
  <1>3. verdict # "applied"
    BY VerdictFacts
  <1>4. verdict \in {"allowed", "omitted"} =>
          /\ WorkItemNumbers(c.item) = {}
          /\ Evaluate(c, NoItem, [now |-> 0]) \in {"allowed", "omitted"}
    <2>1. verdict \in {"allowed", "omitted"} => item.state = "initial"
      <3> HIDE DEF item
      <3> QED
        BY VerdictFacts
    <2>2. WorkItemNumbers(c.item) = {} => item = NoItem
      BY DEF CurrentItem
    <2> QED
      BY <2>1, <2>2, InitialItem
  <1> HIDE DEF out, i, verdict
  <1>5. CASE \E e \in i.materialized : e.mkey = c.mkey
    <2>1. entry \in i.materialized
      BY <1>5
    <2>2. checkMaterializationLocked(c, i) =
            IF c.source.item # c.item \/ c.source.defect = "tested-candidate"
              THEN Refuse(i, "PRECONDITION_FAILED")
            ELSE IF SourceFingerprint(c.source) # entry.source
              THEN Refuse(i, "IDEMPOTENCY_CONFLICT")
            ELSE Return(i, markReplayed(entry.result))
      BY DEF checkMaterializationLocked
    <2> HIDE DEF entry
    <2>3. DOMAIN entry.result = ResultFields
      BY <2>1, <1>2 DEF IndexOK
    <2>4. /\ OutcomeOK(c, Refuse(i, "PRECONDITION_FAILED"))
          /\ OutcomeOK(c, Refuse(i, "IDEMPOTENCY_CONFLICT"))
      BY <1>2, RefuseOut
    <2>5. OutcomeOK(c, Return(i, markReplayed(entry.result)))
      BY <1>2, <2>3, ReplayOut
    <2> QED
      BY <1>1, <1>5, <2>2, <2>4, <2>5
  <1>6. CASE ~ \E e \in i.materialized : e.mkey = c.mkey
    <2>1. verdict \in {"allowed", "omitted"} =>
            \A omitted \in BOOLEAN :
              OutcomeOK(c, applyMaterialization(c, w, i, omitted))
      BY <1>2, <1>4, <1>6, ApplyOut DEF CanBind
    <2>2. OutcomeOK(c, Refuse(i, verdict))
      BY <1>2, <1>3, RefuseOut
    <2> QED
      BY <1>1, <1>6, <2>1, <2>2
  <1> QED
    BY <1>5, <1>6

\* What a claim does once its target has been read.
LEMMA ClaimOutcome ==
    ASSUME StoreInv, NEW c \in Call, c.op = "claim", NEW w,
           idx.fenceSeq < MaxTokens
    PROVE  OutcomeOK(c, claimLocked(c, w))
  <1> DEFINE doc == CurrentItem(c.item)
             verdict == Evaluate(c, doc, [now |-> 0])
             out == claimLocked(c, w)
             n == findWorkItemByID(c.item)
             token == idx.fenceSeq + 1
             i == [idx EXCEPT !.fenceSeq = token]
             result == newResult("applied", doc.id, doc.version,
                                 doc.lastClaim.token)
  <1>1. out = IF doc.state = "initial" THEN Refuse(idx, verdict)
              ELSE IF ~w.link THEN Refuse(idx, "WMS_UNAVAILABLE")
              ELSE IF IsRecordedClaim(c, doc)
                THEN Return(idx, markReplayed(result))
              ELSE IF verdict = "allowed" THEN applyClaim(c, w)
              ELSE Refuse(idx, verdict)
    BY DEF claimLocked, reconcileAppliedClaim
  <1>2. verdict # "applied" /\ IndexOK(idx)
    BY VerdictFacts DEF StoreInv
  <1>3. DOMAIN result = ResultFields
    BY DEF newResult, ResultFields
  <1>4. doc.state # "initial" => WorkItemNumbers(c.item) # {}
    BY InitialItem
  <1> SUFFICES OutcomeOK(c, out)
    OBVIOUS
  <1> HIDE DEF out, doc, verdict, result
  <1>5. /\ OutcomeOK(c, Refuse(idx, verdict))
        /\ OutcomeOK(c, Refuse(idx, "WMS_UNAVAILABLE"))
        /\ OutcomeOK(c, Return(idx, markReplayed(result)))
    BY <1>2, <1>3, RefuseOut, ReplayOut
  <1>6. IndexOK(i)
    BY <1>2, GithubAssumption DEF IndexOK, IndexFields
  <1>7. WorkItemNumbers(c.item) # {} => OutcomeOK(c, applyClaim(c, w))
    <2> SUFFICES ASSUME WorkItemNumbers(c.item) # {}
                 PROVE  OutcomeOK(c, applyClaim(c, w))
      OBVIOUS
    <2> DEFINE written == [workItemIssues EXCEPT
                             ![n] = Claimed(c, workItemIssues[n],
                                         idx.fenceSeq + 1)]
               docs == IF ~Durable(w.write) THEN workItemIssues ELSE written
               ao == applyClaim(c, w)
    <2>1. ao = IF w.write = "ok"
                 THEN Outcome(requestIssues, docs, i, TRUE,
                              newResult("applied", c.item, docs[n].version, token))
                 ELSE Outcome(requestIssues, docs, i, w.write = "lost",
                              rejectedResult(UpdateRejection(w.write)))
      BY DEF applyClaim, Claimed, peekFenceTokenLocked
    <2> SUFFICES OutcomeOK(c, ao)
      OBVIOUS
    <2> HIDE DEF ao, i
    <2>2. CASE w.write \in {"ok", "lost"}
      <3>1. docs = written
        BY <2>2 DEF Durable
      <3> HIDE DEF docs
      <3>2. /\ DOMAIN ao = OutcomeFields /\ ao.requests = requestIssues
            /\ ao.items = written /\ ao.idx = i /\ ao.effect = TRUE
            /\ DOMAIN ao.result = ResultFields /\ NotRefused(ao.result)
        <4>1. CASE w.write = "ok"
          BY <2>1, <3>1, <4>1, NotRefusing
             DEF Outcome, OutcomeFields, newResult, ResultFields
        <4>2. CASE w.write = "lost"
          BY <2>1, <3>1, <4>2, NotRefusing
             DEF Outcome, OutcomeFields, newResult, rejectedResult,
                 ResultFields, UpdateRejection
        <4> QED
          BY <2>2, <4>1, <4>2
      <3>3. ClaimOut(c, ao)
        BY <3>2 DEF ClaimOut
      <3> QED
        BY <3>2, <3>3, <1>6 DEF OutcomeOK
    <2>3. CASE w.write \notin {"ok", "lost"}
      <3>1. ao = Refuse(i, UpdateRejection(w.write))
        BY <2>1, <2>3 DEF Refuse, Durable
      <3>2. UpdateRejection(w.write) # "applied"
        BY DEF UpdateRejection
      <3> QED
        BY <3>1, <3>2, <1>6, RefuseOut
    <2> QED
      BY <2>2, <2>3
  <1> QED
    BY <1>1, <1>4, <1>5, <1>7

-----------------------------------------------------------------------------
(* Every call ends in one of the outcomes.                                 *)

\* A scan that is made at most once leaves the indexes well formed.
LEMMA EnsureFacts ==
    ASSUME StoreInv, NEW i, i = ensureRequestsHydratedLocked(idx)
    PROVE  /\ IndexOK(i)
           /\ \A f \in IndexFields \ {"semantic", "requestSeq",
                                      "requestsHydrated"} : i[f] = idx[f]
  <1> DEFINE j == hydrateRequestsLocked(idx)
  <1>1. IndexOK(idx)
    BY DEF StoreInv
  <1>2. /\ IndexOK(j)
        /\ \A f \in IndexFields \ {"semantic", "requestSeq"} : j[f] = idx[f]
    BY <1>1, HydrateFacts
  <1>3. i = IF idx.requestsHydrated THEN idx
            ELSE [j EXCEPT !.requestsHydrated = TRUE]
    BY DEF ensureRequestsHydratedLocked
  <1> HIDE DEF j
  <1>4. CASE idx.requestsHydrated
    BY <1>1, <1>3, <1>4
  <1>5. CASE ~ idx.requestsHydrated
    <2>1. /\ DOMAIN i = IndexFields
          /\ \A f \in IndexFields \ {"requestsHydrated"} : i[f] = j[f]
      BY <1>2, <1>3, <1>5 DEF IndexOK, IndexFields
    <2>2. IndexOK(i)
      BY <1>2, <2>1 DEF IndexOK, IndexFields
    <2> QED
      BY <1>2, <2>1, <2>2
  <1> QED
    BY <1>4, <1>5

\* Each of the four handlers finishes with a well-formed outcome.
LEMMA ExecuteOutcome ==
    ASSUME StoreInv, NEW c \in calls, NEW w, Execute(c, w)
    PROVE  \E out : OutcomeOK(c, out) /\ Finish(c, out)
  <1>1. c \in Call /\ IndexOK(idx)
    BY DEF StoreInv
  <1>2. OutcomeOK(c, Refuse(idx, "WMS_UNAVAILABLE"))
    BY <1>1, RefuseOut
  <1>3. Entries(c) # {} => OutcomeOK(c, checkIdempotencyLocked(c, idx))
    BY <1>1, KnownKeyOut
  <1>4. CASE CreateRequest(c, w)
    <2> DEFINE out == IF Entries(c) # {} THEN checkIdempotencyLocked(c, idx)
                      ELSE Remembering(c, createRequestLocked(c, w))
    <2>1. c.op = "create" /\ CreateWithinBound(c) /\ Finish(c, out)
      BY <1>4 DEF CreateRequest
    <2>2. Entries(c) = {} => OutcomeOK(c, Remembering(c, createRequestLocked(c, w)))
      BY <1>1, <2>1, CreateOutcome, RememberOut
    <2>3. OutcomeOK(c, out)
      BY <1>3, <2>2
    <2> QED
      BY <2>1, <2>3
  <1>5. CASE MutateRequest(c, w)
    <2> DEFINE i == ensureRequestsHydratedLocked(idx)
               out == IF ~idx.requestsHydrated /\ ~w.scan
                        THEN Refuse(idx, "WMS_UNAVAILABLE")
                      ELSE IF Entries(c) # {} THEN checkIdempotencyLocked(c, i)
                      ELSE Remembering(c, MutateLoaded(c, w, i))
    <2>1. c.op \in MutateOps /\ Finish(c, out)
      BY <1>5 DEF MutateRequest, MutateOps
    <2>2. IndexOK(i)
      BY EnsureFacts
    <2> HIDE DEF i
    <2>3. Entries(c) # {} => OutcomeOK(c, checkIdempotencyLocked(c, i))
      BY <2>2, KnownKeyOut
    <2>4. OutcomeOK(c, Remembering(c, MutateLoaded(c, w, i)))
      BY <1>1, <2>1, <2>2, MutateOutcome, RememberOut
    <2>5. OutcomeOK(c, out)
      BY <1>2, <2>3, <2>4
    <2> QED
      BY <2>1, <2>5
  <1>6. CASE Materialize(c, w)
    <2> DEFINE refusal == Refuse(idx, "WMS_UNAVAILABLE")
               kept == [refusal EXCEPT !.idx = rememberIdempotencyLocked(
                                                  idx, c, refusal.result)]
               out == IF ~w.load \/ (c.source.deps # {} /\ ~w.link)
                        THEN Refuse(idx, "WMS_UNAVAILABLE")
                      ELSE IF Entries(c) # {} THEN checkIdempotencyLocked(c, idx)
                      ELSE IF /\ \A e \in idx.materialized : e.mkey # c.mkey
                              /\ ~w.scan
                        THEN kept
                      ELSE Remembering(c, materializeLocked(c, w))
    <2>1. c.op = "materialize" /\ Finish(c, out)
      BY <1>6 DEF Materialize
    <2>2. OutcomeOK(c, Remembering(c, materializeLocked(c, w)))
      BY <1>1, <2>1, MaterializeOutcome, RememberOut
    <2>3. OutcomeOK(c, kept)
      <3>1. /\ DOMAIN refusal = OutcomeFields
            /\ DOMAIN refusal.result = ResultFields
            /\ refusal.requests = requestIssues /\ refusal.items = workItemIssues
            /\ refusal.effect = FALSE
        BY DEF Refuse, Outcome, OutcomeFields, rejectedResult, newResult,
               ResultFields
      <3> HIDE DEF refusal
      <3>2. IndexOK(rememberIdempotencyLocked(idx, c, refusal.result))
        BY <1>1, <3>1, RememberIndex
      <3>3. /\ DOMAIN kept = OutcomeFields
            /\ kept.result = refusal.result
            /\ kept.requests = requestIssues /\ kept.items = workItemIssues
            /\ kept.effect = FALSE
            /\ kept.idx = rememberIdempotencyLocked(idx, c, refusal.result)
        BY <3>1 DEF OutcomeFields
      <3> HIDE DEF kept
      <3>4. QuietOut(c, kept)
        BY <2>1, <3>3 DEF QuietOut, Linking
      <3> QED
        BY <3>1, <3>2, <3>3, <3>4 DEF OutcomeOK
    <2> HIDE DEF kept
    <2>4. OutcomeOK(c, out)
      BY <1>2, <1>3, <2>2, <2>3
    <2> QED
      BY <2>1, <2>4
  <1>7. CASE Claim(c, w)
    <2> DEFINE out == IF ~w.load THEN Refuse(idx, "WMS_UNAVAILABLE")
                      ELSE IF Entries(c) # {} THEN checkIdempotencyLocked(c, idx)
                      ELSE Remembering(c, claimLocked(c, w))
    <2>1. c.op = "claim" /\ idx.fenceSeq < MaxTokens /\ Finish(c, out)
      BY <1>7 DEF Claim
    <2>2. OutcomeOK(c, Remembering(c, claimLocked(c, w)))
      BY <1>1, <2>1, ClaimOutcome, RememberOut
    <2>3. OutcomeOK(c, out)
      BY <1>2, <1>3, <2>2
    <2> QED
      BY <2>1, <2>3
  <1> QED
    BY <1>4, <1>5, <1>6, <1>7 DEF Execute

-----------------------------------------------------------------------------
(* No identity ever has two issues.                                        *)

\* The work item that a request write touches keeps its identity and state.
LEMMA UpdatedItem ==
    ASSUME StoreInv, NEW id, WorkItemNumbers(id) # {}, NEW prio, NEW new,
           RequestOK(new), NEW items, items = updateWorkItemIssue(id, prio, new)
    PROVE  /\ IsSeq(items) /\ DOMAIN items = DOMAIN workItemIssues
           /\ \A n \in DOMAIN items :
                /\ ItemOK(items[n])
                /\ \A f \in ItemFields \ {"prio", "request", "cs"} :
                       items[n][f] = workItemIssues[n][f]
           /\ items[findWorkItemByID(id)].request = new.id
           /\ prio # None => items[findWorkItemByID(id)].prio = prio
  <1> DEFINE n == findWorkItemByID(id)
             item == workItemIssues[n]
             doc == [item EXCEPT !.prio = IF prio = None THEN @ ELSE prio,
                                 !.request = new.id,
                                 !.cs = IF new.cs = None THEN @ ELSE new.cs]
  <1>1. n \in DOMAIN workItemIssues
    BY FindWorkItem
  <1>2. ItemOK(item) /\ IsSeq(workItemIssues)
    BY <1>1 DEF StoreInv
  <1>3. items = [workItemIssues EXCEPT ![n] = doc]
    BY DEF updateWorkItemIssue
  <1>4. /\ DOMAIN doc = ItemFields
        /\ \A f \in ItemFields \ {"prio", "request", "cs"} : doc[f] = item[f]
        /\ doc.request = new.id
        /\ prio # None => doc.prio = prio
    BY <1>2 DEF ItemOK, ItemFields
  <1> HIDE DEF doc, n
  <1>5. ItemOK(doc)
    BY <1>2, <1>4 DEF ItemOK, ItemFields, RequestOK
  <1>6. /\ IsSeq(items) /\ DOMAIN items = DOMAIN workItemIssues
        /\ items[n] = doc
        /\ \A m \in DOMAIN workItemIssues : m # n => items[m] = workItemIssues[m]
    <2>1. /\ DOMAIN items = DOMAIN workItemIssues
          /\ items = [m \in DOMAIN workItemIssues |-> items[m]]
          /\ items[n] = doc
          /\ \A m \in DOMAIN workItemIssues : m # n => items[m] = workItemIssues[m]
      BY <1>1, <1>3
    <2> QED
      BY <1>2, <2>1, ReplacedIsSeq
  <1> QED
    BY <1>4, <1>5, <1>6 DEF StoreInv, n

\* The indexes and the history stay well formed in every outcome.
LEMMA FinishRest ==
    ASSUME StoreInv, NEW c \in calls, NEW out, OutcomeOK(c, out), Finish(c, out)
    PROVE  /\ IndexOK(idx') /\ calls' \subseteq Call
           /\ effects' \in [calls' -> 0..2]
  <1>1. idx' = out.idx /\ calls' = calls
    BY DEF Finish
  <1>2. effects' = IF out.effect /\ effects[c] < 2
                     THEN [effects EXCEPT ![c] = @ + 1] ELSE effects
    BY DEF Finish
  <1>3. effects \in [calls -> 0..2] /\ effects[c] \in 0..2
    BY DEF StoreInv
  <1>4. effects' \in [calls -> 0..2]
    BY <1>2, <1>3
  <1> QED
    BY <1>1, <1>4 DEF OutcomeOK, StoreInv

\* Appending a request keeps identifiers and creation keys apart.
LEMMA CreateStore ==
    ASSUME StoreInv, NEW c \in Call, NEW out, CreateOut(c, out),
           requestIssues' = out.requests, workItemIssues' = out.items
    PROVE  /\ IsSeq(requestIssues')
           /\ \A n \in DOMAIN requestIssues' : RequestOK(requestIssues'[n])
           /\ OneIssuePerIdentity'
  <1>1. PICK id \in RequestIds :
          /\ RequestNumbers(id) = {}
          /\ requestIssues' = Append(requestIssues, NewRequest(c, id))
    BY DEF CreateOut
  <1> DEFINE d == NewRequest(c, id)
             k == Len(requestIssues) + 1
  <1>2. d.id = id /\ d.createKey = c.key /\ RequestOK(d)
    BY NoneAssumption DEF NewRequest, RequestOK, RequestFields, CreateOut
  <1>3. /\ IsSeq(requestIssues')
        /\ DOMAIN requestIssues' = DOMAIN requestIssues \cup {k}
        /\ k \notin DOMAIN requestIssues
        /\ requestIssues'[k] = d
        /\ \A n \in DOMAIN requestIssues : requestIssues'[n] = requestIssues[n]
    <2>1. requestIssues' = Append(requestIssues, d) /\ IsSeq(requestIssues)
      BY <1>1 DEF StoreInv
    <2> HIDE DEF d
    <2>2. IsSeq(requestIssues') /\ k \notin DOMAIN requestIssues
      BY <2>1, AppendFacts
    <2>3. DOMAIN requestIssues' = DOMAIN requestIssues \cup {k}
      BY <2>1, AppendFacts
    <2>4. requestIssues'[k] = d
      BY <2>1, AppendFacts
    <2>5. \A n \in DOMAIN requestIssues : requestIssues'[n] = requestIssues[n]
      BY <2>1, AppendFacts
    <2> QED
      BY <2>2, <2>3, <2>4, <2>5
  <1> HIDE DEF d, k
  <1>4. \A n \in DOMAIN requestIssues : requestIssues[n].id # id
    BY <1>1 DEF RequestNumbers
  <1>5. \A n \in DOMAIN requestIssues : requestIssues[n].createKey # c.key
    BY DEF CreateOut, DurableCreates
  <1>6. \A m, n \in DOMAIN requestIssues' :
          m # n => /\ requestIssues'[m].id # requestIssues'[n].id
                   /\ requestIssues'[m].createKey # requestIssues'[n].createKey
    BY <1>2, <1>3, <1>4, <1>5 DEF StoreInv, OneIssuePerIdentity
  <1>7. workItemIssues' = workItemIssues
    BY DEF CreateOut
  <1>8. OneIssuePerIdentity'
    BY <1>6, <1>7 DEF StoreInv, OneIssuePerIdentity
  <1>9. \A n \in DOMAIN requestIssues' : RequestOK(requestIssues'[n])
    BY <1>2, <1>3 DEF StoreInv
  <1> QED
    BY <1>3, <1>8, <1>9

\* The document a rewrite leaves in place of the loaded one.
Written(c, new) ==
    [new EXCEPT !.rev = @ + 1, !.last = lastMutationRecord(c, 0)]

\* A rewrite keeps identifier, creation key and creation call.
LEMMA RewriteRequests ==
    ASSUME StoreInv, NEW c, NEW new, Prepared(c, new), NEW docs,
           docs = updateRequestIssue(c, new)
    PROVE  LET n == findRequestByID(c.req)
           IN  /\ n \in DOMAIN requestIssues /\ requestIssues[n].id = c.req
               /\ RequestNumbers(c.req) = {n}
               /\ IsSeq(docs) /\ DOMAIN docs = DOMAIN requestIssues
               /\ docs[n] = Written(c, new)
               /\ \A m \in DOMAIN docs : m # n => docs[m] = requestIssues[m]
               /\ RequestOK(Written(c, new))
               /\ \A f \in RequestFields \ {"rev", "last"} :
                      Written(c, new)[f] = new[f]
               /\ Written(c, new).rev = new.rev + 1
               /\ Written(c, new).last = lastMutationRecord(c, 0)
  <1> DEFINE n == findRequestByID(c.req)
             d == Written(c, new)
  <1>1. /\ n \in DOMAIN requestIssues /\ requestIssues[n].id = c.req
        /\ RequestNumbers(c.req) = {n}
    BY FindRequest DEF Prepared
  <1>2. /\ DOMAIN d = RequestFields
        /\ \A f \in RequestFields \ {"rev", "last"} : d[f] = new[f]
        /\ d.rev = new.rev + 1 /\ d.last = lastMutationRecord(c, 0)
    BY DEF Written, Prepared, RequestOK, RequestFields
  <1>3. docs = [requestIssues EXCEPT ![n] = d]
    BY DEF updateRequestIssue, Written
  <1> HIDE DEF d, n
  <1>4. RequestOK(d)
    BY <1>2 DEF Prepared, RequestOK, RequestFields
  <1>5. /\ DOMAIN docs = DOMAIN requestIssues
        /\ docs = [m \in DOMAIN requestIssues |-> docs[m]]
        /\ docs[n] = d
        /\ \A m \in DOMAIN docs : m # n => docs[m] = requestIssues[m]
    BY <1>1, <1>3
  <1>6. IsSeq(docs)
    BY <1>5, ReplacedIsSeq DEF StoreInv
  <1> QED
    BY <1>1, <1>2, <1>4, <1>5, <1>6 DEF n, d

\* The requests and work items after a rewrite, position by position.
LEMMA RewriteDocs ==
    ASSUME StoreInv, NEW c, NEW out, RewriteOut(c, out)
    PROVE  /\ IsSeq(out.requests) /\ DOMAIN out.requests = DOMAIN requestIssues
           /\ \A n \in DOMAIN requestIssues :
                /\ RequestOK(out.requests[n])
                /\ out.requests[n].id = requestIssues[n].id
                /\ out.requests[n].createKey = requestIssues[n].createKey
                /\ out.requests[n].createCall = requestIssues[n].createCall
                /\ requestIssues[n].consumed \subseteq out.requests[n].consumed
           /\ IsSeq(out.items) /\ DOMAIN out.items = DOMAIN workItemIssues
           /\ \A n \in DOMAIN workItemIssues :
                /\ ItemOK(out.items[n])
                /\ \A f \in ItemFields \ {"prio", "request", "cs"} :
                       out.items[n][f] = workItemIssues[n][f]
  <1>1. PICK new :
          /\ Prepared(c, new)
          /\ ItemsFor(new, out.items)
          /\ out.effect \in BOOLEAN
          /\ out.requests = IF out.effect THEN updateRequestIssue(c, new)
                                          ELSE requestIssues
    BY DEF RewriteOut
  <1>2. /\ IsSeq(out.items) /\ DOMAIN out.items = DOMAIN workItemIssues
        /\ \A n \in DOMAIN workItemIssues :
             /\ ItemOK(out.items[n])
             /\ \A f \in ItemFields \ {"prio", "request", "cs"} :
                    out.items[n][f] = workItemIssues[n][f]
    <2>1. CASE out.items = workItemIssues
      BY <2>1 DEF StoreInv
    <2>2. CASE out.items # workItemIssues
      <3>1. PICK id \in Items \cup {None} : \E prio :
              /\ WorkItemNumbers(id) # {}
              /\ out.items = updateWorkItemIssue(id, prio, new)
        BY <1>1, <2>2 DEF ItemsFor
      <3>2. PICK prio : /\ WorkItemNumbers(id) # {}
                        /\ out.items = updateWorkItemIssue(id, prio, new)
        BY <3>1
      <3>3. RequestOK(new)
        BY <1>1 DEF Prepared
      <3> QED
        BY <3>2, <3>3, UpdatedItem
    <2> QED
      BY <2>1, <2>2
  <1>3. CASE out.effect = FALSE
    BY <1>1, <1>2, <1>3 DEF StoreInv
  <1>4. CASE out.effect = TRUE
    <2> DEFINE n == findRequestByID(c.req)
               d == Written(c, new)
    <2>1. /\ n \in DOMAIN requestIssues
          /\ IsSeq(out.requests) /\ DOMAIN out.requests = DOMAIN requestIssues
          /\ out.requests[n] = d
          /\ \A m \in DOMAIN requestIssues :
                 m # n => out.requests[m] = requestIssues[m]
          /\ RequestOK(d)
          /\ \A f \in RequestFields \ {"rev", "last"} : d[f] = new[f]
      BY <1>1, <1>4, RewriteRequests
    <2>2. /\ new.id = requestIssues[n].id
          /\ new.createKey = requestIssues[n].createKey
          /\ new.createCall = requestIssues[n].createCall
          /\ requestIssues[n].consumed \subseteq new.consumed
      BY <1>1 DEF Prepared
    <2>3. /\ d.id = new.id /\ d.createKey = new.createKey
          /\ d.createCall = new.createCall /\ d.consumed = new.consumed
      BY <2>1 DEF RequestFields
    <2> HIDE DEF n, d
    <2> QED
      BY <1>2, <2>1, <2>2, <2>3 DEF StoreInv
  <1> QED
    BY <1>1, <1>3, <1>4

\* A rewrite keeps the identities.
LEMMA RewriteStore ==
    ASSUME StoreInv, NEW c, NEW out, RewriteOut(c, out),
           requestIssues' = out.requests, workItemIssues' = out.items
    PROVE  OneIssuePerIdentity'
  <1>1. \A m, n \in DOMAIN requestIssues' :
          m # n => /\ requestIssues'[m].id # requestIssues'[n].id
                   /\ requestIssues'[m].createKey # requestIssues'[n].createKey
    BY RewriteDocs DEF StoreInv, OneIssuePerIdentity
  <1>2. \A n \in DOMAIN workItemIssues' :
          /\ n \in DOMAIN workItemIssues
          /\ workItemIssues'[n].mkey = workItemIssues[n].mkey
          /\ workItemIssues'[n].id = workItemIssues[n].id
          /\ workItemIssues'[n].omitted = workItemIssues[n].omitted
    BY RewriteDocs DEF ItemFields
  <1> QED
    BY <1>1, <1>2 DEF StoreInv, OneIssuePerIdentity

\* The document a materialization creates.
LEMMA NewItemFacts ==
    ASSUME NEW c \in Call, NEW omitted \in BOOLEAN
    PROVE  LET d == NewWorkItem(c, omitted)
           IN  /\ ItemOK(d) /\ d.mkey = c.mkey /\ d.id = c.item
               /\ d.omitted = omitted /\ d.lastClaim = None
               /\ d.source = SourceFingerprint(c.source)
  <1>1. \A done : MaterializedState(c.source, done) \in States \ {"initial"}
    BY DEF MaterializedState, States
  <1>2. NoLease \in Lease
    BY DEF NoLease, Lease
  <1> QED
    BY <1>1, <1>2 DEF NewWorkItem, ItemOK, ItemFields

\* Appending a work item keeps materialization keys and work items apart.
LEMMA BindStore ==
    ASSUME StoreInv, NEW c \in Call, NEW out, BindOut(c, out),
           requestIssues' = out.requests, workItemIssues' = out.items
    PROVE  /\ IsSeq(workItemIssues')
           /\ \A n \in DOMAIN workItemIssues' : ItemOK(workItemIssues'[n])
           /\ OneIssuePerIdentity'
  <1>1. PICK omitted \in BOOLEAN :
          workItemIssues' = Append(workItemIssues, NewWorkItem(c, omitted))
    BY DEF BindOut
  <1> DEFINE d == NewWorkItem(c, omitted)
             k == Len(workItemIssues) + 1
  <1>2. /\ ItemOK(d) /\ d.mkey = c.mkey /\ d.id = c.item /\ d.omitted = omitted
    BY NewItemFacts
  <1> HIDE DEF d
  <1>3. /\ IsSeq(workItemIssues')
        /\ DOMAIN workItemIssues' = DOMAIN workItemIssues \cup {k}
        /\ k \notin DOMAIN workItemIssues
        /\ workItemIssues'[k] = d
        /\ \A n \in DOMAIN workItemIssues : workItemIssues'[n] = workItemIssues[n]
    <2>1. workItemIssues' = Append(workItemIssues, d) /\ IsSeq(workItemIssues)
      BY <1>1 DEF StoreInv, d
    <2>2. IsSeq(workItemIssues') /\ k \notin DOMAIN workItemIssues
      BY <2>1, AppendFacts
    <2>3. DOMAIN workItemIssues' = DOMAIN workItemIssues \cup {k}
      BY <2>1, AppendFacts
    <2>4. workItemIssues'[k] = d
      BY <2>1, AppendFacts
    <2>5. \A n \in DOMAIN workItemIssues : workItemIssues'[n] = workItemIssues[n]
      BY <2>1, AppendFacts
    <2> QED
      BY <2>2, <2>3, <2>4, <2>5
  <1> HIDE DEF k
  <1>4. \A n \in DOMAIN workItemIssues : workItemIssues[n].mkey # c.mkey
    BY DEF BindOut, CanBind, BindingNumbers
  <1>5. \A n \in DOMAIN workItemIssues :
          d.omitted \/ workItemIssues[n].omitted \/ workItemIssues[n].id # c.item
    BY DEF BindOut, CanBind, WorkItemNumbers
  <1>6. \A m, n \in DOMAIN workItemIssues' :
          m # n => /\ workItemIssues'[m].mkey # workItemIssues'[n].mkey
                   /\ \/ workItemIssues'[m].omitted \/ workItemIssues'[n].omitted
                      \/ workItemIssues'[m].id # workItemIssues'[n].id
    BY <1>2, <1>3, <1>4, <1>5 DEF StoreInv, OneIssuePerIdentity
  <1>7. requestIssues' = requestIssues
    BY DEF BindOut
  <1>8. OneIssuePerIdentity'
    BY <1>6, <1>7 DEF StoreInv, OneIssuePerIdentity
  <1>9. \A n \in DOMAIN workItemIssues' : ItemOK(workItemIssues'[n])
    BY <1>2, <1>3 DEF StoreInv
  <1> QED
    BY <1>3, <1>8, <1>9

\* The work items after a claim, position by position.
LEMMA ClaimDocs ==
    ASSUME StoreInv, NEW c \in Call, NEW out, ClaimOut(c, out)
    PROVE  LET n == findWorkItemByID(c.item)
           IN  /\ n \in DOMAIN workItemIssues
               /\ IsSeq(out.items) /\ DOMAIN out.items = DOMAIN workItemIssues
               /\ \A m \in DOMAIN workItemIssues :
                    /\ ItemOK(out.items[m])
                    /\ m # n => out.items[m] = workItemIssues[m]
               /\ \A f \in ItemFields \ {"state", "version", "lease", "lastClaim"} :
                      out.items[n][f] = workItemIssues[n][f]
               /\ out.items[n].state = "building"
               /\ out.items[n].lastClaim =
                    lastMutationRecord(c, idx.fenceSeq + 1)
  <1> DEFINE n == findWorkItemByID(c.item)
             item == workItemIssues[n]
             d == Claimed(c, item, idx.fenceSeq + 1)
  <1>1. n \in DOMAIN workItemIssues
    BY FindWorkItem DEF ClaimOut
  <1>2. ItemOK(item) /\ idx.fenceSeq \in Nat /\ c.subject \in Subjects
    BY <1>1, GithubAssumption DEF StoreInv, IndexOK, Call
  <1>3. /\ DOMAIN d = ItemFields
        /\ \A f \in ItemFields \ {"state", "version", "lease", "lastClaim"} :
               d[f] = item[f]
        /\ d.state = "building" /\ d.version = item.version + 1
        /\ d.lease = startLease(c)
        /\ d.lastClaim = lastMutationRecord(c, idx.fenceSeq + 1)
    BY <1>2 DEF Claimed, ItemOK, ItemFields
  <1>4. out.items = [workItemIssues EXCEPT ![n] = d]
    BY DEF ClaimOut
  <1>5. startLease(c) \in Lease
    BY <1>2 DEF startLease, peekFenceTokenLocked, Lease
  <1> HIDE DEF d, n
  <1>6. ItemOK(d)
    BY <1>2, <1>3, <1>5 DEF ItemOK, ItemFields, States
  <1>7. /\ DOMAIN out.items = DOMAIN workItemIssues
        /\ out.items = [m \in DOMAIN workItemIssues |-> out.items[m]]
        /\ out.items[n] = d
        /\ \A m \in DOMAIN workItemIssues : m # n => out.items[m] = workItemIssues[m]
    BY <1>1, <1>4
  <1>8. IsSeq(out.items)
    BY <1>7, ReplacedIsSeq DEF StoreInv
  <1> QED
    BY <1>1, <1>3, <1>6, <1>7, <1>8 DEF StoreInv, n

\* A claim keeps the identities.
LEMMA ClaimStore ==
    ASSUME StoreInv, NEW c \in Call, NEW out, ClaimOut(c, out),
           requestIssues' = out.requests, workItemIssues' = out.items
    PROVE  OneIssuePerIdentity'
  <1>1. \A n \in DOMAIN workItemIssues' :
          /\ n \in DOMAIN workItemIssues
          /\ workItemIssues'[n].mkey = workItemIssues[n].mkey
          /\ workItemIssues'[n].id = workItemIssues[n].id
          /\ workItemIssues'[n].omitted = workItemIssues[n].omitted
    BY ClaimDocs DEF ItemFields
  <1>2. requestIssues' = requestIssues
    BY DEF ClaimOut
  <1> QED
    BY <1>1, <1>2 DEF StoreInv, OneIssuePerIdentity

\* Every outcome keeps the store sound.
LEMMA FinishStore ==
    ASSUME StoreInv, NEW c \in calls, NEW out, OutcomeOK(c, out), Finish(c, out)
    PROVE  StoreInv'
  <1>1. /\ IndexOK(idx') /\ calls' \subseteq Call
        /\ effects' \in [calls' -> 0..2]
    BY FinishRest
  <1>2. /\ requestIssues' = out.requests /\ workItemIssues' = out.items
        /\ c \in Call
    BY DEF Finish, StoreInv
  <1>3. CASE QuietOut(c, out)
    <2>1. requestIssues' = requestIssues /\ workItemIssues' = workItemIssues
      BY <1>2, <1>3 DEF QuietOut
    <2> QED
      BY <1>1, <2>1 DEF StoreInv, OneIssuePerIdentity
  <1>4. CASE CreateOut(c, out)
    <2>1. workItemIssues' = workItemIssues
      BY <1>2, <1>4 DEF CreateOut
    <2> QED
      BY <1>1, <1>2, <1>4, <2>1, CreateStore DEF StoreInv
  <1>5. CASE RewriteOut(c, out)
    BY <1>1, <1>2, <1>5, RewriteDocs, RewriteStore DEF StoreInv
  <1>6. CASE BindOut(c, out)
    <2>1. requestIssues' = requestIssues
      BY <1>2, <1>6 DEF BindOut
    <2> QED
      BY <1>1, <1>2, <1>6, <2>1, BindStore DEF StoreInv
  <1>7. CASE ClaimOut(c, out)
    <2>1. requestIssues' = requestIssues
      BY <1>2, <1>7 DEF ClaimOut
    <2> QED
      BY <1>1, <1>2, <1>7, <2>1, ClaimDocs, ClaimStore DEF StoreInv
  <1> QED
    BY <1>3, <1>4, <1>5, <1>6, <1>7 DEF OutcomeOK

\* A new process starts with well-formed indexes.
LEMMA NewIndexesOK == IndexOK(newIndexes)
  <1>1. [s \in ChangeSets |-> [rev |-> "absent", prio |-> None]]
          \in [ChangeSets -> ChangeSetState]
    BY DEF ChangeSetState
  <1> QED
    BY <1>1, GithubAssumption DEF newIndexes, IndexOK, IndexFields

\* A step other than a call changes the indexes only.
IndexStep ==
    \/ QueryRequests
    \/ QueryWorkItems
    \/ \E c \in calls : c.approval # None /\ SeedApproval(c.approval)
    \/ \E c \in calls, seed \in Seeds : c.cs # None /\ SeedChangeSet(c.cs, seed)
    \/ Restart

\* Such a step keeps the indexes well formed and answers nobody.
LEMMA IndexStepFacts ==
    ASSUME StoreInv, IndexStep
    PROVE  /\ UNCHANGED issueVars
           /\ IndexOK(idx')
           /\ reply' = NoReply
           /\ idx'.idempotency \subseteq idx.idempotency
           /\ \A e \in idx'.materialized :
                \/ e \in idx.materialized
                \/ \E n \in DOMAIN workItemIssues :
                       e = materializationEntryForBinding(n)
  <1>0. IndexOK(idx)
    BY DEF StoreInv
  <1>1. CASE QueryRequests
    <2>1. /\ idx' = ensureRequestsHydratedLocked(idx)
          /\ UNCHANGED issueVars /\ reply' = NoReply
      BY <1>1 DEF QueryRequests
    <2>2. IndexOK(idx') /\ \A f \in {"idempotency", "materialized"} :
                               idx'[f] = idx[f]
      BY <2>1, EnsureFacts DEF IndexFields
    <2> QED
      BY <2>1, <2>2
  <1>2. CASE QueryWorkItems
    <2> DEFINE missing == {workItemIssues[n].mkey : n \in DOMAIN workItemIssues}
                            \ {e.mkey : e \in idx.materialized}
               new == {materializationEntryForBinding(
                         findMaterializationBinding(k)) : k \in missing}
    <2>1. /\ idx' = [idx EXCEPT !.materialized = @ \cup new]
          /\ UNCHANGED issueVars /\ reply' = NoReply
      BY <1>2 DEF QueryWorkItems, hydrateWorkItemsLocked
    <2>2. \A e \in new : /\ DOMAIN e.result = ResultFields
                         /\ \E n \in DOMAIN workItemIssues :
                                e = materializationEntryForBinding(n)
      <3> SUFFICES ASSUME NEW k \in missing
                   PROVE  LET n == findMaterializationBinding(k)
                          IN  /\ DOMAIN materializationEntryForBinding(n).result
                                   = ResultFields
                              /\ n \in DOMAIN workItemIssues
        OBVIOUS
      <3>1. BindingNumbers(k) # {}
        BY DEF BindingNumbers
      <3> QED
        BY <3>1, FindBinding, BindingEntry
    <2> HIDE DEF new
    <2>3. /\ DOMAIN idx' = IndexFields
          /\ \A f \in IndexFields \ {"materialized"} : idx'[f] = idx[f]
          /\ idx'.materialized = idx.materialized \cup new
      BY <1>0, <2>1 DEF IndexOK, IndexFields
    <2>4. IndexOK(idx')
      BY <1>0, <2>2, <2>3 DEF IndexOK, IndexFields
    <2> QED
      BY <2>1, <2>2, <2>3, <2>4 DEF IndexFields
  <1>3. CASE \E c \in calls : c.approval # None /\ SeedApproval(c.approval)
    <2>1. PICK a : SeedApproval(a)
      BY <1>3
    <2>2. /\ idx' = [idx EXCEPT !.approvals[a] = "unused"]
          /\ UNCHANGED issueVars /\ reply' = NoReply
      BY <2>1 DEF SeedApproval
    <2>3. /\ DOMAIN idx' = IndexFields
          /\ \A f \in IndexFields \ {"approvals"} : idx'[f] = idx[f]
      BY <1>0, <2>2 DEF IndexOK, IndexFields
    <2>4. IndexOK(idx')
      BY <1>0, <2>3 DEF IndexOK, IndexFields
    <2> QED
      BY <2>2, <2>3, <2>4 DEF IndexFields
  <1>4. CASE \E c \in calls, seed \in Seeds :
                c.cs # None /\ SeedChangeSet(c.cs, seed)
    <2>1. PICK c \in calls, seed \in Seeds :
             c.cs # None /\ SeedChangeSet(c.cs, seed)
      BY <1>4
    <2>2. /\ idx' = [idx EXCEPT !.changeSets[c.cs] = seed[c.cs]]
          /\ UNCHANGED issueVars /\ reply' = NoReply
      BY <2>1 DEF SeedChangeSet
    <2>3. c.cs \in ChangeSets
      BY <2>1 DEF StoreInv, Call
    <2>4. seed[c.cs] \in ChangeSetState
      BY <2>3, GithubAssumption DEF ChangeSetState
    <2>5. /\ DOMAIN idx' = IndexFields
          /\ \A f \in IndexFields \ {"changeSets"} : idx'[f] = idx[f]
          /\ idx'.changeSets = [idx.changeSets EXCEPT ![c.cs] = seed[c.cs]]
      BY <1>0, <2>2 DEF IndexOK, IndexFields
    <2>6. idx'.changeSets \in [ChangeSets -> ChangeSetState]
      BY <1>0, <2>3, <2>4, <2>5 DEF IndexOK
    <2>7. IndexOK(idx')
      BY <1>0, <2>5, <2>6 DEF IndexOK, IndexFields
    <2> QED
      BY <2>2, <2>5, <2>7 DEF IndexFields
  <1>5. CASE Restart
    <2>1. idx' = newIndexes /\ UNCHANGED issueVars /\ reply' = NoReply
      BY <1>5 DEF Restart
    <2>2. newIndexes.idempotency = {} /\ newIndexes.materialized = {}
      BY DEF newIndexes
    <2> QED
      BY <2>1, <2>2, NewIndexesOK
  <1> QED
    BY <1>1, <1>2, <1>3, <1>4, <1>5 DEF IndexStep

\* Every step is a call, a step of the process alone, or a stutter.
LEMMA StepKinds ==
    ASSUME StoreInv, [Next]_vars
    PROVE  \/ \E c \in calls : \E out : OutcomeOK(c, out) /\ Finish(c, out)
           \/ IndexStep
           \/ UNCHANGED vars
  BY ExecuteOutcome DEF Next, IndexStep

\* The invariant of the store is inductive.
LEMMA StoreStep ==
    ASSUME StoreInv, [Next]_vars
    PROVE  StoreInv'
  <1>1. ASSUME NEW c \in calls, NEW out, OutcomeOK(c, out), Finish(c, out)
        PROVE  StoreInv'
    BY <1>1, FinishStore
  <1>2. CASE IndexStep
    <2>1. UNCHANGED issueVars /\ IndexOK(idx')
      BY <1>2, IndexStepFacts
    <2> QED
      BY <2>1 DEF issueVars, StoreInv, OneIssuePerIdentity
  <1>3. CASE UNCHANGED vars
    BY <1>3 DEF vars, issueVars, StoreInv, OneIssuePerIdentity
  <1> QED
    BY <1>1, <1>2, <1>3, StepKinds

\* It holds of the empty store and a new process.
LEMMA StoreInit ==
    ASSUME Init
    PROVE  StoreInv
  <1>1. IsSeq(requestIssues) /\ IsSeq(workItemIssues)
    BY DEF Init, IsSeq
  <1>2. calls \subseteq Call /\ effects \in [calls -> 0..2]
    BY GithubAssumption DEF Init
  <1>3. DOMAIN requestIssues = {} /\ DOMAIN workItemIssues = {}
    BY DEF Init
  <1> QED
    BY <1>1, <1>2, <1>3, NewIndexesOK
       DEF Init, StoreInv, OneIssuePerIdentity

\* It implies the property the runs check.
LEMMA StoreInvSound ==
    ASSUME StoreInv
    PROVE  StoreIsSound
  <1>1. TypeOK
    BY DEF StoreInv, TypeOK, RequestOK, ItemOK, IndexOK
  <1> QED
    BY <1>1 DEF StoreInv, StoreIsSound

\* The durable issues keep their types, and whatever is lost, repeated or
\* restarted, no identifier, creation key, work item or materialization key
\* ever has two of them.
THEOREM StoreStaysSound == Spec => []StoreIsSound
  <1>1. Init => StoreInv
    BY StoreInit
  <1>2. StoreInv /\ [Next]_vars => StoreInv'
    BY StoreStep
  <1>3. StoreInv => StoreIsSound
    BY StoreInvSound
  <1> QED
    BY <1>1, <1>2, <1>3, PTL DEF Spec

-----------------------------------------------------------------------------
(* A Gate approval is applied at most once.                                *)

\* The request that an applied approval is bound to records it.
ApprovalRecorded ==
    \A c \in calls :
        c.op = "refine" /\ effects[c] > 0 =>
          \E n \in DOMAIN requestIssues :
             /\ requestIssues[n].id = ApprovalScope[c.approval].req
             /\ c.approval \in requestIssues[n].consumed

ApprovalInv == StoreInv /\ ApprovalRecorded /\ ApprovalAppliedOnce

\* No step removes a request, changes its identifier or forgets an approval
\* that it has consumed.
LEMMA RequestsGrow ==
    ASSUME StoreInv, NEW c \in calls, NEW out, OutcomeOK(c, out)
    PROVE  \A n \in DOMAIN requestIssues :
             /\ n \in DOMAIN out.requests
             /\ out.requests[n].id = requestIssues[n].id
             /\ requestIssues[n].consumed \subseteq out.requests[n].consumed
  <1>1. CASE CreateOut(c, out)
    <2>1. PICK id \in RequestIds :
            out.requests = Append(requestIssues, NewRequest(c, id))
      BY <1>1 DEF CreateOut
    <2> DEFINE d == NewRequest(c, id)
    <2>2. out.requests = Append(requestIssues, d) /\ IsSeq(requestIssues)
      BY <2>1 DEF StoreInv
    <2> HIDE DEF d
    <2>3. DOMAIN out.requests = DOMAIN requestIssues \cup {Len(requestIssues) + 1}
      BY <2>2, AppendFacts
    <2>4. \A n \in DOMAIN requestIssues : out.requests[n] = requestIssues[n]
      BY <2>2, AppendFacts
    <2> QED
      BY <2>3, <2>4
  <1>2. CASE RewriteOut(c, out)
    BY <1>2, RewriteDocs
  <1>3. CASE out.requests = requestIssues
    BY <1>3
  <1> QED
    BY <1>1, <1>2, <1>3 DEF OutcomeOK, QuietOut, BindOut, ClaimOut

\* A refinement with an effect finds its approval in no request, and leaves
\* it in the one it is bound to.
LEMMA RefineConsumes ==
    ASSUME StoreInv, NEW c \in calls, c.op = "refine", NEW out,
           OutcomeOK(c, out), out.effect = TRUE
    PROVE  \E n \in DOMAIN requestIssues :
             /\ RequestNumbers(ApprovalScope[c.approval].req) = {n}
             /\ c.approval \notin requestIssues[n].consumed
             /\ n \in DOMAIN out.requests
             /\ out.requests[n].id = ApprovalScope[c.approval].req
             /\ c.approval \in out.requests[n].consumed
  <1>1. RewriteOut(c, out)
    BY DEF OutcomeOK, QuietOut, CreateOut, BindOut, ClaimOut
  <1>2. PICK new :
          /\ Prepared(c, new)
          /\ out.requests = updateRequestIssue(c, new)
    BY <1>1 DEF RewriteOut
  <1> DEFINE n == findRequestByID(c.req)
  <1>3. /\ n \in DOMAIN requestIssues /\ requestIssues[n].id = c.req
        /\ RequestNumbers(c.req) = {n}
        /\ DOMAIN out.requests = DOMAIN requestIssues
        /\ out.requests[n] = Written(c, new)
        /\ Written(c, new).id = new.id /\ Written(c, new).consumed = new.consumed
    BY <1>2, RewriteRequests DEF RequestFields
  <1>4. /\ c.approval \notin requestIssues[n].consumed
        /\ ApprovalScope[c.approval].req = c.req
        /\ new.consumed = requestIssues[n].consumed \cup {c.approval}
        /\ new.id = requestIssues[n].id
    BY <1>2 DEF Prepared
  <1> HIDE DEF n
  <1> QED
    BY <1>3, <1>4

\* Calls keep the approval invariant.
LEMMA ApprovalCall ==
    ASSUME ApprovalInv, NEW c \in calls, NEW out, OutcomeOK(c, out), Finish(c, out)
    PROVE  ApprovalRecorded' /\ ApprovalAppliedOnce'
  <1>0. StoreInv /\ ApprovalRecorded /\ ApprovalAppliedOnce
    BY DEF ApprovalInv
  <1>1. /\ requestIssues' = out.requests /\ calls' = calls
        /\ effects' = IF out.effect /\ effects[c] < 2
                        THEN [effects EXCEPT ![c] = @ + 1] ELSE effects
    BY DEF Finish
  <1>2. \A n \in DOMAIN requestIssues :
          /\ n \in DOMAIN requestIssues'
          /\ requestIssues'[n].id = requestIssues[n].id
          /\ requestIssues[n].consumed \subseteq requestIssues'[n].consumed
    BY <1>0, <1>1, RequestsGrow
  <1>3. effects \in [calls -> 0..2]
    BY <1>0 DEF StoreInv
  <1>4. CASE c.op = "refine" /\ out.effect = TRUE
    <2>1. PICK n \in DOMAIN requestIssues :
             /\ RequestNumbers(ApprovalScope[c.approval].req) = {n}
             /\ c.approval \notin requestIssues[n].consumed
             /\ n \in DOMAIN out.requests
             /\ out.requests[n].id = ApprovalScope[c.approval].req
             /\ c.approval \in out.requests[n].consumed
      BY <1>0, <1>4, RefineConsumes
    <2>2. \A d \in calls : d.op = "refine" /\ d.approval = c.approval =>
                             effects[d] = 0
      <3> SUFFICES ASSUME NEW d \in calls, d.op = "refine",
                          d.approval = c.approval, effects[d] # 0
                   PROVE  FALSE
        OBVIOUS
      <3>1. effects[d] > 0
        BY <1>3
      <3>2. PICK m \in DOMAIN requestIssues :
               /\ requestIssues[m].id = ApprovalScope[c.approval].req
               /\ c.approval \in requestIssues[m].consumed
        BY <1>0, <3>1 DEF ApprovalRecorded
      <3>3. m \in RequestNumbers(ApprovalScope[c.approval].req)
        BY <3>2 DEF RequestNumbers
      <3> QED
        BY <2>1, <3>2, <3>3
    <2>3. effects[c] = 0
      BY <2>2, <1>4
    <2>4. /\ effects'[c] = 1
          /\ \A d \in calls : d # c => effects'[d] = effects[d]
      BY <1>1, <1>3, <1>4, <2>3
    <2>5. ApprovalAppliedOnce'
      <3> SUFFICES ASSUME NEW d \in calls, NEW e \in calls,
                          d.op = "refine", e.op = "refine",
                          d.approval = e.approval,
                          effects'[d] > 0, effects'[e] > 0
                   PROVE  d = e /\ effects'[d] = 1
        BY <1>1 DEF ApprovalAppliedOnce
      <3>1. CASE d = c
        <4>1. e = c
          BY <2>2, <2>4, <3>1
        <4> QED
          BY <2>4, <3>1, <4>1
      <3>2. CASE e = c
        <4>1. d = c
          BY <2>2, <2>4, <3>2
        <4> QED
          BY <2>4, <3>2, <4>1
      <3>3. CASE d # c /\ e # c
        BY <1>0, <2>4, <3>3 DEF ApprovalAppliedOnce
      <3> QED
        BY <3>1, <3>2, <3>3
    <2>6. ApprovalRecorded'
      <3> SUFFICES ASSUME NEW d \in calls, d.op = "refine", effects'[d] > 0
                   PROVE  \E m \in DOMAIN requestIssues' :
                            /\ requestIssues'[m].id = ApprovalScope[d.approval].req
                            /\ d.approval \in requestIssues'[m].consumed
        BY <1>1 DEF ApprovalRecorded
      <3>1. CASE d = c
        BY <1>1, <2>1, <3>1
      <3>2. CASE d # c
        BY <1>0, <1>2, <2>4, <3>2 DEF ApprovalRecorded
      <3> QED
        BY <3>1, <3>2
    <2> QED
      BY <2>5, <2>6
  <1>5. CASE ~ (c.op = "refine" /\ out.effect = TRUE)
    <2>1. \A d \in calls : d.op = "refine" => effects'[d] = effects[d]
      <3>1. out.effect \in BOOLEAN
        BY DEF OutcomeOK, QuietOut, CreateOut, RewriteOut, BindOut, ClaimOut
      <3>2. CASE out.effect = FALSE
        BY <1>1, <3>2
      <3>3. CASE out.effect = TRUE
        <4>1. c.op # "refine"
          BY <1>5, <3>3
        <4> QED
          BY <1>1, <1>3, <4>1
      <3> QED
        BY <3>1, <3>2, <3>3
    <2>2. ApprovalAppliedOnce'
      BY <1>0, <1>1, <2>1 DEF ApprovalAppliedOnce
    <2>3. ApprovalRecorded'
      BY <1>0, <1>1, <1>2, <2>1 DEF ApprovalRecorded
    <2> QED
      BY <2>2, <2>3
  <1> QED
    BY <1>4, <1>5

\* The approval invariant is inductive.
LEMMA ApprovalStep ==
    ASSUME ApprovalInv, [Next]_vars
    PROVE  ApprovalInv'
  <1>0. StoreInv /\ ApprovalRecorded /\ ApprovalAppliedOnce
    BY DEF ApprovalInv
  <1>1. StoreInv'
    BY <1>0, StoreStep
  <1>2. ASSUME NEW c \in calls, NEW out, OutcomeOK(c, out), Finish(c, out)
        PROVE  ApprovalRecorded' /\ ApprovalAppliedOnce'
    BY <1>2, ApprovalCall
  <1>3. ASSUME IndexStep \/ UNCHANGED vars
        PROVE  ApprovalRecorded' /\ ApprovalAppliedOnce'
    <2>1. UNCHANGED issueVars
      BY <1>0, <1>3, IndexStepFacts DEF vars
    <2>2. calls' = calls /\ requestIssues' = requestIssues /\ effects' = effects
      BY <2>1 DEF issueVars
    <2>3. ApprovalRecorded'
      BY <1>0, <2>2 DEF ApprovalRecorded
    <2>4. ApprovalAppliedOnce'
      BY <1>0, <2>2 DEF ApprovalAppliedOnce
    <2> QED
      BY <2>3, <2>4
  <1>4. ApprovalRecorded' /\ ApprovalAppliedOnce'
    <2>1. CASE \E c \in calls : \E out : OutcomeOK(c, out) /\ Finish(c, out)
      <3> PICK c \in calls : \E out : OutcomeOK(c, out) /\ Finish(c, out)
        BY <2>1
      <3> PICK out : OutcomeOK(c, out) /\ Finish(c, out)
        OBVIOUS
      <3> QED
        BY <1>2
    <2> QED
      BY <1>0, <1>3, <2>1, StepKinds
  <1> QED
    BY <1>1, <1>4 DEF ApprovalInv

\* An approval authorizes at most one durable refinement, which takes effect
\* once, although the answer to it may be lost and processes come and go.
THEOREM ApprovalOnce == Spec => []ApprovalAppliedOnce
  <1>1. Init => ApprovalInv
    <2> SUFFICES ASSUME Init
                 PROVE  ApprovalInv
      OBVIOUS
    <2>1. StoreInv
      BY StoreInit
    <2>2. \A c \in calls : effects[c] = 0
      BY DEF Init
    <2> QED
      BY <2>1, <2>2 DEF ApprovalInv, ApprovalRecorded, ApprovalAppliedOnce
  <1>2. ApprovalInv /\ [Next]_vars => ApprovalInv'
    BY ApprovalStep
  <1>3. ApprovalInv => ApprovalAppliedOnce
    BY DEF ApprovalInv
  <1> QED
    BY <1>1, <1>2, <1>3, PTL DEF Spec

-----------------------------------------------------------------------------
(* An answer stands for every write.                                       *)

WrittenInv == StoreInv /\ AppliedMeansAllWritten

\* What the answer to this call says of one issue.
LinksCarry(c, n) ==
    LET doc == requestIssues[n]
        set == idx.changeSets[doc.cs]
    IN  /\ c.op # "link-change-set" =>
             /\ doc.item # None => CurrentItem(doc.item).request = doc.id
             /\ ItemCarries(doc)
        /\ c.op = "update-priority" /\ doc.cs # None => set.prio = doc.prio
        /\ c.op = "link-change-set" =>
             doc.cs = c.cs /\ set.prio \in {None, doc.prio}

\* A call that has just been applied has written the request and what is
\* linked to it.
LEMMA WrittenCall ==
    ASSUME StoreInv, NEW c \in calls, NEW out, OutcomeOK(c, out), Finish(c, out)
    PROVE  AppliedMeansAllWritten'
  <1>1. /\ requestIssues' = out.requests /\ workItemIssues' = out.items
        /\ idx' = out.idx /\ reply' = [call |-> c, result |-> out.result]
    BY DEF Finish
  <1> SUFFICES ASSUME c.op \in Linking, out.result.code = "applied",
                      ~ out.result.replayed,
                      NEW m \in RequestNumbers(c.req)'
               PROVE  LinksCarry(c, m)'
    BY <1>1 DEF AppliedMeansAllWritten, JustAnswered, LinksCarry
  <1>2. JustApplied(out.result)
    BY DEF JustApplied
  <1>3. RewriteOut(c, out)
    BY <1>2 DEF OutcomeOK, QuietOut, CreateOut, BindOut, ClaimOut, Linking
  <1>4. PICK new :
          /\ Prepared(c, new)
          /\ out.requests = updateRequestIssue(c, new)
          /\ AllWritten(c, new, out.items, out.idx)
    BY <1>2, <1>3 DEF RewriteOut
  <1> DEFINE n == findRequestByID(c.req)
             doc == Written(c, new)
  <1>5. /\ n \in DOMAIN requestIssues /\ requestIssues[n].id = c.req
        /\ RequestNumbers(c.req) = {n}
        /\ DOMAIN requestIssues' = DOMAIN requestIssues
        /\ requestIssues'[n] = doc
        /\ \A k \in DOMAIN requestIssues : k # n =>
                requestIssues'[k] = requestIssues[k]
        /\ doc.id = new.id /\ doc.item = new.item /\ doc.prio = new.prio
        /\ doc.cs = new.cs
    BY <1>1, <1>4, RewriteRequests DEF RequestFields
  <1> HIDE DEF n
  <1>6. m = n
    BY <1>5 DEF RequestNumbers
  <1>7. /\ c.op = "update-priority" /\ doc.cs # None =>
             idx'.changeSets[doc.cs].prio = doc.prio
        /\ c.op = "link-change-set" =>
             doc.cs = c.cs /\ idx'.changeSets[doc.cs].prio \in {None, doc.prio}
    BY <1>1, <1>4, <1>5 DEF AllWritten
  <1>8. ASSUME new.item # None, c.op # "link-change-set"
        PROVE  /\ CurrentItem(new.item)'.request = new.id
               /\ new.prio # None => CurrentItem(new.item)'.prio = new.prio
    <2> DEFINE k == findWorkItemByID(new.item)
    <2>1. /\ WorkItemNumbers(new.item) # {}
          /\ workItemIssues' = updateWorkItemIssue(new.item, new.prio, new)
      BY <1>1, <1>4, <1>8 DEF AllWritten
    <2>2. /\ k \in DOMAIN workItemIssues /\ WorkItemNumbers(new.item) = {k}
          /\ k \in Nat
      BY <2>1, FindWorkItem DEF StoreInv, IsSeq
    <2>3. RequestOK(new)
      BY <1>4 DEF Prepared
    <2>4. /\ DOMAIN workItemIssues' = DOMAIN workItemIssues
          /\ \A j \in DOMAIN workItemIssues' :
                /\ workItemIssues'[j].id = workItemIssues[j].id
                /\ workItemIssues'[j].omitted = workItemIssues[j].omitted
          /\ workItemIssues'[k].request = new.id
          /\ new.prio # None => workItemIssues'[k].prio = new.prio
      BY <2>1, <2>3, UpdatedItem DEF ItemFields
    <2> HIDE DEF k
    <2>5. WorkItemNumbers(new.item)' = {k}
      BY <2>2, <2>4 DEF WorkItemNumbers
    <2>6. findWorkItemByID(new.item)' = k
      BY <2>2, <2>5 DEF findWorkItemByID, First
    <2>7. CurrentItem(new.item)' = workItemIssues'[k]
      BY <2>5, <2>6 DEF CurrentItem
    <2> QED
      BY <2>4, <2>7
  <1> DEFINE now == requestIssues'[m]
  <1>9. /\ now.item = new.item /\ now.id = new.id /\ now.prio = new.prio
        /\ now = doc
    BY <1>5, <1>6
  <1> HIDE DEF doc
  <1>10. CASE c.op = "link-change-set" \/ new.item = None
    BY <1>7, <1>9, <1>10 DEF LinksCarry, ItemCarries
  <1>11. CASE c.op # "link-change-set" /\ new.item # None
    BY <1>7, <1>8, <1>9, <1>11
       DEF LinksCarry, ItemCarries, CurrentItem, WorkItemNumbers,
           findWorkItemByID
  <1> QED
    BY <1>10, <1>11

\* A step other than a call answers nobody, and a stutter changes nothing.
LEMMA WrittenStep ==
    ASSUME WrittenInv, [Next]_vars
    PROVE  WrittenInv'
  <1>0. StoreInv /\ AppliedMeansAllWritten
    BY DEF WrittenInv
  <1>1. StoreInv'
    BY <1>0, StoreStep
  <1>2. ASSUME NEW c \in calls, NEW out, OutcomeOK(c, out), Finish(c, out)
        PROVE  AppliedMeansAllWritten'
    BY <1>0, <1>2, WrittenCall
  <1>3. ASSUME IndexStep
        PROVE  AppliedMeansAllWritten'
    <2>1. reply'.call = None
      BY <1>0, <1>3, IndexStepFacts DEF NoReply
    <2> QED
      BY <2>1 DEF AppliedMeansAllWritten, JustAnswered
  <1>4. ASSUME UNCHANGED vars
        PROVE  AppliedMeansAllWritten'
    BY <1>0, <1>4
       DEF vars, issueVars, AppliedMeansAllWritten, JustAnswered, ItemCarries,
           RequestNumbers, CurrentItem, WorkItemNumbers, findWorkItemByID, First
  <1>5. AppliedMeansAllWritten'
    <2>1. CASE \E c \in calls : \E out : OutcomeOK(c, out) /\ Finish(c, out)
      <3> PICK c \in calls : \E out : OutcomeOK(c, out) /\ Finish(c, out)
        BY <2>1
      <3> PICK out : OutcomeOK(c, out) /\ Finish(c, out)
        OBVIOUS
      <3> QED
        BY <1>2
    <2> QED
      BY <1>0, <1>3, <1>4, <2>1, StepKinds
  <1> QED
    BY <1>1, <1>5 DEF WrittenInv

\* An answer "applied" to a change of the priority or the links is given only
\* when every record the call writes carries it.
THEOREM AnswersAreWritten == Spec => []AppliedMeansAllWritten
  <1>1. Init => WrittenInv
    <2> SUFFICES ASSUME Init
                 PROVE  WrittenInv
      OBVIOUS
    <2>1. StoreInv
      BY StoreInit
    <2>2. reply.call = None
      BY DEF Init, NoReply
    <2> QED
      BY <2>1, <2>2 DEF WrittenInv, AppliedMeansAllWritten, JustAnswered
  <1>2. WrittenInv /\ [Next]_vars => WrittenInv'
    BY WrittenStep
  <1>3. WrittenInv => AppliedMeansAllWritten
    BY DEF WrittenInv
  <1> QED
    BY <1>1, <1>2, <1>3, PTL DEF Spec

-----------------------------------------------------------------------------
(* A retry is recognised.                                                  *)

\* No other call uses the key of this one.
OwnKey(c) == \A d \in calls : d.key = c.key => d = c

\* The issues do not record the call, and it cannot make its work item.
Unwritten(c) == ~ Recorded(c) /\ (c.op = "materialize" => ~ CanBind(c))

\* A record of a mutation stands next to the revision the mutation wrote.
RecordsOK ==
    \A n \in DOMAIN requestIssues :
      LET doc == requestIssues[n]
      IN  /\ doc.createCall.content \in Contents
          /\ doc.last # None =>
               doc.last.call.op \in MutateOps /\ doc.rev = doc.last.call.rev + 1

\* A cached materialization stands for a binding among the issues.
Cached(e, items) ==
    /\ e.result.code \in {"applied", "omitted"}
    /\ \E n \in DOMAIN items : items[n].mkey = e.mkey /\ items[n].source = e.source

CacheOK == \A e \in idx.materialized : Cached(e, workItemIssues)

\* A key that no two calls share keeps a refusal only of a call that has not
\* been written and will not be.
KeysOK ==
    \A e \in idx.idempotency :
       /\ \E d \in calls : e.key = d.key /\ e.call = requestFingerprint(d)
       /\ \A c \in calls :
            e.key = c.key /\ OwnKey(c) /\ ~ NotRefused(e.result) => Unwritten(c)

RetryInv == StoreInv /\ RecordsOK /\ CacheOK /\ KeysOK /\ RetryIsRecognized

\* The indexes remember the same keys, and cache bindings that are there.
Kept(i, items) ==
    /\ i.idempotency = idx.idempotency
    /\ \A e \in i.materialized : e \in idx.materialized \/ Cached(e, items)

SameMemory(i) ==
    i.idempotency = idx.idempotency /\ i.materialized = idx.materialized

\* A call that the process does not know is refused only if it is unwritten.
FreshOut(c, out) ==
    /\ Kept(out.idx, out.items)
    /\ ~ NotRefused(out.result) => Unwritten(c)

\* Only mutations are recorded as the last one.
LEMMA RecordedBy ==
    ASSUME StoreInv, RecordsOK, NEW c \in Call
    PROVE  /\ c.op = "create" /\ Recorded(c) =>
                c.content \in Contents /\
                \E n \in DurableCreates(c) :
                   requestIssues[n].createCall = requestFingerprint(c)
           /\ c.op \in MutateOps /\ Recorded(c) =>
                \E n \in RequestNumbers(c.req) :
                   /\ requestIssues[n].last # None
                   /\ requestIssues[n].last = lastMutationRecord(c, 0)
                   /\ requestIssues[n].rev # c.rev
           /\ c.op = "materialize" /\ Recorded(c) =>
                /\ \E n \in BindingNumbers(c.mkey) :
                      workItemIssues[n].source = SourceFingerprint(c.source)
                /\ Evaluate(c, NoItem, [now |-> 0]) \in {"allowed", "omitted"}
           /\ c.op = "claim" /\ Recorded(c) =>
                /\ WorkItemNumbers(c.item) # {}
                /\ IsRecordedClaim(c, CurrentItem(c.item))
  <1> DEFINE Last(n) == /\ requestIssues[n].last # None
                        /\ requestIssues[n].last = lastMutationRecord(c, 0)
             Made(n) == requestIssues[n].createCall = requestFingerprint(c)
  <1>1. /\ requestFingerprint(c).op = c.op /\ requestFingerprint(c).rev = c.rev
        /\ requestFingerprint(c).content = c.content
    BY DEF Call, requestFingerprint
  <1>2. lastMutationRecord(c, 0).call = requestFingerprint(c)
    BY DEF lastMutationRecord
  <1>3. \A n \in RequestNumbers(c.req) :
          Last(n) => c.op \in MutateOps /\ requestIssues[n].rev = c.rev + 1
    BY <1>1, <1>2 DEF RequestNumbers, RecordsOK
  <1>4. c.rev \in Nat
    BY DEF Call
  <1>5. \A n \in RequestNumbers(c.req) :
          Last(n) => c.op \in MutateOps /\ requestIssues[n].rev # c.rev
    BY <1>3, <1>4
  <1>6. \A n \in DurableCreates(c) : Made(n) => c.content \in Contents
    BY <1>1 DEF DurableCreates, RecordsOK
  <1>7. Recorded(c) =>
          \/ c.op = "create" /\ \E n \in DurableCreates(c) : Made(n)
          \/ /\ c.op = "materialize"
             /\ \E n \in BindingNumbers(c.mkey) :
                   workItemIssues[n].source = SourceFingerprint(c.source)
             /\ Evaluate(c, NoItem, [now |-> 0]) \in {"allowed", "omitted"}
          \/ /\ c.op = "claim" /\ WorkItemNumbers(c.item) # {}
             /\ IsRecordedClaim(c, CurrentItem(c.item))
          \/ \E n \in RequestNumbers(c.req) : Last(n)
    BY DEF Recorded
  <1>8. MutateOps \cap {"create", "materialize", "claim"} = {}
    BY DEF MutateOps
  <1> HIDE DEF Last, Made
  <1>9. /\ c.op = "create" /\ Recorded(c) =>
             c.content \in Contents /\ \E n \in DurableCreates(c) : Made(n)
        /\ c.op \in MutateOps /\ Recorded(c) =>
             \E n \in RequestNumbers(c.req) :
                Last(n) /\ requestIssues[n].rev # c.rev
    BY <1>5, <1>6, <1>7, <1>8
  <1>10. c.op = "materialize" /\ Recorded(c) =>
           /\ \E n \in BindingNumbers(c.mkey) :
                 workItemIssues[n].source = SourceFingerprint(c.source)
           /\ Evaluate(c, NoItem, [now |-> 0]) \in {"allowed", "omitted"}
    BY <1>5, <1>7, <1>8
  <1>11. c.op = "claim" /\ Recorded(c) =>
           /\ WorkItemNumbers(c.item) # {}
           /\ IsRecordedClaim(c, CurrentItem(c.item))
    BY <1>5, <1>7, <1>8
  <1> QED
    BY <1>9, <1>10, <1>11 DEF Last, Made

\* Indexes with the same memory keep it.
LEMMA SameIsKept ==
    ASSUME NEW i, SameMemory(i), NEW items
    PROVE  Kept(i, items)
  BY DEF SameMemory, Kept

\* A refusal of a call that is not recorded, or with no verdict on it.
LEMMA FreshRefusal ==
    ASSUME NEW c, NEW i, Kept(i, workItemIssues), NEW code,
           code = "WMS_UNAVAILABLE" \/ Unwritten(c)
    PROVE  FreshOut(c, Refuse(i, code))
  BY NotRefusing
     DEF FreshOut, Refuse, Outcome

\* A replay of a result that does not refuse.
LEMMA FreshReplay ==
    ASSUME NEW c, NEW i, Kept(i, workItemIssues), NEW result,
           DOMAIN result = ResultFields, result.code \in {"applied", "omitted"}
    PROVE  FreshOut(c, Return(i, markReplayed(result)))
  BY ReplayShape DEF FreshOut, Return, Outcome, NotRefused

\* A creation that an issue records is not refused.
LEMMA CreateFresh ==
    ASSUME StoreInv, RecordsOK, NEW c \in Call, c.op = "create", NEW w
    PROVE  FreshOut(c, createRequestLocked(c, w))
  <1> DEFINE i == hydrateRequestsLocked(idx)
             out == createRequestLocked(c, w)
             id == i.pending[c.key]
             n == CHOOSE m \in DurableCreates(c) : TRUE
             doc == requestIssues[n]
             found == [i EXCEPT !.pending[c.key] = 0, !.semantic[c.content] = id]
             replayed == [i EXCEPT !.pending[c.key] = 0]
             seq == [i EXCEPT !.requestSeq =
                       IF id # 0 THEN i.requestSeq ELSE i.requestSeq + 1]
             own == IF id # 0 THEN id ELSE i.requestSeq + 1
             bound == [i EXCEPT !.requestSeq =
                                  IF id # 0 THEN i.requestSeq ELSE own,
                                !.pending[c.key] = 0, !.semantic[c.content] = own]
             reserved == [i EXCEPT !.requestSeq =
                                     IF id # 0 THEN i.requestSeq ELSE own,
                                   !.pending[c.key] = own]
             docs == IF Durable(w.write)
                       THEN Append(requestIssues, NewRequest(c, own))
                       ELSE requestIssues
  <1>1. SameMemory(idx) /\ SameMemory(i) /\ DOMAIN i = IndexFields
    BY HydrateFacts DEF StoreInv, IndexFields, SameMemory, IndexOK
  <1> HIDE DEF i
  <1>2. /\ SameMemory(found) /\ SameMemory(replayed) /\ SameMemory(seq)
        /\ SameMemory(bound) /\ SameMemory(reserved)
    BY <1>1 DEF SameMemory, IndexFields
  <1>3. c.op # "materialize" /\ (DurableCreates(c) = {} => Unwritten(c))
    BY RecordedBy DEF Unwritten
  <1> SUFFICES FreshOut(c, out)
    OBVIOUS
  <1>4. CASE c.content = None
    <2>1. out = Refuse(idx, "INVALID_REQUEST")
      BY <1>4 DEF createRequestLocked
    <2>2. Unwritten(c)
      BY <1>4, <1>3, RecordedBy, GithubAssumption DEF Unwritten
    <2> QED
      BY <2>1, <2>2, <1>1, SameIsKept, FreshRefusal
  <1>5. CASE c.content # None /\ ~ w.scan
    <2>1. out = Refuse(idx, "WMS_UNAVAILABLE")
      BY <1>5 DEF createRequestLocked
    <2> QED
      BY <2>1, <1>1, SameIsKept, FreshRefusal
  <1>6. CASE c.content # None /\ w.scan /\ DurableCreates(c) # {}
    <2>1. out = IF doc.createCall # requestFingerprint(c)
                  THEN Refuse(i, "IDEMPOTENCY_CONFLICT")
                  ELSE Return(replayed,
                         markReplayed(newResult("applied", doc.id, doc.rev, 0)))
      BY <1>6 DEF createRequestLocked, replayDurableRequestCreate, i
    <2>2. \A m \in DurableCreates(c) : m = n
      <3>1. n \in DurableCreates(c)
        BY <1>6
      <3> HIDE DEF n
      <3> QED
        BY <3>1 DEF DurableCreates, StoreInv, OneIssuePerIdentity
    <2>3. doc.createCall # requestFingerprint(c) => Unwritten(c)
      <3> HIDE DEF n
      <3> QED
        BY <2>2, <1>3, RecordedBy DEF Unwritten
    <2>4. /\ DOMAIN newResult("applied", doc.id, doc.rev, 0) = ResultFields
          /\ newResult("applied", doc.id, doc.rev, 0).code = "applied"
      BY DEF newResult, ResultFields
    <2> HIDE DEF replayed, doc, out
    <2>5. doc.createCall # requestFingerprint(c) =>
            FreshOut(c, Refuse(i, "IDEMPOTENCY_CONFLICT"))
      BY <2>3, <1>1, SameIsKept, FreshRefusal
    <2>6. FreshOut(c, Return(replayed,
                        markReplayed(newResult("applied", doc.id, doc.rev, 0))))
      BY <2>4, <1>2, SameIsKept, FreshReplay
    <2> QED
      BY <2>1, <2>5, <2>6
  <1>7. CASE /\ c.content # None /\ w.scan /\ DurableCreates(c) = {}
             /\ id # 0 /\ (~ w.load \/ RequestNumbers(id) # {})
    <2> DEFINE result == newResult("applied", id,
                                   requestIssues[findRequestByID(id)].rev, 0)
    <2>1. out = IF ~w.load THEN Refuse(i, "WMS_UNAVAILABLE")
                ELSE Return(found, result)
      BY <1>7 DEF createRequestLocked, reconcilePendingRequestCreate, i
    <2>2. NotRefused(result)
      BY NotRefusing
    <2> HIDE DEF out, found, result
    <2>3. FreshOut(c, Return(found, result))
      BY <2>2, <1>2, SameIsKept DEF FreshOut, Return, Outcome
    <2>4. FreshOut(c, Refuse(i, "WMS_UNAVAILABLE"))
      BY <1>1, SameIsKept, FreshRefusal
    <2> QED
      BY <2>1, <2>3, <2>4
  <1>8. CASE /\ c.content # None /\ w.scan /\ DurableCreates(c) = {}
             /\ ~ (id # 0 /\ (~ w.load \/ RequestNumbers(id) # {}))
    <2>1. out = IF i.semantic[c.content] # 0 THEN Refuse(i, "DUPLICATE_REQUEST")
                ELSE persistNewRequestLocked(c, w, i)
      BY <1>8 DEF createRequestLocked, i
    <2>2. persistNewRequestLocked(c, w, i) =
            IF w.write = "failed" THEN Refuse(seq, "WMS_UNAVAILABLE")
            ELSE IF w.write = "ok" \/ (w.write = "lost" /\ w.rescan)
              THEN Outcome(docs, workItemIssues, bound, TRUE,
                           newResult("applied", own, 1, 0))
            ELSE Outcome(docs, workItemIssues, reserved, w.write = "lost",
                         rejectedResult("UNKNOWN_MUTATION"))
      BY DEF persistNewRequestLocked
    <2> HIDE DEF out, seq, bound, reserved, docs, own
    <2>3. FreshOut(c, Refuse(i, "DUPLICATE_REQUEST"))
      BY <1>1, <1>3, <1>8, SameIsKept, FreshRefusal
    <2>4. FreshOut(c, Refuse(seq, "WMS_UNAVAILABLE"))
      BY <1>2, SameIsKept, FreshRefusal
    <2>5. FreshOut(c, Outcome(docs, workItemIssues, bound, TRUE,
                              newResult("applied", own, 1, 0)))
      BY <1>2, SameIsKept, NotRefusing DEF FreshOut, Outcome
    <2>6. FreshOut(c, Outcome(docs, workItemIssues, reserved, w.write = "lost",
                              rejectedResult("UNKNOWN_MUTATION")))
      BY <1>2, SameIsKept, NotRefusing DEF FreshOut, Outcome
    <2> QED
      BY <2>1, <2>2, <2>3, <2>4, <2>5, <2>6
  <1> QED
    BY <1>4, <1>5, <1>6, <1>7, <1>8

\* The write that ends a mutation is not answered with a refusal.
LEMMA WriteFresh ==
    ASSUME NEW c, NEW w, NEW doc, NEW i, SameMemory(i), NEW after,
           SameMemory(after), NEW items
    PROVE  FreshOut(c, WriteRequest(c, w, doc, items, i, after))
  <1> DEFINE docs == IF Durable(w.write) THEN updateRequestIssue(c, doc)
                                         ELSE requestIssues
  <1>1. WriteRequest(c, w, doc, items, i, after) =
          IF w.write = "ok"
            THEN Outcome(docs, items, after, TRUE,
                         newResult("applied", doc.id, doc.rev + 1, 0))
            ELSE Outcome(docs, items, i, w.write = "lost",
                         rejectedResult(UpdateRejection(w.write)))
    BY DEF WriteRequest
  <1> HIDE DEF docs
  <1>2. FreshOut(c, Outcome(docs, items, after, TRUE,
                            newResult("applied", doc.id, doc.rev + 1, 0)))
    BY SameIsKept, NotRefusing DEF FreshOut, Outcome
  <1>3. NotRefused(rejectedResult(UpdateRejection(w.write)))
    BY NotRefusing DEF UpdateRejection
  <1>4. FreshOut(c, Outcome(docs, items, i, w.write = "lost",
                            rejectedResult(UpdateRejection(w.write))))
    BY <1>3, SameIsKept DEF FreshOut, Outcome
  <1> QED
    BY <1>1, <1>2, <1>4

\* Nor is the write of the linked work item before it.
LEMMA WriteBothFresh ==
    ASSUME NEW c, NEW w, NEW id, NEW prio, NEW doc, NEW i, SameMemory(i)
    PROVE  FreshOut(c, WriteBoth(c, w, id, prio, doc, i))
  <1> DEFINE items == IF Durable(w.first) THEN updateWorkItemIssue(id, prio, doc)
                                          ELSE workItemIssues
  <1>1. WriteBoth(c, w, id, prio, doc, i) =
          IF w.first # "ok"
            THEN Outcome(requestIssues, items, i, FALSE,
                         rejectedResult(UpdateRejection(w.first)))
            ELSE WriteRequest(c, w, doc, items, i, i)
    BY DEF WriteBoth
  <1> HIDE DEF items
  <1>2. NotRefused(rejectedResult(UpdateRejection(w.first)))
    BY NotRefusing DEF UpdateRejection
  <1>3. FreshOut(c, Outcome(requestIssues, items, i, FALSE,
                            rejectedResult(UpdateRejection(w.first))))
    BY <1>2, SameIsKept DEF FreshOut, Outcome
  <1>4. FreshOut(c, WriteRequest(c, w, doc, items, i, i))
    BY WriteFresh
  <1> QED
    BY <1>1, <1>3, <1>4

\* A mutation that the request records as its last is not refused: the
\* revision has moved, and the record tells who moved it.
LEMMA MutateFresh ==
    ASSUME StoreInv, RecordsOK, NEW c \in Call, c.op \in MutateOps, NEW w,
           NEW i, IndexOK(i), SameMemory(i)
    PROVE  FreshOut(c, MutateLoaded(c, w, i))
  <1> DEFINE doc == requestIssues[findRequestByID(c.req)]
             refined == refineRequestLocked(c, w, doc, i)
             moved == updatePriorityLocked(c, w, doc, i)
             set == linkChangeSetLocked(c, w, doc, i)
             item == linkWorkItemLocked(c, w, doc, i)
  <1>1. c.op # "materialize" /\ (RequestNumbers(c.req) = {} => Unwritten(c))
    BY RecordedBy DEF Unwritten, MutateOps
  <1>2. RequestNumbers(c.req) # {} => 
          \A n \in RequestNumbers(c.req) : n = findRequestByID(c.req)
    BY FindRequest
  <1>3. RequestNumbers(c.req) # {} /\ c.rev = doc.rev => Unwritten(c)
    <2>1. Recorded(c) => \E n \in RequestNumbers(c.req) : requestIssues[n].rev # c.rev
      BY RecordedBy
    <2> QED
      BY <1>1, <1>2, <2>1 DEF Unwritten
  <1>4. RequestNumbers(c.req) # {} =>
          FreshOut(c, resolveRequestRevision(c, doc, i))
    <2> SUFFICES ASSUME RequestNumbers(c.req) # {}
                 PROVE  FreshOut(c, resolveRequestRevision(c, doc, i))
      OBVIOUS
    <2> DEFINE result == newResult("applied", doc.id, doc.rev, 0)
               Last == doc.last # None /\ doc.last = lastMutationRecord(c, 0)
    <2>1. resolveRequestRevision(c, doc, i) =
            IF Last THEN Return(i, markReplayed(result))
            ELSE Refuse(i, "STALE_REQUEST_REVISION")
      BY DEF resolveRequestRevision
    <2>2. ~ Last => Unwritten(c)
      BY <1>1, <1>2, RecordedBy DEF Unwritten
    <2>3. DOMAIN result = ResultFields /\ result.code = "applied"
      BY DEF newResult, ResultFields
    <2> HIDE DEF Last, result
    <2>4. FreshOut(c, Return(i, markReplayed(result)))
      BY <2>3, SameIsKept, FreshReplay
    <2>5. ~ Last => FreshOut(c, Refuse(i, "STALE_REQUEST_REVISION"))
      BY <2>2, SameIsKept, FreshRefusal
    <2> QED
      BY <2>1, <2>4, <2>5
  <1>5. Unwritten(c) => \A code : FreshOut(c, Refuse(i, code))
    BY SameIsKept, FreshRefusal
  <1>6. FreshOut(c, Refuse(i, "WMS_UNAVAILABLE"))
    BY SameIsKept, FreshRefusal
  <1>7. ASSUME Unwritten(c) PROVE FreshOut(c, refined)
    <2> DEFINE new == Consume([doc EXCEPT !.content = c.content], c.approval)
               after == [i EXCEPT
                    !.semantic = [x \in Contents |->
                        IF x = c.content THEN doc.id
                        ELSE IF x = doc.content THEN 0 ELSE @[x]],
                    !.approvals[c.approval] = "consumed"]
    <2>1. SameMemory(after)
      BY DEF SameMemory, IndexOK, IndexFields
    <2>2. \/ \E code : refined = Refuse(i, code)
          \/ refined = WriteRequest(c, w, new, workItemIssues, i, after)
      BY DEF refineRequestLocked
    <2> HIDE DEF after, refined, new
    <2> QED
      BY <1>5, <1>7, <2>1, <2>2, WriteFresh
  <1>8. ASSUME Unwritten(c) PROVE FreshOut(c, moved)
    <2> DEFINE linked == IF doc.cs = None THEN i
                         ELSE [i EXCEPT !.changeSets[doc.cs].prio = c.prio]
               new == [doc EXCEPT !.prio = c.prio]
    <2>1. SameMemory(linked)
      BY DEF SameMemory, IndexOK, IndexFields
    <2>2. \/ \E code : moved = Refuse(i, code) \/ moved = Refuse(linked, code)
          \/ moved = WriteRequest(c, w, new, workItemIssues, linked, linked)
          \/ moved = WriteBoth(c, w, doc.item, c.prio, new, linked)
      BY DEF updatePriorityLocked
    <2> HIDE DEF linked, moved, new
    <2>3. \A code : FreshOut(c, Refuse(linked, code))
      BY <1>8, <2>1, SameIsKept, FreshRefusal
    <2> QED
      BY <1>5, <1>8, <2>1, <2>2, <2>3, WriteFresh, WriteBothFresh
  <1>9. ASSUME Unwritten(c) PROVE FreshOut(c, set)
    <2> DEFINE new == [doc EXCEPT !.cs = c.cs,
                              !.prio = IF i.changeSets[c.cs].prio = None THEN @
                                       ELSE i.changeSets[c.cs].prio]
    <2>1. \/ \E code : set = Refuse(i, code)
          \/ set = WriteRequest(c, w, new, workItemIssues, i, i)
      BY DEF linkChangeSetLocked
    <2> HIDE DEF set, new
    <2> QED
      BY <1>5, <1>9, <2>1, WriteFresh
  <1>10. ASSUME Unwritten(c) PROVE FreshOut(c, item)
    <2> DEFINE new == [doc EXCEPT !.item = c.item]
    <2>1. \/ \E code : item = Refuse(i, code)
          \/ item = WriteBoth(c, w, c.item, doc.prio, new, i)
      BY DEF linkWorkItemLocked
    <2> HIDE DEF item, new
    <2> QED
      BY <1>5, <1>10, <2>1, WriteBothFresh
  <1>11. MutateLoaded(c, w, i) =
           IF ~w.load THEN Refuse(i, "WMS_UNAVAILABLE")
           ELSE IF RequestNumbers(c.req) = {} THEN Refuse(i, "NOT_FOUND")
           ELSE IF c.rev # doc.rev THEN resolveRequestRevision(c, doc, i)
           ELSE IF c.op = "refine" THEN refined
           ELSE IF c.op = "update-priority" THEN moved
           ELSE IF c.op = "link-change-set" THEN set
           ELSE item
    BY DEF MutateLoaded
  <1> HIDE DEF refined, moved, set, item, doc
  <1> QED
    BY <1>1, <1>3, <1>4, <1>5, <1>6, <1>7, <1>8, <1>9, <1>10, <1>11

\* What a cached materialization answers: the binding stands among the issues.
LEMMA CachedBinding ==
    ASSUME StoreInv, NEW e, Cached(e, workItemIssues), NEW mkey, e.mkey = mkey
    PROVE  /\ BindingNumbers(mkey) # {}
           /\ \A n \in BindingNumbers(mkey) : workItemIssues[n].source = e.source
  <1>1. PICK n \in DOMAIN workItemIssues :
          workItemIssues[n].mkey = e.mkey /\ workItemIssues[n].source = e.source
    BY DEF Cached
  <1>2. \A m \in BindingNumbers(mkey) : m = n
    BY <1>1 DEF BindingNumbers, StoreInv, OneIssuePerIdentity
  <1> QED
    BY <1>1, <1>2 DEF BindingNumbers

\* The rules let a materialization through for the item of its source, which
\* names no tested candidate.
LEMMA SourceAllowed ==
    ASSUME NEW c, NEW item, NEW ev, c.op = "materialize",
           Evaluate(c, item, ev) \in {"allowed", "omitted"}
    PROVE  c.source.item = c.item /\ c.source.defect # "tested-candidate"
  <1>1. Evaluate(c, item, ev) = evaluateMaterialization(c)
    <2>1. validateMutationPreconditions(c, item, ev) # "omitted"
      BY DEF validateMutationPreconditions
    <2> QED
      BY <2>1 DEF Evaluate
  <1> QED
    BY <1>1 DEF evaluateMaterialization

\* The document a materialization writes is the binding it caches.
LEMMA ApplyFresh ==
    ASSUME StoreInv, NEW c, NEW w, NEW i, DOMAIN i = IndexFields,
           Kept(i, workItemIssues), NEW omitted \in BOOLEAN
    PROVE  FreshOut(c, applyMaterialization(c, w, i, omitted))
  <1> DEFINE doc == NewWorkItem(c, omitted)
             docs == IF Durable(w.write) THEN Append(workItemIssues, doc)
                                         ELSE workItemIssues
             result == IF omitted THEN newResult("omitted", 0, 0, 0)
                       ELSE newResult("applied", c.item, 1, 0)
             entry == [mkey |-> c.mkey, source |-> doc.source, result |-> result]
             bound == [i EXCEPT !.materialized = @ \cup {entry}]
  <1>1. applyMaterialization(c, w, i, omitted) =
          IF w.write = "failed" THEN Refuse(i, "WMS_UNAVAILABLE")
          ELSE IF w.write = "ok" \/ (w.write = "lost" /\ w.rescan)
            THEN Outcome(requestIssues, docs, bound, TRUE, result)
          ELSE Outcome(requestIssues, docs, i, w.write = "lost",
                       rejectedResult("UNKNOWN_MUTATION"))
    BY DEF applyMaterialization
  <1>2. NotRefused(result) /\ result.code \in {"applied", "omitted"}
    BY NotRefusing DEF newResult
  <1>3. /\ bound.idempotency = i.idempotency
        /\ bound.materialized = i.materialized \cup {entry}
    BY DEF IndexFields
  <1>4. \A e : Cached(e, workItemIssues) => Cached(e, docs)
    <2>1. /\ IsSeq(workItemIssues)
          /\ docs = Append(workItemIssues, doc) \/ docs = workItemIssues
      BY DEF StoreInv
    <2> HIDE DEF docs, doc
    <2>2. DOMAIN workItemIssues \subseteq DOMAIN docs
      BY <2>1, AppendFacts
    <2>3. \A n \in DOMAIN workItemIssues : docs[n] = workItemIssues[n]
      BY <2>1, AppendFacts
    <2> QED
      BY <2>2, <2>3 DEF Cached
  <1>5. doc.mkey = c.mkey
    BY DEF NewWorkItem
  <1>6. Durable(w.write) => Cached(entry, docs)
    <2> SUFFICES ASSUME Durable(w.write) PROVE Cached(entry, docs)
      OBVIOUS
    <2>1. IsSeq(workItemIssues) /\ docs = Append(workItemIssues, doc)
      BY DEF StoreInv
    <2> HIDE DEF docs, doc
    <2>2. Len(workItemIssues) + 1 \in DOMAIN docs
      BY <2>1, AppendFacts
    <2>3. docs[Len(workItemIssues) + 1] = doc
      BY <2>1, AppendFacts
    <2>4. /\ entry.mkey = doc.mkey /\ entry.source = doc.source
          /\ entry.result = result
      BY <1>5
    <2> HIDE DEF entry, result
    <2> QED
      BY <1>2, <2>2, <2>3, <2>4 DEF Cached
  <1> HIDE DEF bound, entry, docs, result, doc
  <1>7. Durable(w.write) => Kept(bound, docs)
    BY <1>3, <1>4, <1>6 DEF Kept
  <1>8. Kept(i, docs)
    BY <1>4 DEF Kept
  <1>9. FreshOut(c, Refuse(i, "WMS_UNAVAILABLE"))
    BY FreshRefusal
  <1>10. Durable(w.write) =>
           FreshOut(c, Outcome(requestIssues, docs, bound, TRUE, result))
    BY <1>2, <1>7 DEF FreshOut, Outcome
  <1>11. FreshOut(c, Outcome(requestIssues, docs, i, w.write = "lost",
                             rejectedResult("UNKNOWN_MUTATION")))
    BY <1>8, NotRefusing DEF FreshOut, Outcome
  <1>12. w.write \in {"ok", "lost"} => Durable(w.write)
    BY DEF Durable
  <1> QED
    BY <1>1, <1>9, <1>10, <1>11, <1>12

\* A materialization is refused only if no issue binds its key to its source,
\* and none will.
LEMMA MaterializeFresh ==
    ASSUME StoreInv, RecordsOK, CacheOK, NEW c \in Call, c.op = "materialize",
           NEW w
    PROVE  FreshOut(c, materializeLocked(c, w))
  <1> DEFINE i == loadMaterializationEntryLocked(c.mkey, idx)
             item == CurrentItem(c.item)
             verdict == Evaluate(c, item, [now |-> 0])
             entry == CHOOSE e \in i.materialized : e.mkey = c.mkey
             new == materializationEntryForBinding(
                      findMaterializationBinding(c.mkey))
  <1>1. materializeLocked(c, w) =
          IF \E e \in i.materialized : e.mkey = c.mkey
            THEN checkMaterializationLocked(c, i)
          ELSE IF verdict = "allowed" THEN applyMaterialization(c, w, i, FALSE)
          ELSE IF verdict = "omitted" THEN applyMaterialization(c, w, i, TRUE)
          ELSE Refuse(i, verdict)
    BY DEF materializeLocked
  <1>2. /\ DOMAIN i = IndexFields
        /\ \A f \in IndexFields \ {"materialized"} : i[f] = idx[f]
        /\ (\A e \in i.materialized : e.mkey # c.mkey) =>
             BindingNumbers(c.mkey) = {}
        /\ \A e \in i.materialized :
             e \in idx.materialized \/ (BindingNumbers(c.mkey) # {} /\ e = new)
    BY LoadEntryFacts DEF IndexOK
  <1>3. BindingNumbers(c.mkey) # {} => Cached(new, workItemIssues)
    <2> HIDE DEF new
    <2> QED
      BY BindingEntry, FindBinding DEF Cached, new
  <1> HIDE DEF i, new, verdict
  <1>4. Kept(i, workItemIssues) /\ \A e \in i.materialized : Cached(e, workItemIssues)
    BY <1>2, <1>3 DEF Kept, CacheOK, IndexFields
  <1>5. CASE \E e \in i.materialized : e.mkey = c.mkey
    <2>1. entry \in i.materialized /\ entry.mkey = c.mkey
      BY <1>5
    <2>2. checkMaterializationLocked(c, i) =
            IF c.source.item # c.item \/ c.source.defect = "tested-candidate"
              THEN Refuse(i, "PRECONDITION_FAILED")
            ELSE IF SourceFingerprint(c.source) # entry.source
              THEN Refuse(i, "IDEMPOTENCY_CONFLICT")
            ELSE Return(i, markReplayed(entry.result))
      BY DEF checkMaterializationLocked
    <2>3. DOMAIN entry.result = ResultFields
      BY <2>1, LoadEntryFacts DEF IndexOK, i
    <2> HIDE DEF entry
    <2>4. /\ entry.result.code \in {"applied", "omitted"}
          /\ BindingNumbers(c.mkey) # {}
          /\ \A n \in BindingNumbers(c.mkey) :
                workItemIssues[n].source = entry.source
      <3>1. Cached(entry, workItemIssues)
        BY <1>4, <2>1
      <3> QED
        BY <2>1, <3>1, CachedBinding DEF Cached
    <2>5. FreshOut(c, Return(i, markReplayed(entry.result)))
      BY <1>4, <2>3, <2>4, FreshReplay
    <2>6. ~ CanBind(c)
      BY <2>4 DEF CanBind
    <2>7. SourceFingerprint(c.source) # entry.source => Unwritten(c)
      BY <2>4, <2>6, RecordedBy DEF Unwritten
    <2>8. c.source.item # c.item \/ c.source.defect = "tested-candidate" =>
            Unwritten(c)
      BY <2>6, RecordedBy, SourceAllowed DEF Unwritten
    <2> QED
      BY <1>1, <1>4, <1>5, <2>2, <2>5, <2>7, <2>8, FreshRefusal
  <1>6. CASE ~ \E e \in i.materialized : e.mkey = c.mkey
    <2>1. \A omitted \in BOOLEAN :
            FreshOut(c, applyMaterialization(c, w, i, omitted))
      BY <1>2, <1>4, ApplyFresh
    <2>2. ~ Recorded(c)
      BY <1>2, <1>6, RecordedBy
    <2>3. verdict \notin {"allowed", "omitted"} => ~ CanBind(c)
      <3> SUFFICES ASSUME CanBind(c)
                   PROVE  verdict \in {"allowed", "omitted"}
        OBVIOUS
      <3>1. item = NoItem
        BY DEF CanBind, CurrentItem
      <3> QED
        BY <3>1 DEF CanBind, verdict
    <2>4. verdict \notin {"allowed", "omitted"} => FreshOut(c, Refuse(i, verdict))
      BY <1>4, <2>2, <2>3, FreshRefusal DEF Unwritten
    <2> QED
      BY <1>1, <1>6, <2>1, <2>4
  <1> QED
    BY <1>5, <1>6

\* A claim that its work item records is not refused.
LEMMA ClaimFresh ==
    ASSUME StoreInv, RecordsOK, NEW c \in Call, c.op = "claim", NEW w
    PROVE  FreshOut(c, claimLocked(c, w))
  <1> DEFINE doc == CurrentItem(c.item)
             verdict == Evaluate(c, doc, [now |-> 0])
             n == findWorkItemByID(c.item)
             i == [idx EXCEPT !.fenceSeq = peekFenceTokenLocked]
             result == newResult("applied", doc.id, doc.version,
                                 doc.lastClaim.token)
             docs == IF ~Durable(w.write) THEN workItemIssues
                     ELSE [workItemIssues EXCEPT ![n] =
                             [workItemIssues[n] EXCEPT
                                !.state = "building", !.version = @ + 1,
                                !.lease = startLease(c),
                                !.lastClaim = lastMutationRecord(
                                                c, peekFenceTokenLocked)]]
  <1>1. claimLocked(c, w) =
          IF doc.state = "initial" THEN Refuse(idx, verdict)
          ELSE IF ~w.link THEN Refuse(idx, "WMS_UNAVAILABLE")
          ELSE IF IsRecordedClaim(c, doc) THEN Return(idx, markReplayed(result))
          ELSE IF verdict = "allowed" THEN applyClaim(c, w)
          ELSE Refuse(idx, verdict)
    BY DEF claimLocked, reconcileAppliedClaim
  <1>2. applyClaim(c, w) =
          IF w.write = "ok"
            THEN Outcome(requestIssues, docs, i, TRUE,
                         newResult("applied", c.item, docs[n].version,
                                   peekFenceTokenLocked))
            ELSE Outcome(requestIssues, docs, i, w.write = "lost",
                         rejectedResult(UpdateRejection(w.write)))
    BY DEF applyClaim
  <1>3. DOMAIN result = ResultFields /\ result.code = "applied"
    BY DEF newResult, ResultFields
  <1>4. SameMemory(idx) /\ SameMemory(i)
    BY DEF SameMemory, StoreInv, IndexOK, IndexFields
  <1>5. doc.state = "initial" \/ ~ IsRecordedClaim(c, doc) => Unwritten(c)
    BY InitialItem, RecordedBy DEF Unwritten
  <1> HIDE DEF doc, verdict, i, result, docs, n
  <1>6. Unwritten(c) => FreshOut(c, Refuse(idx, verdict))
    BY <1>4, SameIsKept, FreshRefusal
  <1>7. FreshOut(c, Refuse(idx, "WMS_UNAVAILABLE"))
    BY <1>4, SameIsKept, FreshRefusal
  <1>8. FreshOut(c, Return(idx, markReplayed(result)))
    BY <1>3, <1>4, SameIsKept, FreshReplay
  <1>9. NotRefused(rejectedResult(UpdateRejection(w.write)))
    BY NotRefusing DEF UpdateRejection
  <1>10. FreshOut(c, applyClaim(c, w))
    BY <1>2, <1>4, <1>9, SameIsKept, NotRefusing DEF FreshOut, Outcome
  <1> QED
    BY <1>1, <1>5, <1>6, <1>7, <1>8, <1>10

\* What a call leaves under its key: what was there before, if the process
\* knew the key, and otherwise at most its answer.
AnswerOK(c, out) ==
    /\ \A e \in out.idx.materialized :
          e \in idx.materialized \/ Cached(e, out.items)
    /\ Entries(c) # {} =>
         /\ QuietOut(c, out)
         /\ out.idx.idempotency = idx.idempotency
         /\ ~ NotRefused(out.result) =>
              \E e \in Entries(c) :
                 e.call = requestFingerprint(c) => ~ NotRefused(e.result)
    /\ Entries(c) = {} =>
         /\ \A e \in out.idx.idempotency :
              \/ e \in idx.idempotency
              \/ /\ e.key = c.key /\ e.call = requestFingerprint(c)
                 /\ e.result = out.result
         /\ ~ NotRefused(out.result) => Unwritten(c)

\* An outage says nothing about the call.
LEMMA UnavailableAnswer ==
    ASSUME NEW c, NEW i, SameMemory(i)
    PROVE  AnswerOK(c, Refuse(i, "WMS_UNAVAILABLE"))
  <1> DEFINE out == Refuse(i, "WMS_UNAVAILABLE")
  <1>1. /\ out.idx = i /\ out.requests = requestIssues
        /\ out.items = workItemIssues /\ out.effect = FALSE
        /\ out.result = rejectedResult("WMS_UNAVAILABLE")
    BY DEF Refuse, Outcome
  <1>2. NotRefused(out.result)
    BY <1>1, NotRefusing
  <1>3. ~ JustApplied(out.result)
    BY <1>1 DEF JustApplied, rejectedResult, newResult
  <1> HIDE DEF out
  <1>4. QuietOut(c, out)
    BY <1>1, <1>3 DEF QuietOut
  <1>5. AnswerOK(c, out)
    BY <1>1, <1>2, <1>4 DEF AnswerOK, SameMemory
  <1> QED
    BY <1>5 DEF out

\* A key the process knows is answered from its entry.
LEMMA KnownAnswer ==
    ASSUME StoreInv, NEW c, NEW i, SameMemory(i), Entries(c) # {}
    PROVE  AnswerOK(c, checkIdempotencyLocked(c, i))
  <1> DEFINE entry == CHOOSE e \in Entries(c) : TRUE
             out == checkIdempotencyLocked(c, i)
  <1>1. entry \in Entries(c)
    OBVIOUS
  <1>2. out = IF entry.call = requestFingerprint(c)
                THEN Return(i, markReplayed(entry.result))
                ELSE Refuse(i, "IDEMPOTENCY_CONFLICT")
    BY DEF checkIdempotencyLocked
  <1> HIDE DEF entry
  <1>3. DOMAIN entry.result = ResultFields
    BY <1>1 DEF Entries, StoreInv, IndexOK
  <1>4. /\ markReplayed(entry.result).code = entry.result.code
        /\ markReplayed(entry.result).replayed = TRUE
    BY <1>3, ReplayShape
  <1>5. /\ out.idx = i /\ out.requests = requestIssues
        /\ out.items = workItemIssues /\ out.effect = FALSE
        /\ out.result = IF entry.call = requestFingerprint(c)
                          THEN markReplayed(entry.result)
                          ELSE rejectedResult("IDEMPOTENCY_CONFLICT")
    BY <1>2 DEF Return, Refuse, Outcome
  <1> HIDE DEF out
  <1>6. ~ JustApplied(out.result)
    BY <1>4, <1>5 DEF JustApplied, rejectedResult, newResult
  <1>7. QuietOut(c, out)
    BY <1>5, <1>6 DEF QuietOut
  <1>8. ~ NotRefused(out.result) =>
          (entry.call = requestFingerprint(c) => ~ NotRefused(entry.result))
    BY <1>4, <1>5 DEF NotRefused, Determinate
  <1>9. AnswerOK(c, out)
    BY <1>1, <1>5, <1>7, <1>8 DEF AnswerOK, SameMemory
  <1> QED
    BY <1>9 DEF out

\* The answer to a key the process does not know may be kept under it.
LEMMA FreshAnswer ==
    ASSUME NEW c, NEW out, OutcomeOK(c, out), FreshOut(c, out), Entries(c) = {}
    PROVE  AnswerOK(c, Remembering(c, out))
  <1> DEFINE r == Remembering(c, out)
             new == [key |-> c.key, call |-> requestFingerprint(c),
                     result |-> out.result]
             kept == rememberIdempotencyLocked(out.idx, c, out.result)
  <1>1. CASE ~ shouldRememberIdempotency(out.result)
    <2>1. r = out
      BY <1>1 DEF Remembering
    <2> HIDE DEF r
    <2>2. AnswerOK(c, r)
      BY <2>1 DEF AnswerOK, FreshOut, Kept
    <2> QED
      BY <2>2 DEF r
  <1>2. CASE shouldRememberIdempotency(out.result)
    <2>1. r = [out EXCEPT !.idx = kept]
      BY <1>2 DEF Remembering
    <2>2. kept = [out.idx EXCEPT !.idempotency =
                    {e \in out.idx.idempotency : e.key # c.key} \cup {new}]
      BY DEF rememberIdempotencyLocked
    <2>3. /\ kept.idempotency =
               {e \in out.idx.idempotency : e.key # c.key} \cup {new}
          /\ kept.materialized = out.idx.materialized
      BY <2>2 DEF OutcomeOK, IndexOK, IndexFields
    <2> HIDE DEF kept
    <2>4. r.idx = kept /\ r.items = out.items /\ r.result = out.result
      BY <2>1 DEF OutcomeOK, OutcomeFields
    <2> HIDE DEF r
    <2>5. \A e \in r.idx.idempotency :
            \/ e \in idx.idempotency
            \/ /\ e.key = c.key /\ e.call = requestFingerprint(c)
               /\ e.result = out.result
      BY <2>3, <2>4 DEF FreshOut, Kept
    <2>6. AnswerOK(c, r)
      BY <2>3, <2>4, <2>5 DEF AnswerOK, FreshOut, Kept
    <2> QED
      BY <2>6 DEF r
  <1> QED
    BY <1>1, <1>2

\* Every call ends with such an answer.
LEMMA ExecuteAnswer ==
    ASSUME StoreInv, RecordsOK, CacheOK, NEW c \in calls, NEW w, Execute(c, w)
    PROVE  \E out : OutcomeOK(c, out) /\ Finish(c, out) /\ AnswerOK(c, out)
  <1>1. c \in Call /\ IndexOK(idx) /\ SameMemory(idx)
    BY DEF StoreInv, SameMemory
  <1>2. /\ OutcomeOK(c, Refuse(idx, "WMS_UNAVAILABLE"))
        /\ AnswerOK(c, Refuse(idx, "WMS_UNAVAILABLE"))
    BY <1>1, RefuseOut, UnavailableAnswer
  <1>3. Entries(c) # {} =>
          /\ OutcomeOK(c, checkIdempotencyLocked(c, idx))
          /\ AnswerOK(c, checkIdempotencyLocked(c, idx))
    BY <1>1, KnownKeyOut, KnownAnswer
  <1>4. CASE CreateRequest(c, w)
    <2> DEFINE out == IF Entries(c) # {} THEN checkIdempotencyLocked(c, idx)
                      ELSE Remembering(c, createRequestLocked(c, w))
    <2>1. c.op = "create" /\ CreateWithinBound(c) /\ Finish(c, out)
      BY <1>4 DEF CreateRequest
    <2>2. Entries(c) = {} => OutcomeOK(c, createRequestLocked(c, w))
      BY <1>1, <2>1, CreateOutcome
    <2>3. FreshOut(c, createRequestLocked(c, w))
      BY <1>1, <2>1, CreateFresh
    <2>4. Entries(c) = {} =>
            /\ OutcomeOK(c, Remembering(c, createRequestLocked(c, w)))
            /\ AnswerOK(c, Remembering(c, createRequestLocked(c, w)))
      BY <1>1, <2>2, <2>3, RememberOut, FreshAnswer
    <2>5. OutcomeOK(c, out) /\ AnswerOK(c, out)
      BY <1>3, <2>4
    <2> QED
      BY <2>1, <2>5
  <1>5. CASE MutateRequest(c, w)
    <2> DEFINE i == ensureRequestsHydratedLocked(idx)
               out == IF ~idx.requestsHydrated /\ ~w.scan
                        THEN Refuse(idx, "WMS_UNAVAILABLE")
                      ELSE IF Entries(c) # {} THEN checkIdempotencyLocked(c, i)
                      ELSE Remembering(c, MutateLoaded(c, w, i))
    <2>1. c.op \in MutateOps /\ Finish(c, out)
      BY <1>5 DEF MutateRequest, MutateOps
    <2>2. IndexOK(i) /\ SameMemory(i)
      BY EnsureFacts DEF SameMemory, IndexFields
    <2> HIDE DEF i
    <2>3. Entries(c) # {} => /\ OutcomeOK(c, checkIdempotencyLocked(c, i))
                             /\ AnswerOK(c, checkIdempotencyLocked(c, i))
      BY <2>2, KnownKeyOut, KnownAnswer
    <2>4. OutcomeOK(c, MutateLoaded(c, w, i)) /\ FreshOut(c, MutateLoaded(c, w, i))
      BY <1>1, <2>1, <2>2, MutateOutcome, MutateFresh
    <2>5. Entries(c) = {} => /\ OutcomeOK(c, Remembering(c, MutateLoaded(c, w, i)))
                             /\ AnswerOK(c, Remembering(c, MutateLoaded(c, w, i)))
      BY <1>1, <2>4, RememberOut, FreshAnswer
    <2>6. OutcomeOK(c, out) /\ AnswerOK(c, out)
      BY <1>2, <2>3, <2>5
    <2> QED
      BY <2>1, <2>6
  <1>6. CASE Materialize(c, w)
    <2> DEFINE refusal == Refuse(idx, "WMS_UNAVAILABLE")
               kept == [refusal EXCEPT !.idx = rememberIdempotencyLocked(
                                                  idx, c, refusal.result)]
               out == IF ~w.load \/ (c.source.deps # {} /\ ~w.link)
                        THEN Refuse(idx, "WMS_UNAVAILABLE")
                      ELSE IF Entries(c) # {} THEN checkIdempotencyLocked(c, idx)
                      ELSE IF /\ \A e \in idx.materialized : e.mkey # c.mkey
                              /\ ~w.scan
                        THEN kept
                      ELSE Remembering(c, materializeLocked(c, w))
    <2>1. c.op = "materialize" /\ Finish(c, out)
      BY <1>6 DEF Materialize
    <2>2. OutcomeOK(c, materializeLocked(c, w)) /\ FreshOut(c, materializeLocked(c, w))
      BY <1>1, <2>1, MaterializeOutcome, MaterializeFresh
    <2>3. Entries(c) = {} => /\ OutcomeOK(c, Remembering(c, materializeLocked(c, w)))
                             /\ AnswerOK(c, Remembering(c, materializeLocked(c, w)))
      BY <1>1, <2>2, RememberOut, FreshAnswer
    <2>4. OutcomeOK(c, kept) /\ (Entries(c) = {} => AnswerOK(c, kept))
      <3>1. /\ DOMAIN refusal = OutcomeFields
            /\ DOMAIN refusal.result = ResultFields
            /\ refusal.requests = requestIssues /\ refusal.items = workItemIssues
            /\ refusal.effect = FALSE
            /\ refusal.result = rejectedResult("WMS_UNAVAILABLE")
        BY DEF Refuse, Outcome, OutcomeFields, rejectedResult, newResult,
               ResultFields
      <3> DEFINE j == rememberIdempotencyLocked(idx, c, refusal.result)
      <3>2. /\ j.materialized = idx.materialized
            /\ j.idempotency = {e \in idx.idempotency : e.key # c.key} \cup
                 {[key |-> c.key, call |-> requestFingerprint(c),
                   result |-> refusal.result]}
        BY <1>1 DEF rememberIdempotencyLocked, IndexOK, IndexFields
      <3> HIDE DEF refusal
      <3>3. IndexOK(j)
        BY <1>1, <3>1, RememberIndex
      <3> HIDE DEF j
      <3>4. /\ DOMAIN kept = OutcomeFields
            /\ kept.result = refusal.result
            /\ kept.requests = requestIssues /\ kept.items = workItemIssues
            /\ kept.effect = FALSE
            /\ kept.idx = j
        BY <3>1 DEF OutcomeFields, j
      <3> HIDE DEF kept
      <3>5. QuietOut(c, kept)
        BY <2>1, <3>4 DEF QuietOut, Linking
      <3>6. OutcomeOK(c, kept)
        BY <3>1, <3>3, <3>4, <3>5 DEF OutcomeOK
      <3>7. NotRefused(kept.result)
        BY <3>1, <3>4, NotRefusing
      <3>8. Entries(c) = {} => AnswerOK(c, kept)
        BY <3>2, <3>4, <3>7 DEF AnswerOK
      <3> QED
        BY <3>6, <3>8
    <2> HIDE DEF kept
    <2>5. OutcomeOK(c, out) /\ AnswerOK(c, out)
      BY <1>2, <1>3, <2>3, <2>4
    <2> QED
      BY <2>1, <2>5
  <1>7. CASE Claim(c, w)
    <2> DEFINE out == IF ~w.load THEN Refuse(idx, "WMS_UNAVAILABLE")
                      ELSE IF Entries(c) # {} THEN checkIdempotencyLocked(c, idx)
                      ELSE Remembering(c, claimLocked(c, w))
    <2>1. c.op = "claim" /\ idx.fenceSeq < MaxTokens /\ Finish(c, out)
      BY <1>7 DEF Claim
    <2>2. OutcomeOK(c, claimLocked(c, w)) /\ FreshOut(c, claimLocked(c, w))
      BY <1>1, <2>1, ClaimOutcome, ClaimFresh
    <2>3. Entries(c) = {} => /\ OutcomeOK(c, Remembering(c, claimLocked(c, w)))
                             /\ AnswerOK(c, Remembering(c, claimLocked(c, w)))
      BY <1>1, <2>2, RememberOut, FreshAnswer
    <2>4. OutcomeOK(c, out) /\ AnswerOK(c, out)
      BY <1>2, <1>3, <2>3
    <2> QED
      BY <2>1, <2>4
  <1> QED
    BY <1>4, <1>5, <1>6, <1>7 DEF Execute

\* The requests after a call, position by position: as they were, written by
\* the call, or created by it.
LEMMA RequestSteps ==
    ASSUME StoreInv, NEW c \in Call, NEW out, OutcomeOK(c, out),
           NEW n \in DOMAIN out.requests
    PROVE  LET d == out.requests[n]
               o == requestIssues[n]
           IN  \/ n \in DOMAIN requestIssues /\ d = o
               \/ /\ n \in DOMAIN requestIssues
                  /\ c.op \in MutateOps
                  /\ d.id = o.id /\ d.createKey = o.createKey
                  /\ d.createCall = o.createCall
                  /\ d.last = lastMutationRecord(c, 0) /\ d.rev = c.rev + 1
               \/ /\ c.content \in Contents
                  /\ d.createKey = c.key /\ d.createCall = requestFingerprint(c)
                  /\ d.last = None
  <1>1. CASE CreateOut(c, out)
    <2>1. PICK id \in RequestIds :
            out.requests = Append(requestIssues, NewRequest(c, id))
      BY <1>1 DEF CreateOut
    <2> DEFINE e == NewRequest(c, id)
    <2>2. /\ e.createKey = c.key /\ e.createCall = requestFingerprint(c)
          /\ e.last = None
      BY DEF NewRequest
    <2>3. c.content \in Contents
      BY <1>1 DEF CreateOut
    <2>4. out.requests = Append(requestIssues, e) /\ IsSeq(requestIssues)
      BY <2>1 DEF StoreInv
    <2> HIDE DEF e
    <2>5. DOMAIN out.requests = DOMAIN requestIssues \cup {Len(requestIssues) + 1}
      BY <2>4, AppendFacts
    <2>6. \A k \in DOMAIN requestIssues : out.requests[k] = requestIssues[k]
      BY <2>4, AppendFacts
    <2>7. out.requests[Len(requestIssues) + 1] = e
      BY <2>4, AppendFacts
    <2> QED
      BY <2>2, <2>3, <2>5, <2>6, <2>7
  <1>2. CASE RewriteOut(c, out)
    <2>1. PICK new :
            /\ Prepared(c, new)
            /\ out.effect \in BOOLEAN
            /\ out.requests = IF out.effect THEN updateRequestIssue(c, new)
                                            ELSE requestIssues
      BY <1>2 DEF RewriteOut
    <2>2. CASE out.effect = FALSE
      BY <2>1, <2>2
    <2>3. CASE out.effect = TRUE
      <3> DEFINE k == findRequestByID(c.req)
                 d == Written(c, new)
      <3>1. /\ k \in DOMAIN requestIssues
            /\ DOMAIN out.requests = DOMAIN requestIssues
            /\ out.requests[k] = d
            /\ \A m \in DOMAIN requestIssues :
                 m # k => out.requests[m] = requestIssues[m]
            /\ \A f \in RequestFields \ {"rev", "last"} : d[f] = new[f]
            /\ d.rev = new.rev + 1 /\ d.last = lastMutationRecord(c, 0)
        BY <2>1, <2>3, RewriteRequests
      <3>2. /\ new.id = requestIssues[k].id
            /\ new.createKey = requestIssues[k].createKey
            /\ new.createCall = requestIssues[k].createCall
            /\ new.rev = c.rev /\ c.op \in MutateOps
        BY <2>1 DEF Prepared
      <3>3. /\ d.id = new.id /\ d.createKey = new.createKey
            /\ d.createCall = new.createCall
        BY <3>1 DEF RequestFields
      <3> HIDE DEF k, d
      <3> QED
        BY <3>1, <3>2, <3>3
    <2> QED
      BY <2>1, <2>2, <2>3
  <1>3. CASE out.requests = requestIssues
    BY <1>3
  <1> QED
    BY <1>1, <1>2, <1>3 DEF OutcomeOK, QuietOut, BindOut, ClaimOut

\* The work items after a call: with the claim they had, claimed by the call,
\* or made by it.
LEMMA ItemSteps ==
    ASSUME StoreInv, NEW c \in Call, NEW out, OutcomeOK(c, out)
    PROVE  /\ DOMAIN workItemIssues \subseteq DOMAIN out.items
           /\ \A n \in DOMAIN workItemIssues :
                 /\ out.items[n].omitted = workItemIssues[n].omitted
                 /\ out.items[n].id = workItemIssues[n].id
                 /\ out.items[n].mkey = workItemIssues[n].mkey
                 /\ out.items[n].source = workItemIssues[n].source
                 /\ \/ out.items[n].lastClaim = workItemIssues[n].lastClaim
                    \/ \E token :
                         out.items[n].lastClaim = lastMutationRecord(c, token)
           /\ \A n \in DOMAIN out.items \ DOMAIN workItemIssues :
                 /\ c.op = "materialize" /\ CanBind(c)
                 /\ out.items[n].mkey = c.mkey
                 /\ out.items[n].source = SourceFingerprint(c.source)
                 /\ out.items[n].lastClaim = None
  <1>1. CASE out.items = workItemIssues
    BY <1>1
  <1>2. CASE RewriteOut(c, out)
    BY <1>2, RewriteDocs DEF ItemFields
  <1>3. CASE BindOut(c, out)
    <2>1. PICK omitted \in BOOLEAN :
            out.items = Append(workItemIssues, NewWorkItem(c, omitted))
      BY <1>3 DEF BindOut
    <2> DEFINE d == NewWorkItem(c, omitted)
    <2>2. /\ d.mkey = c.mkey /\ d.source = SourceFingerprint(c.source)
          /\ d.lastClaim = None
      BY NewItemFacts
    <2>3. c.op = "materialize" /\ CanBind(c)
      BY <1>3 DEF BindOut
    <2>4. out.items = Append(workItemIssues, d) /\ IsSeq(workItemIssues)
      BY <2>1 DEF StoreInv
    <2> HIDE DEF d
    <2>5. DOMAIN out.items = DOMAIN workItemIssues \cup {Len(workItemIssues) + 1}
      BY <2>4, AppendFacts
    <2>6. \A k \in DOMAIN workItemIssues : out.items[k] = workItemIssues[k]
      BY <2>4, AppendFacts
    <2>7. out.items[Len(workItemIssues) + 1] = d
      BY <2>4, AppendFacts
    <2> QED
      BY <2>2, <2>3, <2>5, <2>6, <2>7
  <1>4. CASE ClaimOut(c, out)
    <2> DEFINE k == findWorkItemByID(c.item)
    <2>1. /\ k \in DOMAIN workItemIssues
          /\ DOMAIN out.items = DOMAIN workItemIssues
          /\ \A m \in DOMAIN workItemIssues :
               m # k => out.items[m] = workItemIssues[m]
          /\ \A f \in ItemFields \ {"state", "version", "lease", "lastClaim"} :
                 out.items[k][f] = workItemIssues[k][f]
          /\ out.items[k].lastClaim = lastMutationRecord(c, idx.fenceSeq + 1)
      BY <1>4, ClaimDocs
    <2>2. /\ out.items[k].omitted = workItemIssues[k].omitted
          /\ out.items[k].id = workItemIssues[k].id
          /\ out.items[k].mkey = workItemIssues[k].mkey
          /\ out.items[k].source = workItemIssues[k].source
      BY <2>1 DEF ItemFields
    <2> HIDE DEF k
    <2> QED
      BY <2>1, <2>2
  <1> QED
    BY <1>1, <1>2, <1>3, <1>4 DEF OutcomeOK, QuietOut, CreateOut

\* While the issues stay, so do the records on them.
LEMMA SameRecords ==
    ASSUME NEW c, requestIssues' = requestIssues,
           workItemIssues' = workItemIssues
    PROVE  /\ Recorded(c)' <=> Recorded(c)
           /\ Unwritten(c)' <=> Unwritten(c)
  BY DEF Unwritten, CanBind, Recorded, DurableCreates, BindingNumbers,
         WorkItemNumbers, RequestNumbers, CurrentItem, findWorkItemByID, First

\* A call under one key writes no record of a call under another key.
LEMMA OthersWriteNoRecord ==
    ASSUME StoreInv, StoreInv', NEW c \in Call, NEW d \in Call, c.key # d.key,
           NEW out, OutcomeOK(d, out), Finish(d, out), Unwritten(c)
    PROVE  Unwritten(c)'
  <1>1. requestIssues' = out.requests /\ workItemIssues' = out.items
    BY DEF Finish
  <1>2. ~ Recorded(c)
    BY DEF Unwritten
  <1>3. \A token, other : lastMutationRecord(c, other) # lastMutationRecord(d, token)
    BY DEF lastMutationRecord
  <1>4. ASSUME c.op = "create", NEW n \in DurableCreates(c)',
               requestIssues'[n].createCall = requestFingerprint(c)
        PROVE  FALSE
    <2>1. n \in DOMAIN out.requests /\ out.requests[n].createKey = c.key
      BY <1>1, <1>4 DEF DurableCreates
    <2>2. /\ n \in DOMAIN requestIssues
          /\ requestIssues[n].createKey = c.key
          /\ requestIssues[n].createCall = requestFingerprint(c)
      BY <1>1, <1>4, <2>1, RequestSteps
    <2> QED
      BY <1>2, <1>4, <2>2 DEF Recorded, DurableCreates
  <1>5. ASSUME NEW n \in RequestNumbers(c.req)',
               requestIssues'[n].last # None,
               requestIssues'[n].last = lastMutationRecord(c, 0)
        PROVE  FALSE
    <2>1. n \in DOMAIN out.requests /\ out.requests[n].id = c.req
      BY <1>1, <1>5 DEF RequestNumbers
    <2>2. n \in DOMAIN requestIssues /\ requestIssues[n] = out.requests[n]
      BY <1>1, <1>3, <1>5, <2>1, RequestSteps
    <2> QED
      BY <1>1, <1>2, <1>5, <2>1, <2>2 DEF Recorded, RequestNumbers
  <1>6. ASSUME c.op = "materialize", NEW n \in BindingNumbers(c.mkey)',
               workItemIssues'[n].source = SourceFingerprint(c.source),
               Evaluate(c, NoItem, [now |-> 0]) \in {"allowed", "omitted"}
        PROVE  FALSE
    <2>1. n \in DOMAIN out.items /\ out.items[n].mkey = c.mkey
      BY <1>1, <1>6 DEF BindingNumbers
    <2>2. CASE n \in DOMAIN workItemIssues
      <3>1. /\ workItemIssues[n].mkey = c.mkey
            /\ workItemIssues[n].source = SourceFingerprint(c.source)
        BY <1>1, <1>6, <2>1, <2>2, ItemSteps
      <3>2. n \in BindingNumbers(c.mkey)
        BY <2>2, <3>1 DEF BindingNumbers
      <3> QED
        BY <1>2, <1>6, <3>1, <3>2 DEF Recorded
    <2>3. CASE n \notin DOMAIN workItemIssues
      <3>1. /\ d.op = "materialize" /\ CanBind(d) /\ d.mkey = c.mkey
            /\ SourceFingerprint(d.source) = SourceFingerprint(c.source)
        BY <1>1, <1>6, <2>1, <2>3, ItemSteps
      <3>2. c.source.item = c.item /\ d.source.item = d.item
        BY <1>6, <3>1, SourceAllowed DEF CanBind
      <3>3. /\ SourceFingerprint(c.source).item = c.source.item
            /\ SourceFingerprint(d.source).item = d.source.item
        BY DEF Call, Source, SourceFingerprint
      <3>4. CanBind(c)
        BY <1>6, <3>1, <3>2, <3>3 DEF CanBind
      <3> QED
        BY <1>6, <3>4 DEF Unwritten
    <2> QED
      BY <2>2, <2>3
  <1>7. ASSUME c.op = "claim", WorkItemNumbers(c.item)' # {},
               IsRecordedClaim(c, CurrentItem(c.item))'
        PROVE  FALSE
    <2>1. PICK n \in WorkItemNumbers(c.item)' : TRUE
      BY <1>7
    <2>2. /\ n \in DOMAIN out.items /\ ~ out.items[n].omitted
          /\ out.items[n].id = c.item
      BY <1>1, <2>1 DEF WorkItemNumbers
    <2>3. WorkItemNumbers(c.item)' = {n}
      BY <2>1 DEF WorkItemNumbers, StoreInv, OneIssuePerIdentity
    <2>4. n \in Nat
      BY <1>1, <2>2 DEF StoreInv, IsSeq
    <2>5. findWorkItemByID(c.item)' = n
      BY <2>3, <2>4 DEF findWorkItemByID, First
    <2>6. CurrentItem(c.item)' = out.items[n]
      BY <1>1, <1>7, <2>5 DEF CurrentItem
    <2>7. /\ out.items[n].lastClaim # None
          /\ out.items[n].lastClaim =
               lastMutationRecord(c, out.items[n].lastClaim.token)
      BY <1>7, <2>6 DEF IsRecordedClaim, lastMutationRecord
    <2>8. /\ n \in DOMAIN workItemIssues
          /\ out.items[n].lastClaim = workItemIssues[n].lastClaim
          /\ workItemIssues[n].id = c.item /\ ~ workItemIssues[n].omitted
      BY <1>3, <2>2, <2>7, ItemSteps
    <2>9. n \in WorkItemNumbers(c.item)
      BY <2>8 DEF WorkItemNumbers
    <2>10. CurrentItem(c.item) = workItemIssues[n]
      BY <2>9, FindWorkItem
    <2>11. IsRecordedClaim(c, CurrentItem(c.item))
      BY <2>7, <2>8, <2>10 DEF IsRecordedClaim
    <2> QED
      BY <1>2, <1>7, <2>9, <2>11 DEF Recorded
  <1>8. ~ Recorded(c)'
    BY <1>4, <1>5, <1>6, <1>7 DEF Recorded
  <1>9. ASSUME c.op = "materialize", CanBind(c)'
        PROVE  FALSE
    <2>1. /\ BindingNumbers(c.mkey) \subseteq BindingNumbers(c.mkey)'
          /\ WorkItemNumbers(c.item) \subseteq WorkItemNumbers(c.item)'
      BY <1>1, ItemSteps DEF BindingNumbers, WorkItemNumbers
    <2>2. CanBind(c)
      BY <1>9, <2>1 DEF CanBind
    <2> QED
      BY <1>9, <2>2 DEF Unwritten
  <1> QED
    BY <1>8, <1>9 DEF Unwritten

\* Calls keep the records next to the revisions.
LEMMA RecordsCall ==
    ASSUME StoreInv, RecordsOK, NEW c \in Call, NEW out, OutcomeOK(c, out),
           Finish(c, out)
    PROVE  RecordsOK'
  <1>1. requestIssues' = out.requests
    BY DEF Finish
  <1> SUFFICES ASSUME NEW n \in DOMAIN out.requests
               PROVE  /\ out.requests[n].createCall.content \in Contents
                      /\ out.requests[n].last # None =>
                           /\ out.requests[n].last.call.op \in MutateOps
                           /\ out.requests[n].rev =
                                out.requests[n].last.call.rev + 1
    BY <1>1 DEF RecordsOK
  <1>2. /\ requestFingerprint(c).op = c.op /\ requestFingerprint(c).rev = c.rev
        /\ requestFingerprint(c).content = c.content
    BY DEF Call, requestFingerprint
  <1>3. lastMutationRecord(c, 0).call = requestFingerprint(c)
    BY DEF lastMutationRecord
  <1>4. \/ n \in DOMAIN requestIssues /\ out.requests[n] = requestIssues[n]
        \/ /\ n \in DOMAIN requestIssues
           /\ c.op \in MutateOps
           /\ out.requests[n].createCall = requestIssues[n].createCall
           /\ out.requests[n].last = lastMutationRecord(c, 0)
           /\ out.requests[n].rev = c.rev + 1
        \/ /\ c.content \in Contents
           /\ out.requests[n].createCall = requestFingerprint(c)
           /\ out.requests[n].last = None
    BY RequestSteps
  <1> QED
    BY <1>2, <1>3, <1>4 DEF RecordsOK

\* Calls keep the bindings that the cache stands for.
LEMMA CacheCall ==
    ASSUME StoreInv, CacheOK, NEW c \in Call, NEW out, OutcomeOK(c, out),
           Finish(c, out), AnswerOK(c, out)
    PROVE  CacheOK'
  <1>1. workItemIssues' = out.items /\ idx' = out.idx
    BY DEF Finish
  <1>2. \A e \in idx.materialized : Cached(e, out.items)
    BY ItemSteps DEF CacheOK, Cached
  <1>3. \A e \in out.idx.materialized : Cached(e, out.items)
    BY <1>2 DEF AnswerOK
  <1> QED
    BY <1>1, <1>3 DEF CacheOK, Cached

\* Calls keep refusals under a key only while the call is unwritten.
LEMMA KeysCall ==
    ASSUME StoreInv, StoreInv', KeysOK, NEW d \in calls, NEW out,
           OutcomeOK(d, out), Finish(d, out), AnswerOK(d, out)
    PROVE  KeysOK'
  <1>1. /\ idx' = out.idx /\ calls' = calls
        /\ requestIssues' = out.requests /\ workItemIssues' = out.items
        /\ calls \subseteq Call
    BY DEF Finish, StoreInv
  <1>2. QuietOut(d, out) => (Unwritten(d)' <=> Unwritten(d))
    BY <1>1, SameRecords DEF QuietOut
  <1>3. ~ NotRefused(out.result) => QuietOut(d, out)
    BY DEF OutcomeOK
  <1>4. ASSUME NEW e \in out.idx.idempotency
        PROVE  \E b \in calls : e.key = b.key /\ e.call = requestFingerprint(b)
    BY <1>4 DEF AnswerOK, KeysOK
  <1>5. ASSUME NEW e \in out.idx.idempotency, NEW c \in calls, e.key = c.key,
               \A b \in calls : b.key = c.key => b = c,
               ~ NotRefused(e.result)
        PROVE  Unwritten(c)'
    <2>1. CASE c.key = d.key /\ Entries(d) # {}
      <3>1. c = d /\ QuietOut(d, out) /\ e \in idx.idempotency
        BY <1>5, <2>1 DEF AnswerOK
      <3>2. Unwritten(c)
        BY <1>5, <3>1 DEF KeysOK, OwnKey
      <3> QED
        BY <1>2, <3>1, <3>2
    <2>2. CASE c.key = d.key /\ Entries(d) = {}
      <3>1. c = d /\ e \notin idx.idempotency
        BY <1>5, <2>2 DEF Entries
      <3>2. e.result = out.result
        BY <2>2, <3>1 DEF AnswerOK
      <3>3. Unwritten(d)
        BY <1>5, <2>2, <3>2 DEF AnswerOK
      <3> QED
        BY <1>2, <1>3, <1>5, <3>1, <3>2, <3>3
    <2>3. CASE c.key # d.key
      <3>1. e \in idx.idempotency
        BY <1>5, <2>3 DEF AnswerOK
      <3>2. Unwritten(c)
        BY <1>5, <3>1 DEF KeysOK, OwnKey
      <3> QED
        BY <1>1, <2>3, <3>2, OthersWriteNoRecord
    <2> QED
      BY <2>1, <2>2, <2>3
  <1> QED
    BY <1>1, <1>4, <1>5 DEF KeysOK, OwnKey, NotRefused, Determinate

\* A call whose effect the issues record is not refused.
LEMMA RetryCall ==
    ASSUME StoreInv, KeysOK, NEW d \in calls, NEW out, OutcomeOK(d, out),
           Finish(d, out), AnswerOK(d, out)
    PROVE  RetryIsRecognized'
  <1>1. /\ reply' = [call |-> d, result |-> out.result] /\ calls' = calls
        /\ requestIssues' = out.requests /\ workItemIssues' = out.items
    BY DEF Finish
  <1> SUFFICES ASSUME OwnKey(d), Recorded(d)', ~ NotRefused(out.result)
               PROVE  FALSE
    BY <1>1 DEF RetryIsRecognized, OwnKey, NotRefused, Determinate
  <1>2. QuietOut(d, out)
    BY DEF OutcomeOK
  <1>3. Recorded(d)
    BY <1>1, <1>2, SameRecords DEF QuietOut
  <1>4. CASE Entries(d) = {}
    BY <1>3, <1>4 DEF AnswerOK, Unwritten
  <1>5. CASE Entries(d) # {}
    <2>1. PICK e \in Entries(d) :
            e.call = requestFingerprint(d) => ~ NotRefused(e.result)
      BY <1>5 DEF AnswerOK
    <2>2. e \in idx.idempotency /\ e.key = d.key
      BY <2>1 DEF Entries
    <2>3. e.call = requestFingerprint(d)
      BY <2>2 DEF KeysOK, OwnKey
    <2> QED
      BY <1>3, <2>1, <2>2, <2>3 DEF KeysOK, Unwritten
  <1> QED
    BY <1>4, <1>5

\* Steps of the process alone and stutters keep the issues.
LEMMA RetryIndexStep ==
    ASSUME RetryInv, IndexStep \/ UNCHANGED vars
    PROVE  RecordsOK' /\ CacheOK' /\ KeysOK' /\ RetryIsRecognized'
  <1>1. /\ calls' = calls /\ requestIssues' = requestIssues
        /\ workItemIssues' = workItemIssues
        /\ idx'.idempotency \subseteq idx.idempotency
        /\ \A e \in idx'.materialized :
             \/ e \in idx.materialized
             \/ \E n \in DOMAIN workItemIssues :
                    e = materializationEntryForBinding(n)
        /\ reply' = NoReply \/ reply' = reply
    BY IndexStepFacts DEF RetryInv, vars, issueVars
  <1>2. RecordsOK'
    BY <1>1 DEF RetryInv, RecordsOK
  <1>3. \A n \in DOMAIN workItemIssues :
          Cached(materializationEntryForBinding(n), workItemIssues)
    BY BindingEntry DEF Cached
  <1>4. CacheOK'
    BY <1>1, <1>3 DEF RetryInv, CacheOK, Cached
  <1>5. \A c : (Unwritten(c)' <=> Unwritten(c)) /\ (Recorded(c)' <=> Recorded(c))
    BY <1>1, SameRecords
  <1>6. KeysOK'
    BY <1>1, <1>5 DEF RetryInv, KeysOK, OwnKey, NotRefused, Determinate
  <1>7. ASSUME reply' = NoReply
        PROVE  RetryIsRecognized'
    BY <1>7 DEF RetryIsRecognized, NoReply
  <1>8. ASSUME reply' = reply
        PROVE  RetryIsRecognized'
    BY <1>1, <1>8
       DEF RetryInv, RetryIsRecognized, Determinate, Recorded, DurableCreates,
           BindingNumbers, WorkItemNumbers, RequestNumbers, CurrentItem,
           findWorkItemByID, First
  <1> QED
    BY <1>1, <1>2, <1>4, <1>6, <1>7, <1>8

\* The invariant is inductive.
LEMMA RetryStep ==
    ASSUME RetryInv, [Next]_vars
    PROVE  RetryInv'
  <1>1. StoreInv /\ RecordsOK /\ CacheOK /\ KeysOK /\ calls \subseteq Call
    BY DEF RetryInv, StoreInv
  <1>2. StoreInv'
    BY <1>1, StoreStep
  <1>3. ASSUME NEW c \in calls, NEW w, Execute(c, w)
        PROVE  RecordsOK' /\ CacheOK' /\ KeysOK' /\ RetryIsRecognized'
    <2>1. PICK out : OutcomeOK(c, out) /\ Finish(c, out) /\ AnswerOK(c, out)
      BY <1>1, <1>3, ExecuteAnswer
    <2> QED
      BY <1>1, <1>2, <2>1, RecordsCall, CacheCall, KeysCall, RetryCall
  <1>4. ASSUME IndexStep \/ UNCHANGED vars
        PROVE  RecordsOK' /\ CacheOK' /\ KeysOK' /\ RetryIsRecognized'
    BY <1>4, RetryIndexStep
  <1> QED
    BY <1>2, <1>3, <1>4 DEF RetryInv, Next, IndexStep

\* Lost answers, outages, restarts and other callers' calls never make the
\* adapter refuse the retry of a call that an issue records.
THEOREM RetriesAreRecognized == Spec => []RetryIsRecognized
  <1>1. Init => RetryInv
    <2> SUFFICES ASSUME Init
                 PROVE  RetryInv
      OBVIOUS
    <2>1. StoreInv
      BY StoreInit
    <2>2. /\ requestIssues = <<>> /\ reply.call = None
          /\ idx.idempotency = {} /\ idx.materialized = {}
      BY DEF Init, NoReply, newIndexes
    <2> QED
      BY <2>1, <2>2 DEF RetryInv, RecordsOK, CacheOK, KeysOK, RetryIsRecognized
  <1>2. RetryInv /\ [Next]_vars => RetryInv'
    BY RetryStep
  <1>3. RetryInv => RetryIsRecognized
    BY DEF RetryInv
  <1> QED
    BY <1>1, <1>2, <1>3, PTL DEF Spec
=============================================================================
