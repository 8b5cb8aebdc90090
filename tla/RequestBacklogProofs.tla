------------------------ MODULE RequestBacklogProofs ------------------------
(***************************************************************************)
(* Proofs about the request backlog, for any topics, callers and bounds.   *)
(* The inductive invariant adds two facts to the properties: the requests  *)
(* that exist are the ones numbered so far, and an approval that refined a *)
(* request is consumed.  The priority snapshots need a third: every link a *)
(* request has was recorded and leads to something that exists.            *)
(***************************************************************************)
EXTENDS RequestBacklog, TLAPS

NumberedSoFar ==
    \A q \in RequestIds : requests[q].revision # 0 <=> q <= nextRequestID

RefinersConsumed ==
    \A r \in refinements : approvals[r[1]].status = "consumed"

BacklogInv ==
    /\ TypeOK
    /\ NumberedSoFar
    /\ IndexIsExact
    /\ RevisionConsumedOnce
    /\ RefinersConsumed
    /\ ApprovalRefinesOnce

-----------------------------------------------------------------------------
(* Types of calls, records and results.                                    *)

\* What a caller sends is a call.
LEMMA CallType ==
    ASSUME NEW c \in Calls, requests \in [RequestIds -> Record],
           NEW v \in Revisions(c)
    PROVE  [c EXCEPT !.revision = v] \in Call
  <1>1. c \in Call
    BY BacklogAssumption
  <1>2. v \in Nat
    BY DEF Revisions, Exists, Record
  <1> QED
    BY <1>1, <1>2 DEF Call

\* Remembering a result keeps the idempotency table well typed.
LEMMA RememberType ==
    ASSUME NEW c \in Call, NEW result \in Result,
           idempotency \subseteq [key: Keys, call: Call, result: Result],
           answered \subseteq [key: Keys, call: Call, result: Result],
           rememberIdempotency(c, result)
    PROVE  /\ idempotency' \subseteq [key: Keys, call: Call, result: Result]
           /\ answered' \subseteq [key: Keys, call: Call, result: Result]
  <1>1. CASE c.key = None
    BY <1>1 DEF rememberIdempotency, keyVars
  <1>2. CASE c.key # None
    <2>1. c.key \in Keys
      BY <1>2 DEF Call
    <2> QED
      BY <1>2, <2>1 DEF rememberIdempotency
  <1> QED
    BY <1>1, <1>2

\* Results are results.
LEMMA ResultTypes ==
    /\ \A q \in RequestIds, n \in Nat : Applied(q, n) \in Result
    /\ \A code \in Verdicts : Rejected(code) \in Result
  BY DEF Applied, Rejected, Result, Verdicts

\* The verdict of a call is one of the vocabulary.
LEMMA VerdictType ==
    ASSUME NEW c \in Call
    PROVE  CallVerdict(c) \in Verdicts
  BY DEF CallVerdict, CreateVerdict, RefineVerdict, PriorityVerdict,
         ChangeSetVerdict, WorkItemVerdict, Targeted, validateRelationships,
         Verdicts, Call, Operations

\* A call that passes the target checks names a request at its revision.
LEMMA TargetFacts ==
    ASSUME NEW c \in Call, Targeted(c) = "applied"
    PROVE  /\ c.request \in RequestIds
           /\ requests[c.request].revision # 0
           /\ requests[c.request].revision = c.revision
  BY DEF Targeted, Exists, validateRequestRevision

\* What a refinement that is applied has passed.
LEMMA RefineFacts ==
    ASSUME TypeOK, NEW c \in Call, RefineVerdict(c) = "applied"
    PROVE  /\ Targeted(c) = "applied"
           /\ c.approval \in Approvals
           /\ ValidateApproval(approvals[c.approval],
                 [principal |-> c.subject, request |-> c.request,
                  content |-> Refined(c)])
           /\ semanticRequests[Refined(c).topic] \in {0, c.request}
  <1>1. /\ Targeted(c) = "applied"
        /\ c.approval # None
        /\ ValidateApproval(approvals[c.approval],
              [principal |-> c.subject, request |-> c.request,
               content |-> c.digest])
        /\ semanticRequests[Refined(c).topic] \in {0, c.request}
        /\ Refined(c) = c.digest
    BY DEF RefineVerdict, Targeted, validateRelationships
  <1>2. c.approval \in Approvals
    BY <1>1 DEF Call
  <1> QED
    BY <1>1, <1>2

\* A refinement of a request results in a content.
LEMMA RefinedType ==
    ASSUME TypeOK, NEW c \in Call, c.request \in RequestIds,
           requests[c.request].revision # 0
    PROVE  /\ Refined(c) \in Content
           /\ requests[c.request].content \in Content
  <1>1. requests[c.request].content \in Content
    BY DEF TypeOK, Exists
  <1> QED
    BY <1>1, BacklogAssumption DEF Refined, Content, Call

-----------------------------------------------------------------------------
(* Each kind of step keeps the invariant.                                  *)

\* Committing the next revision of a record.
LEMMA CommitEffect ==
    ASSUME BacklogInv, NEW c \in Call, NEW record \in Record,
           Targeted(c) = "applied",
           record.revision = requests[c.request].revision,
           record.content \in Content,
           Commit(c, record)
    PROVE  /\ requests' \in [RequestIds -> Record]
           /\ \A q \in RequestIds :
                requests'[q].revision # 0 => requests'[q].content \in Content
           /\ idempotency' \subseteq [key: Keys, call: Call, result: Result]
           /\ answered' \subseteq [key: Keys, call: Call, result: Result]
           /\ now' = now
           /\ consumed' \in [RequestIds -> SUBSET Nat]
           /\ RevisionConsumedOnce'
           /\ \A q \in RequestIds :
                requests'[q] = IF q = c.request
                  THEN [record EXCEPT !.revision = @ + 1] ELSE requests[q]
  <1> DEFINE q0 == c.request
             new == [record EXCEPT !.revision = @ + 1]
  <1>1. /\ q0 \in RequestIds
        /\ requests[q0].revision = c.revision
        /\ requests[q0].revision # 0
    BY TargetFacts
  <1>2. requests \in [RequestIds -> Record]
    BY DEF BacklogInv, TypeOK
  <1>3. /\ new \in Record
        /\ new.revision = record.revision + 1
        /\ new.content = record.content
        /\ record.revision \in Nat \ {0}
    BY <1>1, <1>2 DEF Record
  <1>4. requests' = [requests EXCEPT ![q0] = new]
    BY DEF Commit
  <1>5. \A q \in RequestIds :
          requests'[q] = IF q = q0 THEN new ELSE requests[q]
    BY <1>1, <1>2, <1>4
  <1>6. requests' \in [RequestIds -> Record]
    BY <1>2, <1>3, <1>4
  <1>7. \A q \in RequestIds :
          requests'[q].revision # 0 => requests'[q].content \in Content
    BY <1>3, <1>5 DEF BacklogInv, TypeOK, Exists
  <1>8. Applied(q0, record.revision + 1) \in Result
    BY <1>1, <1>3, ResultTypes
  <1>9. /\ idempotency' \subseteq [key: Keys, call: Call, result: Result]
        /\ answered' \subseteq [key: Keys, call: Call, result: Result]
    BY <1>8, RememberType DEF Commit, BacklogInv, TypeOK
  <1>10. consumed' = [consumed EXCEPT ![q0] = @ \cup {c.revision}]
    BY DEF Commit
  <1>11. consumed \in [RequestIds -> SUBSET Nat]
    BY DEF BacklogInv, TypeOK
  <1>12. c.revision \in Nat
    BY DEF Call
  <1>13. consumed' \in [RequestIds -> SUBSET Nat]
    BY <1>10, <1>11, <1>12
  <1>14. RevisionConsumedOnce'
    <2> SUFFICES ASSUME NEW q \in RequestIds
                 PROVE  consumed'[q] = 1..(requests'[q].revision - 1)
      BY DEF RevisionConsumedOnce
    <2>1. consumed[q] = 1..(requests[q].revision - 1)
      BY DEF BacklogInv, RevisionConsumedOnce
    <2>2. CASE q # q0
      BY <2>1, <2>2, <1>5, <1>10, <1>11
    <2>3. CASE q = q0
      <3>1. consumed'[q] = (1..(c.revision - 1)) \cup {c.revision}
        BY <2>1, <2>3, <1>1, <1>10, <1>11
      <3>2. requests'[q].revision - 1 = c.revision
        <4> HIDE DEF q0, new
        <4>1. record.revision = c.revision
          BY <1>1 DEF q0
        <4>2. requests'[q] = new
          BY <2>3, <1>1, <1>5
        <4> QED
          BY <4>1, <4>2, <1>3, <1>12
      <3>3. c.revision \in Nat \ {0}
        BY <1>1, <1>12
      <3>4. (1..(c.revision - 1)) \cup {c.revision} = 1..c.revision
        BY <3>3
      <3> QED
        BY <3>1, <3>2, <3>4
    <2> QED
      BY <2>2, <2>3
  <1> QED
    BY <1>5, <1>6, <1>7, <1>9, <1>13, <1>14 DEF Commit

\* Creating a request keeps the invariant: its number and topic are new.
LEMMA CreateStep ==
    ASSUME BacklogInv, NEW c \in Call, createRequest(c)
    PROVE  BacklogInv'
  <1> DEFINE id == nextRequestID + 1
             content == [topic |-> c.topic, text |-> c.text, related |-> {},
                         state |-> "unrefined"]
             new == [NoRequest EXCEPT !.content = content, !.revision = 1]
  <1> USE DEF BacklogInv
  <1>1. c.topic \in Topics /\ c.text \in Texts /\ semanticRequests[c.topic] = 0
    BY DEF createRequest, CreateVerdict, Call
  <1>2. id \in RequestIds /\ id \in 0..MaxRequests /\ nextRequestID \in Nat
    BY BacklogAssumption DEF createRequest, TypeOK, RequestIds
  <1>3. content \in Content
    BY <1>1 DEF Content, RefinementStates
  <1>4. /\ new \in Record /\ new.revision = 1 /\ new.content = content
        /\ content.topic = c.topic
    BY <1>3 DEF NoRequest, Record
  <1>5. /\ requests' = [requests EXCEPT ![id] = new]
        /\ semanticRequests' = [semanticRequests EXCEPT ![c.topic] = id]
        /\ nextRequestID' = id
        /\ UNCHANGED <<changeSets, itemPriority, linked, approvals,
                       refinements, consumed, now>>
    BY DEF createRequest, linkVars, refineVars
  <1>6. \A q \in RequestIds :
          requests'[q] = IF q = id THEN new ELSE requests[q]
    BY <1>2, <1>5 DEF TypeOK
  <1>7. requests' \in [RequestIds -> Record]
    BY <1>2, <1>4, <1>5 DEF TypeOK
  <1>8. /\ idempotency' \subseteq [key: Keys, call: Call, result: Result]
        /\ answered' \subseteq [key: Keys, call: Call, result: Result]
    <2>1. Applied(id, 1) \in Result
      BY <1>2, ResultTypes
    <2> QED
      BY <2>1, RememberType DEF createRequest, TypeOK
  <1>9. semanticRequests' \in [Topics -> RequestIds \cup {0}]
    BY <1>1, <1>2, <1>5 DEF TypeOK
  <1>10. \A q \in RequestIds : Exists(q)' => requests'[q].content \in Content
    BY <1>3, <1>4, <1>6 DEF TypeOK, Exists
  <1>11. TypeOK'
    BY <1>2, <1>5, <1>7, <1>8, <1>9, <1>10 DEF TypeOK
  <1>12. NumberedSoFar'
    <2> SUFFICES ASSUME NEW q \in RequestIds
                 PROVE  requests'[q].revision # 0 <=> q <= id
      BY <1>5 DEF NumberedSoFar
    <2>1. q \in Int /\ (requests[q].revision # 0 <=> q <= nextRequestID)
      BY BacklogAssumption DEF NumberedSoFar, RequestIds
    <2>2. CASE q = id
      <3> HIDE DEF new, content
      <3>1. requests'[q].revision = 1
        BY <2>2, <1>2, <1>4, <1>6
      <3> QED
        BY <2>1, <2>2, <3>1
    <2>3. CASE q # id
      BY <2>1, <2>3, <1>2, <1>6
    <2> QED
      BY <2>2, <2>3
  <1>13. requests[id].revision = 0
    BY <1>2 DEF NumberedSoFar, TypeOK, Record
  <1>14. IndexIsExact'
    <2> SUFFICES ASSUME NEW q \in RequestIds, NEW t \in Topics
                 PROVE  semanticRequests'[t] = q <=>
                          requests'[q].revision # 0 /\ requests'[q].content.topic = t
      BY DEF IndexIsExact, Exists
    <2>1. semanticRequests[t] = q <=>
            requests[q].revision # 0 /\ requests[q].content.topic = t
      BY DEF IndexIsExact, Exists
    <2>2. semanticRequests'[t] = IF t = c.topic THEN id ELSE semanticRequests[t]
      BY <1>1, <1>5 DEF TypeOK
    <2>3. CASE q = id
      <3> HIDE DEF new, content
      <3>1. requests'[q].revision = 1 /\ requests'[q].content.topic = c.topic
        BY <2>3, <1>2, <1>4, <1>6
      <3>2. t # c.topic => semanticRequests'[t] # q
        BY <2>1, <2>2, <2>3, <1>13
      <3> QED
        BY <2>2, <2>3, <3>1, <3>2
    <2>4. CASE q # id
      <3>1. q # 0
        BY DEF RequestIds
      <3> QED
        BY <2>1, <2>2, <2>4, <3>1, <1>1, <1>6
    <2> QED
      BY <2>3, <2>4
  <1>15. RevisionConsumedOnce'
    <2> SUFFICES ASSUME NEW q \in RequestIds
                 PROVE  consumed'[q] = 1..(requests'[q].revision - 1)
      BY DEF RevisionConsumedOnce
    <2>1. consumed'[q] = 1..(requests[q].revision - 1)
      BY <1>5 DEF RevisionConsumedOnce
    <2>2. CASE q # id
      BY <2>1, <2>2, <1>6
    <2>3. CASE q = id
      <3>1. 1..(0 - 1) = 1..(1 - 1)
        OBVIOUS
      <3> QED
        BY <2>1, <2>3, <3>1, <1>4, <1>6, <1>13
    <2> QED
      BY <2>2, <2>3
  <1>16. RefinersConsumed' /\ ApprovalRefinesOnce'
    BY <1>5 DEF RefinersConsumed, ApprovalRefinesOnce
  <1> QED
    BY <1>11, <1>12, <1>14, <1>15, <1>16

\* A refinement keeps the invariant: the request moves to a topic that is
\* free or its own, and the approval was not used before.
LEMMA RefineStep ==
    ASSUME BacklogInv, NEW c \in Call, refineRequest(c)
    PROVE  BacklogInv'
  <1> DEFINE q0 == c.request
             old == requests[q0].content.topic
             record == [requests[q0] EXCEPT !.content = Refined(c)]
  <1> USE DEF BacklogInv
  <1>1. /\ Targeted(c) = "applied"
        /\ c.approval \in Approvals
        /\ approvals[c.approval].status = "unused"
        /\ semanticRequests[Refined(c).topic] \in {0, q0}
    BY RefineFacts DEF refineRequest, ValidateApproval
  <1>2. q0 \in RequestIds /\ requests[q0].revision # 0
    BY <1>1, TargetFacts
  <1>3. /\ Refined(c) \in Content /\ requests[q0].content \in Content
        /\ Refined(c).topic \in Topics /\ old \in Topics
    BY <1>2, RefinedType DEF Content
  <1>4. /\ record \in Record
        /\ record.revision = requests[q0].revision
        /\ record.content = Refined(c)
    BY <1>2, <1>3 DEF TypeOK, Record
  <1>5. Commit(c, record)
    BY DEF refineRequest
  <1>6. /\ requests' \in [RequestIds -> Record]
        /\ \A q \in RequestIds :
             requests'[q].revision # 0 => requests'[q].content \in Content
        /\ idempotency' \subseteq [key: Keys, call: Call, result: Result]
        /\ answered' \subseteq [key: Keys, call: Call, result: Result]
        /\ now' = now
        /\ consumed' \in [RequestIds -> SUBSET Nat]
        /\ RevisionConsumedOnce'
        /\ \A q \in RequestIds :
             requests'[q] = IF q = q0
               THEN [record EXCEPT !.revision = @ + 1] ELSE requests[q]
    BY <1>1, <1>3, <1>4, <1>5, CommitEffect
  <1>7. /\ requests'[q0].revision = requests[q0].revision + 1
        /\ requests'[q0].content = Refined(c)
        /\ \A q \in RequestIds : q # q0 => requests'[q] = requests[q]
    BY <1>2, <1>4, <1>6 DEF Record
  <1>8. /\ semanticRequests' = Reindex(old, Refined(c).topic, q0)
        /\ approvals' = [approvals EXCEPT ![c.approval].status = "consumed"]
        /\ refinements' = refinements \cup
              {<<c.approval, q0, requests[q0].revision + 1>>}
        /\ UNCHANGED <<nextRequestID, changeSets, itemPriority, linked>>
    BY DEF refineRequest, linkVars, Consume
  <1>9. \A t \in Topics : semanticRequests'[t] =
          IF t = Refined(c).topic THEN q0
          ELSE IF t = old THEN 0 ELSE semanticRequests[t]
    BY <1>8 DEF Reindex
  <1>10. semanticRequests' \in [Topics -> RequestIds \cup {0}]
    BY <1>2, <1>8 DEF Reindex, TypeOK
  <1>11. approvals' \in [Approvals -> Approval]
    <2>1. [approvals[c.approval] EXCEPT !.status = "consumed"] \in Approval
      BY <1>1 DEF TypeOK, Approval
    <2> QED
      BY <2>1, <1>8 DEF TypeOK
  <1>12. <<c.approval, q0, requests[q0].revision + 1>> \in
            Approvals \X RequestIds \X Nat
    BY <1>1, <1>2 DEF TypeOK, Record
  <1>13. TypeOK'
    BY <1>6, <1>8, <1>10, <1>11, <1>12 DEF TypeOK, Exists
  <1>14. NumberedSoFar'
    <2>1. requests'[q0].revision # 0
      BY <1>2, <1>7 DEF TypeOK, Record
    <2> QED
      BY <2>1, <1>2, <1>7, <1>8 DEF NumberedSoFar
  <1>15. IndexIsExact'
    <2> SUFFICES ASSUME NEW q \in RequestIds, NEW t \in Topics
                 PROVE  semanticRequests'[t] = q <=>
                          requests'[q].revision # 0 /\ requests'[q].content.topic = t
      BY DEF IndexIsExact, Exists
    <2>1. semanticRequests[t] = q <=>
            requests[q].revision # 0 /\ requests[q].content.topic = t
      BY DEF IndexIsExact, Exists
    <2>2. semanticRequests[old] = q0
      BY <1>2, <1>3 DEF IndexIsExact, Exists
    <2>3. q # 0 /\ q0 # 0
      BY <1>2 DEF RequestIds
    <2>4. requests'[q0].revision # 0
      BY <1>2, <1>7 DEF TypeOK, Record
    <2>5. CASE q = q0
      <3>1. t # Refined(c).topic /\ t # old => semanticRequests[t] # q0
        BY <2>1, <2>5
      <3> QED
        BY <2>3, <2>4, <2>5, <3>1, <1>7, <1>9
    <2>6. CASE q # q0
      BY <2>1, <2>2, <2>3, <2>6, <1>1, <1>7, <1>9
    <2> QED
      BY <2>5, <2>6
  <1>16. RefinersConsumed'
    <2> SUFFICES ASSUME NEW r \in refinements'
                 PROVE  approvals'[r[1]].status = "consumed"
      BY DEF RefinersConsumed
    <2>1. approvals'[c.approval].status = "consumed"
      BY <1>1, <1>8 DEF TypeOK, Approval
    <2>2. CASE r \in refinements
      <3>1. r[1] \in Approvals /\ approvals[r[1]].status = "consumed"
        BY <2>2 DEF TypeOK, RefinersConsumed
      <3> QED
        BY <2>1, <3>1, <1>8 DEF TypeOK
    <2>3. CASE r = <<c.approval, q0, requests[q0].revision + 1>>
      BY <2>1, <2>3
    <2> QED
      BY <2>2, <2>3, <1>8
  <1>17. ApprovalRefinesOnce'
    <2>1. \A r \in refinements : r[1] # c.approval
      BY <1>1 DEF RefinersConsumed
    <2> QED
      BY <2>1, <1>8 DEF ApprovalRefinesOnce
  <1> QED
    BY <1>6, <1>13, <1>14, <1>15, <1>16, <1>17

\* Priority updates and links keep the invariant: they touch neither the
\* index nor the approvals.
LEMMA LinkStep ==
    ASSUME BacklogInv, NEW c \in Call, NEW record \in Record,
           Targeted(c) = "applied",
           record.revision = requests[c.request].revision,
           record.content = requests[c.request].content,
           Commit(c, record),
           UNCHANGED <<indexVars, refineVars>>,
           changeSets' \in [ChangeSets -> ChangeSet],
           itemPriority' \in [Items -> Priorities \cup {None, "absent"}],
           linked' \subseteq RequestIds \X (ChangeSets \cup Items)
    PROVE  BacklogInv'
  <1> USE DEF BacklogInv
  <1>1. /\ c.request \in RequestIds /\ requests[c.request].revision # 0
    BY TargetFacts
  <1>2. record.content \in Content
    BY <1>1 DEF TypeOK, Exists
  <1>3. /\ requests' \in [RequestIds -> Record]
        /\ \A q \in RequestIds :
             requests'[q].revision # 0 => requests'[q].content \in Content
        /\ idempotency' \subseteq [key: Keys, call: Call, result: Result]
        /\ answered' \subseteq [key: Keys, call: Call, result: Result]
        /\ now' = now
        /\ consumed' \in [RequestIds -> SUBSET Nat]
        /\ RevisionConsumedOnce'
        /\ \A q \in RequestIds :
             requests'[q] = IF q = c.request
               THEN [record EXCEPT !.revision = @ + 1] ELSE requests[q]
    BY <1>2, CommitEffect
  <1>4. \A q \in RequestIds :
          /\ requests'[q].content = requests[q].content
          /\ requests'[q].revision # 0 <=> requests[q].revision # 0
    BY <1>1, <1>3 DEF Record
  <1>5. UNCHANGED <<semanticRequests, nextRequestID, approvals, refinements>>
    BY DEF indexVars, refineVars
  <1>6. TypeOK'
    BY <1>3, <1>5 DEF TypeOK, Exists
  <1>7. NumberedSoFar' /\ IndexIsExact'
    BY <1>4, <1>5 DEF NumberedSoFar, IndexIsExact, Exists
  <1>8. RefinersConsumed' /\ ApprovalRefinesOnce'
    BY <1>5 DEF RefinersConsumed, ApprovalRefinesOnce
  <1> QED
    BY <1>3, <1>6, <1>7, <1>8

\* update-priority keeps the invariant.
LEMMA PriorityStep ==
    ASSUME BacklogInv, NEW c \in Call, updatePriority(c)
    PROVE  BacklogInv'
  <1> DEFINE q == requests[c.request]
             record == [q EXCEPT !.priority = c.priority]
  <1>1. Targeted(c) = "applied"
    BY DEF updatePriority, PriorityVerdict
  <1>2. q \in Record /\ c.priority \in Priorities
    BY <1>1, TargetFacts DEF BacklogInv, TypeOK, Call
  <1>3. /\ record \in Record
        /\ record.revision = q.revision /\ record.content = q.content
    BY <1>2 DEF Record
  <1>4. changeSets' \in [ChangeSets -> ChangeSet]
    <2>1. changeSets \in [ChangeSets -> ChangeSet]
      BY DEF BacklogInv, TypeOK
    <2>2. CASE q.cs = None
      BY <2>1, <2>2 DEF updatePriority
    <2>3. CASE q.cs # None
      <3>1. q.cs \in ChangeSets
        BY <2>3, <1>2 DEF Record
      <3>2. [changeSets[q.cs] EXCEPT !.priority = c.priority] \in ChangeSet
        BY <3>1, <2>1, <1>2 DEF ChangeSet
      <3> QED
        BY <2>1, <2>3, <3>2 DEF updatePriority
    <2> QED
      BY <2>2, <2>3
  <1>5. itemPriority' \in [Items -> Priorities \cup {None, "absent"}]
    BY <1>2 DEF updatePriority, BacklogInv, TypeOK
  <1>6. /\ Commit(c, record)
        /\ UNCHANGED <<indexVars, refineVars, linked>>
    BY DEF updatePriority
  <1> QED
    BY <1>1, <1>3, <1>4, <1>5, <1>6, LinkStep DEF BacklogInv, TypeOK

\* link-change-set keeps the invariant.
LEMMA ChangeSetStep ==
    ASSUME BacklogInv, NEW c \in Call, linkChangeSet(c)
    PROVE  BacklogInv'
  <1> DEFINE q == requests[c.request]
             record == [q EXCEPT !.cs = c.cs]
  <1>1. Targeted(c) = "applied" /\ c.cs \in ChangeSets
    BY DEF linkChangeSet, ChangeSetVerdict, Call
  <1>2. q \in Record /\ c.request \in RequestIds
    BY <1>1, TargetFacts DEF BacklogInv, TypeOK
  <1>3. /\ record \in Record
        /\ record.revision = q.revision /\ record.content = q.content
    BY <1>1, <1>2 DEF Record
  <1>4. changeSets' \in [ChangeSets -> ChangeSet]
    <2>1. changeSets \in [ChangeSets -> ChangeSet] /\ q.priority \in Priorities \cup {None}
      BY <1>2 DEF BacklogInv, TypeOK, Record
    <2>2. [changeSets[c.cs] EXCEPT !.priority = q.priority] \in ChangeSet
      BY <2>1, <1>1 DEF ChangeSet
    <2> QED
      BY <2>1, <2>2 DEF linkChangeSet
  <1>5. linked' \subseteq RequestIds \X (ChangeSets \cup Items)
    BY <1>1, <1>2 DEF linkChangeSet, BacklogInv, TypeOK
  <1>6. /\ Commit(c, record)
        /\ UNCHANGED <<indexVars, refineVars, itemPriority>>
    BY DEF linkChangeSet
  <1> QED
    BY <1>1, <1>3, <1>4, <1>5, <1>6, LinkStep DEF BacklogInv, TypeOK

\* link-build-work-item keeps the invariant.
LEMMA WorkItemStep ==
    ASSUME BacklogInv, NEW c \in Call, linkWorkItem(c)
    PROVE  BacklogInv'
  <1> DEFINE q == requests[c.request]
             record == [q EXCEPT !.item = c.item]
  <1>1. Targeted(c) = "applied" /\ c.item \in Items
    BY DEF linkWorkItem, WorkItemVerdict, Call
  <1>2. q \in Record /\ c.request \in RequestIds
    BY <1>1, TargetFacts DEF BacklogInv, TypeOK
  <1>3. /\ record \in Record
        /\ record.revision = q.revision /\ record.content = q.content
    BY <1>1, <1>2 DEF Record
  <1>4. itemPriority' \in [Items -> Priorities \cup {None, "absent"}]
    BY <1>1, <1>2 DEF linkWorkItem, BacklogInv, TypeOK, Record
  <1>5. linked' \subseteq RequestIds \X (ChangeSets \cup Items)
    BY <1>1, <1>2 DEF linkWorkItem, BacklogInv, TypeOK
  <1>6. /\ Commit(c, record)
        /\ UNCHANGED <<indexVars, refineVars, changeSets>>
    BY DEF linkWorkItem
  <1> QED
    BY <1>1, <1>3, <1>4, <1>5, <1>6, LinkStep DEF BacklogInv, TypeOK

\* Rejections and retries only add well-typed answers.
LEMMA AnswerStep ==
    ASSUME BacklogInv,
           \/ \E c \in Call : Reject(c)
           \/ \E a \in answered : Retry(a.call)
    PROVE  BacklogInv'
  <1> USE DEF BacklogInv
  <1>1. /\ UNCHANGED <<requests, indexVars, linkVars, refineVars, now, consumed>>
        /\ idempotency' \subseteq [key: Keys, call: Call, result: Result]
        /\ answered' \subseteq [key: Keys, call: Call, result: Result]
    <2>1. CASE \E c \in Call : Reject(c)
      <3> PICK c \in Call : Reject(c)
        BY <2>1
      <3>1. Rejected(CallVerdict(c)) \in Result
        BY VerdictType, ResultTypes
      <3> QED
        BY <3>1, RememberType DEF Reject, TypeOK
    <2>2. CASE \E a \in answered : Retry(a.call)
      <3> PICK a \in answered : Retry(a.call)
        BY <2>2
      <3> DEFINE c == a.call
                 entry == CHOOSE e \in idempotency : e.key = c.key
      <3>1. c \in Call
        BY DEF TypeOK
      <3>2. entry \in idempotency /\ entry.key = c.key
        BY DEF Retry
      <3>3. entry.result \in Result /\ c.key \in Keys
        BY <3>2 DEF TypeOK
      <3>4. checkIdempotency(c) \in Result
        BY <3>3, ResultTypes DEF checkIdempotency, Verdicts
      <3> HIDE DEF entry, c
      <3>5. answered' = answered \cup
              {[key |-> c.key, call |-> c, result |-> checkIdempotency(c)]}
        BY DEF Retry, c
      <3> QED
        BY <3>1, <3>3, <3>4, <3>5 DEF Retry, TypeOK
    <2> QED
      BY <2>1, <2>2
  <1>2. UNCHANGED <<requests, semanticRequests, nextRequestID, changeSets,
                    itemPriority, linked, approvals, refinements, now, consumed>>
    BY <1>1 DEF indexVars, linkVars, refineVars
  <1>3. TypeOK'
    BY <1>1, <1>2 DEF TypeOK, Exists
  <1> QED
    BY <1>2, <1>3 DEF NumberedSoFar, IndexIsExact, RevisionConsumedOnce,
                      RefinersConsumed, ApprovalRefinesOnce, Exists

\* The records other parts create, Gate approvals and the clock.
LEMMA EnvironmentStep ==
    ASSUME BacklogInv,
           \/ \E s \in ChangeSets, revision \in ChangeSetRevisions,
                 priority \in {None, "normal"} :
                   SeedChangeSet(s, revision, priority)
           \/ \E i \in Items, priority \in {None, "normal"} :
                Materialized(i, priority)
           \/ \E a \in Approvals, g \in Grants, x \in 1..(MaxTime + 1) :
                SeedApproval(a, g, x)
           \/ Tick
    PROVE  BacklogInv'
  <1> USE DEF BacklogInv
  <1>1. /\ UNCHANGED <<requests, semanticRequests, nextRequestID, linked,
                       refinements, consumed, idempotency, answered>>
        /\ changeSets' \in [ChangeSets -> ChangeSet]
        /\ itemPriority' \in [Items -> Priorities \cup {None, "absent"}]
        /\ approvals' \in [Approvals -> Approval]
        /\ now' \in Nat
        /\ \A a \in Approvals : approvals[a].status = "consumed" =>
              approvals'[a].status = "consumed"
    <2>1. ASSUME NEW s \in ChangeSets, NEW revision \in ChangeSetRevisions,
                 NEW priority \in {None, "normal"},
                 SeedChangeSet(s, revision, priority)
          PROVE  <1>1!2 /\ UNCHANGED <<requests, indexVars, itemPriority, linked,
                          refineVars, keyVars, now, consumed>>
      <3>1. [revision |-> revision, priority |-> priority] \in ChangeSet
        BY <2>1 DEF ChangeSet, Priorities
      <3> QED
        BY <2>1, <3>1 DEF SeedChangeSet, TypeOK
    <2>2. ASSUME NEW i \in Items, NEW priority \in {None, "normal"},
                 Materialized(i, priority)
          PROVE  <1>1!3 /\ UNCHANGED <<requests, indexVars, changeSets, linked,
                          refineVars, keyVars, now, consumed>>
      BY <2>2 DEF Materialized, TypeOK, Priorities
    <2>3. ASSUME NEW a \in Approvals, NEW g \in Grants,
                 NEW x \in 1..(MaxTime + 1), SeedApproval(a, g, x)
          PROVE  /\ <1>1!4 /\ <1>1!6
                 /\ UNCHANGED <<requests, indexVars, linkVars, refinements,
                                keyVars, now, consumed>>
      <3>1. g \in Scope /\ x \in Nat
        BY BacklogAssumption
      <3>2. [status |-> "unused", scope |-> g, expires |-> x] \in Approval
        BY <3>1 DEF Approval
      <3>3. approvals \in [Approvals -> Approval]
        BY DEF TypeOK
      <3> QED
        BY <2>3, <3>2, <3>3 DEF SeedApproval
    <2>4. ASSUME Tick
          PROVE  <1>1!5 /\ UNCHANGED <<requests, indexVars, linkVars, refineVars,
                                       keyVars, consumed>>
      BY <2>4 DEF Tick, TypeOK
    <2> QED
      BY <2>1, <2>2, <2>3, <2>4
      DEF indexVars, linkVars, refineVars, keyVars, TypeOK
  <1>2. TypeOK'
    BY <1>1 DEF TypeOK, Exists
  <1>3. RefinersConsumed'
    BY <1>1 DEF RefinersConsumed, TypeOK
  <1> QED
    BY <1>1, <1>2, <1>3 DEF NumberedSoFar, IndexIsExact, RevisionConsumedOnce,
                      ApprovalRefinesOnce, Exists

\* Every step keeps the inductive invariant.
LEMMA BacklogInductive ==
    ASSUME BacklogInv, [Next]_vars
    PROVE  BacklogInv'
  <1>1. CASE UNCHANGED vars
    BY <1>1 DEF vars, indexVars, linkVars, refineVars, keyVars, BacklogInv,
                TypeOK, Exists, NumberedSoFar, IndexIsExact,
                RevisionConsumedOnce, RefinersConsumed, ApprovalRefinesOnce
  <1>2. ASSUME NEW c \in Calls, NEW v \in Revisions(c),
               Execute([c EXCEPT !.revision = v])
        PROVE  BacklogInv'
    <2>1. [c EXCEPT !.revision = v] \in Call
      BY CallType DEF BacklogInv, TypeOK
    <2> QED
      BY <1>2, <2>1, CreateStep, RefineStep, PriorityStep, ChangeSetStep,
         WorkItemStep, AnswerStep DEF Execute
  <1> QED
    BY <1>1, <1>2, AnswerStep, EnvironmentStep DEF Next

\* The empty backlog satisfies the invariant.
LEMMA BacklogInit ==
    ASSUME Init
    PROVE  BacklogInv
  <1>1. NoRequest \in Record /\ NoRequest.revision = 0
    BY DEF NoRequest, Record
  <1>2. NoChangeSet \in ChangeSet /\ NoApproval \in Approval
    BY DEF NoChangeSet, ChangeSet, NoApproval, Approval
  <1>3. \A q \in RequestIds : requests[q].revision = 0 /\ q >= 1 /\ q \in Int
    BY <1>1, BacklogAssumption DEF Init, RequestIds
  <1>4. TypeOK
    BY <1>1, <1>2, <1>3, BacklogAssumption DEF Init, TypeOK, Exists
  <1>5. NumberedSoFar
    BY <1>3 DEF Init, NumberedSoFar
  <1>6. IndexIsExact
    BY <1>3 DEF Init, IndexIsExact, Exists
  <1>7. RevisionConsumedOnce
    BY <1>3 DEF Init, RevisionConsumedOnce
  <1> QED
    BY <1>4, <1>5, <1>6, <1>7 DEF BacklogInv, Init, RefinersConsumed,
                                  ApprovalRefinesOnce

\* The inductive invariant holds in every reachable state.
LEMMA BacklogAlways == Spec => []BacklogInv
  BY BacklogInit, BacklogInductive, PTL DEF Spec

-----------------------------------------------------------------------------
(* What follows.                                                           *)

\* The tables of the backlog have their types.
THEOREM BacklogTyped == Spec => []TypeOK
  <1>1. BacklogInv => TypeOK
    BY DEF BacklogInv
  <1> QED
    BY <1>1, BacklogAlways, PTL

\* No two requests are about the same thing, and a topic is free again when
\* the request about it moves away (createRequestLocked, refineRequestLocked).
THEOREM Index == Spec => []IndexIsExact
  <1>1. BacklogInv => IndexIsExact
    BY DEF BacklogInv
  <1> QED
    BY <1>1, BacklogAlways, PTL

\* Of the calls prepared on one request revision at most one is applied.
THEOREM Revision == Spec => []RevisionConsumedOnce
  <1>1. BacklogInv => RevisionConsumedOnce
    BY DEF BacklogInv
  <1> QED
    BY <1>1, BacklogAlways, PTL

\* One approval authorizes one refinement.
THEOREM RefinesOnce == Spec => []ApprovalRefinesOnce
  <1>1. BacklogInv => ApprovalRefinesOnce
    BY DEF BacklogInv
  <1> QED
    BY <1>1, BacklogAlways, PTL

-----------------------------------------------------------------------------
(* A refinement is what was approved.                                      *)

\* The steps that are no refinement change no content of a request that
\* exists, and use no approval.
LEMMA NoRefinement ==
    ASSUME BacklogInv, [Next]_vars, ~ \E c \in Call : refineRequest(c)
    PROVE  /\ \A q \in RequestIds : Exists(q) =>
                requests'[q].content = requests[q].content
           /\ \A a \in Approvals : approvals[a].status = "unused" =>
                approvals'[a].status = "unused"
  <1> DEFINE Same == /\ \A q \in RequestIds : Exists(q) =>
                          requests'[q].content = requests[q].content
                     /\ \A a \in Approvals : approvals[a].status = "unused" =>
                          approvals'[a].status = "unused"
  <1>1. TypeOK
    BY DEF BacklogInv
  <1>2. UNCHANGED <<requests, refineVars>> => Same
    BY DEF refineVars
  <1>3. ASSUME NEW c \in Call, createRequest(c)
        PROVE  Same
    <2> DEFINE id == nextRequestID + 1
    <2>1. id \in RequestIds => ~Exists(id)
      BY <1>1 DEF BacklogInv, NumberedSoFar, TypeOK, Exists
    <2>2. \A q \in RequestIds : q # id => requests'[q] = requests[q]
      BY <1>1, <1>3 DEF createRequest, TypeOK
    <2>3. approvals' = approvals
      BY <1>3 DEF createRequest, refineVars
    <2> QED
      BY <2>1, <2>2, <2>3
  <1>4. ASSUME NEW c \in Call, NEW record \in Record, Commit(c, record),
               Targeted(c) = "applied",
               record.content = requests[c.request].content,
               UNCHANGED refineVars
        PROVE  Same
    <2>1. \A q \in RequestIds : requests'[q] =
            IF q = c.request THEN [record EXCEPT !.revision = @ + 1]
            ELSE requests[q]
      BY <1>1, <1>4, TargetFacts DEF Commit, TypeOK
    <2>2. [record EXCEPT !.revision = @ + 1].content = record.content
      BY DEF Record
    <2> QED
      BY <1>4, <2>1, <2>2 DEF refineVars
  <1>5. ASSUME NEW c \in Call, updatePriority(c)
        PROVE  Same
    <2> DEFINE record == [requests[c.request] EXCEPT !.priority = c.priority]
    <2>1. Targeted(c) = "applied" /\ Commit(c, record) /\ UNCHANGED refineVars
      BY <1>5 DEF updatePriority, PriorityVerdict
    <2>2. record \in Record /\ record.content = requests[c.request].content
      BY <1>1, <2>1, TargetFacts DEF TypeOK, Record, Call
    <2> QED
      BY <1>4, <2>1, <2>2
  <1>6. ASSUME NEW c \in Call, linkChangeSet(c)
        PROVE  Same
    <2> DEFINE record == [requests[c.request] EXCEPT !.cs = c.cs]
    <2>1. Targeted(c) = "applied" /\ Commit(c, record) /\ UNCHANGED refineVars
      BY <1>6 DEF linkChangeSet, ChangeSetVerdict
    <2>2. record \in Record /\ record.content = requests[c.request].content
      BY <1>1, <2>1, TargetFacts DEF TypeOK, Record, Call
    <2> QED
      BY <1>4, <2>1, <2>2
  <1>7. ASSUME NEW c \in Call, linkWorkItem(c)
        PROVE  Same
    <2> DEFINE record == [requests[c.request] EXCEPT !.item = c.item]
    <2>1. Targeted(c) = "applied" /\ Commit(c, record) /\ UNCHANGED refineVars
      BY <1>7 DEF linkWorkItem, WorkItemVerdict
    <2>2. record \in Record /\ record.content = requests[c.request].content
      BY <1>1, <2>1, TargetFacts DEF TypeOK, Record, Call
    <2> QED
      BY <1>4, <2>1, <2>2
  <1>8. CASE \E c \in Calls : \E v \in Revisions(c) :
               Execute([c EXCEPT !.revision = v])
    <2>1. PICK c \in Call : Execute(c)
      BY <1>1, <1>8, CallType DEF TypeOK
    <2>2. Reject(c) => UNCHANGED <<requests, refineVars>>
      BY DEF Reject
    <2> QED
      BY <1>2, <1>3, <1>5, <1>6, <1>7, <2>1, <2>2 DEF Execute
  <1>9. CASE \E a \in Approvals, g \in Grants, x \in 1..(MaxTime + 1) :
               SeedApproval(a, g, x)
    <2> PICK a \in Approvals, g \in Grants, x \in 1..(MaxTime + 1) :
               SeedApproval(a, g, x)
      BY <1>9
    <2>1. /\ requests' = requests
          /\ approvals[a].status = "absent"
          /\ \A b \in Approvals : b # a => approvals'[b] = approvals[b]
      BY <1>1 DEF SeedApproval, TypeOK
    <2> QED
      BY <2>1
  <1>10. CASE \/ \E a \in answered : Retry(a.call)
              \/ \E s \in ChangeSets, revision \in ChangeSetRevisions,
                    priority \in {None, "normal"} :
                       SeedChangeSet(s, revision, priority)
              \/ \E i \in Items, priority \in {None, "normal"} :
                    Materialized(i, priority)
              \/ Tick \/ UNCHANGED vars
    <2>1. UNCHANGED <<requests, refineVars>>
      BY <1>10 DEF Retry, SeedChangeSet, Materialized, Tick, vars
    <2> QED
      BY <1>2, <2>1
  <1> QED
    BY <1>8, <1>9, <1>10 DEF Next

\* The content of a request changes to exactly what a human approved for it,
\* on an unused approval, which is consumed with the revision it authorizes.
THEOREM RefinedApproved == Spec => RefinedAsApproved
  <1> DEFINE Approved(q) ==
        /\ Exists(q)
        /\ requests'[q].content # requests[q].content
        => \E a \in Approvals :
              /\ approvals[a].status = "unused"
              /\ approvals'[a].status = "consumed"
              /\ now < approvals[a].expires
              /\ approvals[a].scope.request = q
              /\ approvals[a].scope.content = requests'[q].content
             Used(a) ==
        /\ approvals[a].status = "unused"
        /\ approvals'[a].status # "unused"
        => LET q == approvals[a].scope.request
           IN  /\ requests'[q].content = approvals[a].scope.content
               /\ requests'[q].revision = requests[q].revision + 1
             Step == /\ \A q \in RequestIds : Approved(q)
                     /\ \A a \in Approvals : Used(a)
  <1>1. ASSUME BacklogInv, [Next]_vars
        PROVE  Step
    <2>1. CASE ~ \E c \in Call : refineRequest(c)
      BY <1>1, <2>1, NoRefinement
    <2>2. ASSUME NEW c \in Call, refineRequest(c)
          PROVE  Step
      <3> DEFINE q0 == c.request
                 ap == c.approval
                 record == [requests[q0] EXCEPT !.content = Refined(c)]
                 new == [record EXCEPT !.revision = @ + 1]
      <3>1. TypeOK /\ RefineVerdict(c) = "applied"
        BY <1>1, <2>2 DEF BacklogInv, refineRequest
      <3>2. /\ Targeted(c) = "applied" /\ ap \in Approvals
            /\ ValidateApproval(approvals[ap],
                 [principal |-> c.subject, request |-> q0,
                  content |-> Refined(c)])
        BY <3>1, RefineFacts
      <3>3. /\ approvals[ap].status = "unused" /\ now < approvals[ap].expires
            /\ approvals[ap].scope.request = q0
            /\ approvals[ap].scope.content = Refined(c)
        BY <3>2 DEF ValidateApproval
      <3>4. q0 \in RequestIds /\ requests[q0].revision # 0
        BY <3>2, TargetFacts
      <3>5. Refined(c) \in Content
        BY <3>1, <3>4, RefinedType
      <3>6. new.content = Refined(c) /\ new.revision = requests[q0].revision + 1
        BY <3>1, <3>4, <3>5 DEF TypeOK, Record
      <3>7. requests' = [requests EXCEPT ![q0] = new]
        BY <2>2 DEF refineRequest, Commit
      <3> HIDE DEF new, record, q0
      <3>8. /\ requests'[q0].content = Refined(c)
            /\ requests'[q0].revision = requests[q0].revision + 1
            /\ \A q \in RequestIds : q # q0 => requests'[q] = requests[q]
        BY <3>1, <3>4, <3>6, <3>7 DEF TypeOK
      <3>9. /\ approvals'[ap].status = "consumed"
            /\ \A a \in Approvals : a # ap => approvals'[a] = approvals[a]
        BY <2>2, <3>1, <3>2 DEF refineRequest, Consume, TypeOK, Approval
      <3>10. ASSUME NEW q \in RequestIds
             PROVE  Approved(q)
        BY <3>2, <3>3, <3>8, <3>9
      <3>11. ASSUME NEW a \in Approvals
             PROVE  Used(a)
        BY <3>3, <3>8, <3>9
      <3> QED
        BY <3>10, <3>11
    <2> QED
      BY <2>1, <2>2
  <1>2. BacklogInv /\ [Next]_vars => [Step]_vars
    BY <1>1
  <1> QED
    BY <1>2, BacklogAlways, PTL DEF Spec, RefinedAsApproved

-----------------------------------------------------------------------------
(* Priority snapshots.  LinksRecorded is the strengthening: what a request  *)
(* is linked to exists, so nothing seeds its snapshot again, and the link   *)
(* is on record, so another request that shares it is not alone with it.    *)

LinksRecorded ==
    \A q \in RequestIds :
        LET r == requests[q]
        IN  /\ r.cs # None => /\ <<q, r.cs>> \in linked
                              /\ changeSets[r.cs].revision # "absent"
            /\ r.item # None => /\ <<q, r.item>> \in linked
                                /\ itemPriority[r.item] # "absent"

SnapshotInv == BacklogInv /\ LinksRecorded /\ PrioritySnapshotAgrees

\* A request is the only one ever linked to x.
AloneWith(q, x) == \A l \in linked : l[2] = x => l[1] = q

\* What both say of one request.
SnapshotOK(q) ==
    LET r == requests[q]
    IN  /\ r.cs # None => /\ <<q, r.cs>> \in linked
                          /\ changeSets[r.cs].revision # "absent"
        /\ r.item # None => /\ <<q, r.item>> \in linked
                            /\ itemPriority[r.item] # "absent"
        /\ r.priority # None =>
             /\ r.cs # None /\ AloneWith(q, r.cs) =>
                  changeSets[r.cs].priority = r.priority
             /\ r.item # None /\ AloneWith(q, r.item) =>
                  itemPriority[r.item] = r.priority

\* LinksRecorded and PrioritySnapshotAgrees, request by request.
LEMMA SnapshotForm ==
    LinksRecorded /\ PrioritySnapshotAgrees <=> \A q \in RequestIds : SnapshotOK(q)
  BY DEF LinksRecorded, PrioritySnapshotAgrees, SnapshotOK, AloneWith

\* The records of a step that commits a request.
LEMMA CommittedRecords ==
    ASSUME TypeOK, NEW c \in Call, NEW record \in Record,
           Targeted(c) = "applied", Commit(c, record)
    PROVE  /\ c.request \in RequestIds
           /\ requests'[c.request].cs = record.cs
           /\ requests'[c.request].item = record.item
           /\ requests'[c.request].priority = record.priority
           /\ \A q \in RequestIds : q # c.request => requests'[q] = requests[q]
  <1> DEFINE new == [record EXCEPT !.revision = @ + 1]
  <1>1. c.request \in RequestIds
    BY TargetFacts
  <1>2. /\ new.cs = record.cs /\ new.item = record.item
        /\ new.priority = record.priority
    BY DEF Record
  <1>3. requests' = [requests EXCEPT ![c.request] = new]
    BY DEF Commit
  <1> HIDE DEF new
  <1> QED
    BY <1>1, <1>2, <1>3 DEF TypeOK

\* A priority update reaches every snapshot of the request that is its alone.
LEMMA PrioritySnapshot ==
    ASSUME TypeOK, \A q \in RequestIds : SnapshotOK(q),
           NEW c \in Call, updatePriority(c)
    PROVE  \A q \in RequestIds : SnapshotOK(q)'
  <1> DEFINE q0 == c.request
             old == requests[q0]
             record == [old EXCEPT !.priority = c.priority]
  <1>1. /\ Targeted(c) = "applied" /\ Commit(c, record) /\ linked' = linked
        /\ changeSets' = IF old.cs = None THEN changeSets
              ELSE [changeSets EXCEPT ![old.cs].priority = c.priority]
        /\ itemPriority' = IF old.item = None THEN itemPriority
              ELSE [itemPriority EXCEPT ![old.item] = c.priority]
    BY DEF updatePriority, PriorityVerdict
  <1>2. q0 \in RequestIds /\ old \in Record /\ c.priority \in Priorities
    BY <1>1, TargetFacts DEF TypeOK, Call
  <1>3. /\ record \in Record /\ record.cs = old.cs /\ record.item = old.item
        /\ record.priority = c.priority
    BY <1>2 DEF Record
  <1> HIDE DEF record
  <1>4. /\ requests'[q0].cs = old.cs /\ requests'[q0].item = old.item
        /\ requests'[q0].priority = c.priority
        /\ \A q \in RequestIds : q # q0 => requests'[q] = requests[q]
    BY <1>1, <1>3, CommittedRecords
  <1>5. /\ \A s \in ChangeSets :
             /\ changeSets'[s].revision = changeSets[s].revision
             /\ changeSets'[s].priority =
                  IF s = old.cs THEN c.priority ELSE changeSets[s].priority
        /\ \A i \in Items : itemPriority'[i] =
             IF i = old.item THEN c.priority ELSE itemPriority[i]
    BY <1>1, <1>2, BacklogAssumption DEF TypeOK, ChangeSet, Record
  <1>6. c.priority # "absent"
    BY <1>2 DEF Priorities
  <1> HIDE DEF old
  <1>7. ASSUME NEW q \in RequestIds
        PROVE  SnapshotOK(q)'
    <2>1. /\ requests[q].cs # None => requests[q].cs \in ChangeSets
          /\ requests[q].item # None => requests[q].item \in Items
      BY DEF TypeOK, Record
    <2>2. SnapshotOK(q) /\ SnapshotOK(q0)
      BY <1>2
    <2>3. CASE q = q0
      BY <1>1, <1>4, <1>5, <1>6, <2>1, <2>2, <2>3 DEF SnapshotOK, old
    <2>4. CASE q # q0
      <3>1. requests'[q] = requests[q]
        BY <1>4, <2>4
      <3>2. \A x : AloneWith(q, x)' <=> AloneWith(q, x)
        BY <1>1 DEF AloneWith
      <3>3. /\ old.cs # None => ~AloneWith(q, old.cs)
            /\ old.item # None => ~AloneWith(q, old.item)
        BY <2>2, <2>4 DEF SnapshotOK, AloneWith, old
      <3> QED
        BY <1>1, <1>5, <1>6, <2>1, <2>2, <3>1, <3>2, <3>3 DEF SnapshotOK
    <2> QED
      BY <2>3, <2>4
  <1> QED
    BY <1>7

\* A linked change set takes the priority of the request over.
LEMMA ChangeSetSnapshot ==
    ASSUME TypeOK, \A q \in RequestIds : SnapshotOK(q),
           NEW c \in Call, linkChangeSet(c)
    PROVE  \A q \in RequestIds : SnapshotOK(q)'
  <1> DEFINE q0 == c.request
             old == requests[q0]
             record == [old EXCEPT !.cs = c.cs]
  <1>1. /\ Targeted(c) = "applied" /\ Commit(c, record)
        /\ c.cs # None /\ changeSets[c.cs].revision # "absent"
        /\ changeSets' = IF old.priority = None THEN changeSets
              ELSE [changeSets EXCEPT ![c.cs].priority = old.priority]
        /\ linked' = linked \cup {<<q0, c.cs>>}
        /\ itemPriority' = itemPriority
    BY DEF linkChangeSet, ChangeSetVerdict
  <1>2. q0 \in RequestIds /\ old \in Record /\ c.cs \in ChangeSets
    BY <1>1, TargetFacts DEF TypeOK, Call
  <1>3. /\ record \in Record /\ record.cs = c.cs /\ record.item = old.item
        /\ record.priority = old.priority
    BY <1>2 DEF Record
  <1> HIDE DEF record
  <1>4. /\ requests'[q0].cs = c.cs /\ requests'[q0].item = old.item
        /\ requests'[q0].priority = old.priority
        /\ \A q \in RequestIds : q # q0 => requests'[q] = requests[q]
    BY <1>1, <1>3, CommittedRecords
  <1>5. \A s \in ChangeSets :
          /\ changeSets'[s].revision = changeSets[s].revision
          /\ changeSets'[s].priority =
               IF s = c.cs /\ old.priority # None THEN old.priority
               ELSE changeSets[s].priority
    BY <1>1, <1>2 DEF TypeOK, ChangeSet
  <1> HIDE DEF old
  <1>6. ASSUME NEW q \in RequestIds
        PROVE  SnapshotOK(q)'
    <2>1. requests[q].cs # None => requests[q].cs \in ChangeSets
      BY DEF TypeOK, Record
    <2>2. SnapshotOK(q) /\ SnapshotOK(q0)
      BY <1>2
    <2>3. \A x : AloneWith(q, x)' => AloneWith(q, x)
      BY <1>1 DEF AloneWith
    <2>4. CASE q = q0
      BY <1>1, <1>2, <1>4, <1>5, <2>2, <2>3, <2>4 DEF SnapshotOK, old
    <2>5. CASE q # q0
      <3>1. requests'[q] = requests[q]
        BY <1>4, <2>5
      <3>2. ~AloneWith(q, c.cs)'
        <4>1. PICK l \in linked' : l = <<q0, c.cs>>
          BY <1>1
        <4>2. l[1] = q0 /\ l[2] = c.cs
          BY <4>1
        <4> QED
          BY <2>5, <4>2 DEF AloneWith
      <3> QED
        BY <1>1, <1>5, <2>1, <2>2, <2>3, <3>1, <3>2 DEF SnapshotOK
    <2> QED
      BY <2>4, <2>5
  <1> QED
    BY <1>6

\* A linked work item takes the priority of the request over.
LEMMA WorkItemSnapshot ==
    ASSUME TypeOK, \A q \in RequestIds : SnapshotOK(q),
           NEW c \in Call, linkWorkItem(c)
    PROVE  \A q \in RequestIds : SnapshotOK(q)'
  <1> DEFINE q0 == c.request
             old == requests[q0]
             record == [old EXCEPT !.item = c.item]
  <1>1. /\ Targeted(c) = "applied" /\ Commit(c, record)
        /\ c.item # None /\ itemPriority[c.item] # "absent"
        /\ itemPriority' = IF old.priority = None THEN itemPriority
              ELSE [itemPriority EXCEPT ![c.item] = old.priority]
        /\ linked' = linked \cup {<<q0, c.item>>}
        /\ changeSets' = changeSets
    BY DEF linkWorkItem, WorkItemVerdict
  <1>2. q0 \in RequestIds /\ old \in Record /\ c.item \in Items
    BY <1>1, TargetFacts DEF TypeOK, Call
  <1>3. /\ record \in Record /\ record.cs = old.cs /\ record.item = c.item
        /\ record.priority = old.priority
    BY <1>2 DEF Record
  <1> HIDE DEF record
  <1>4. /\ requests'[q0].cs = old.cs /\ requests'[q0].item = c.item
        /\ requests'[q0].priority = old.priority
        /\ \A q \in RequestIds : q # q0 => requests'[q] = requests[q]
    BY <1>1, <1>3, CommittedRecords
  <1>5. \A i \in Items : itemPriority'[i] =
          IF i = c.item /\ old.priority # None THEN old.priority
          ELSE itemPriority[i]
    BY <1>1, <1>2 DEF TypeOK
  <1>6. old.priority # "absent"
    BY <1>2, BacklogAssumption DEF Record, Priorities
  <1> HIDE DEF old
  <1>7. ASSUME NEW q \in RequestIds
        PROVE  SnapshotOK(q)'
    <2>1. requests[q].item # None => requests[q].item \in Items
      BY DEF TypeOK, Record
    <2>2. SnapshotOK(q) /\ SnapshotOK(q0)
      BY <1>2
    <2>3. \A x : AloneWith(q, x)' => AloneWith(q, x)
      BY <1>1 DEF AloneWith
    <2>4. CASE q = q0
      BY <1>1, <1>2, <1>4, <1>5, <1>6, <2>2, <2>3, <2>4 DEF SnapshotOK, old
    <2>5. CASE q # q0
      <3>1. requests'[q] = requests[q]
        BY <1>4, <2>5
      <3>2. ~AloneWith(q, c.item)'
        <4>1. PICK l \in linked' : l = <<q0, c.item>>
          BY <1>1
        <4>2. l[1] = q0 /\ l[2] = c.item
          BY <4>1
        <4> QED
          BY <2>5, <4>2 DEF AloneWith
      <3> QED
        BY <1>1, <1>5, <1>6, <2>1, <2>2, <2>3, <3>1, <3>2 DEF SnapshotOK
    <2> QED
      BY <2>4, <2>5
  <1> QED
    BY <1>7

\* Creating and refining requests touch no link and no priority.
LEMMA ContentSnapshot ==
    ASSUME BacklogInv, \A q \in RequestIds : SnapshotOK(q),
           NEW c \in Call, createRequest(c) \/ refineRequest(c)
    PROVE  \A q \in RequestIds : SnapshotOK(q)'
  <1>1. TypeOK /\ UNCHANGED <<changeSets, itemPriority, linked>>
    BY DEF BacklogInv, createRequest, refineRequest, linkVars
  <1>2. \A q \in RequestIds :
          \/ /\ requests'[q].cs = requests[q].cs
             /\ requests'[q].item = requests[q].item
             /\ requests'[q].priority = requests[q].priority
          \/ /\ requests'[q].cs = None /\ requests'[q].item = None
             /\ requests'[q].priority = None
    <2>1. CASE createRequest(c)
      <3> DEFINE new == [NoRequest EXCEPT
                           !.content = [topic |-> c.topic, text |-> c.text,
                                        related |-> {}, state |-> "unrefined"],
                           !.revision = 1]
      <3>1. new.cs = None /\ new.item = None /\ new.priority = None
        BY DEF NoRequest
      <3>2. requests' = [requests EXCEPT ![nextRequestID + 1] = new]
        BY <2>1 DEF createRequest
      <3> HIDE DEF new
      <3> QED
        BY <1>1, <3>1, <3>2 DEF TypeOK
    <2>2. CASE refineRequest(c)
      <3> DEFINE old == requests[c.request]
                 record == [old EXCEPT !.content = Refined(c)]
      <3>1. Targeted(c) = "applied" /\ Commit(c, record)
        BY <1>1, <2>2, RefineFacts DEF refineRequest
      <3>2. /\ c.request \in RequestIds /\ old \in Record
            /\ Refined(c) \in Content
        BY <1>1, <3>1, TargetFacts, RefinedType DEF TypeOK
      <3>3. /\ record \in Record /\ record.cs = old.cs
            /\ record.item = old.item /\ record.priority = old.priority
        BY <3>2 DEF Record
      <3> HIDE DEF record
      <3> QED
        BY <1>1, <3>1, <3>3, CommittedRecords
    <2> QED
      BY <2>1, <2>2
  <1>3. \A q \in RequestIds : \A x : AloneWith(q, x)' <=> AloneWith(q, x)
    BY <1>1 DEF AloneWith
  <1> QED
    BY <1>1, <1>2, <1>3 DEF SnapshotOK

\* Records are seeded only where there was none.
LEMMA SeedSnapshot ==
    ASSUME TypeOK, \A q \in RequestIds : SnapshotOK(q),
           \/ \E s \in ChangeSets, revision \in ChangeSetRevisions,
                 priority \in {None, "normal"} :
                   SeedChangeSet(s, revision, priority)
           \/ \E i \in Items, priority \in {None, "normal"} :
                Materialized(i, priority)
    PROVE  \A q \in RequestIds : SnapshotOK(q)'
  <1>1. UNCHANGED <<requests, linked>>
    BY DEF SeedChangeSet, Materialized
  <1>2. \A q \in RequestIds : \A x : AloneWith(q, x)' <=> AloneWith(q, x)
    BY <1>1 DEF AloneWith
  <1>3. /\ \A s \in ChangeSets : changeSets[s].revision # "absent" =>
             changeSets'[s] = changeSets[s]
        /\ \A i \in Items : itemPriority[i] # "absent" =>
             itemPriority'[i] = itemPriority[i]
    BY DEF SeedChangeSet, Materialized, TypeOK
  <1>4. \A q \in RequestIds :
          /\ requests[q].cs # None => requests[q].cs \in ChangeSets
          /\ requests[q].item # None => requests[q].item \in Items
    BY DEF TypeOK, Record
  <1> QED
    BY <1>1, <1>2, <1>3, <1>4 DEF SnapshotOK

\* Every step keeps the snapshots.
LEMMA SnapshotInductive ==
    ASSUME SnapshotInv, [Next]_vars
    PROVE  SnapshotInv'
  <1>1. BacklogInv /\ BacklogInv' /\ TypeOK
    BY BacklogInductive DEF SnapshotInv, BacklogInv
  <1>2. \A q \in RequestIds : SnapshotOK(q)
    BY SnapshotForm DEF SnapshotInv
  <1> DEFINE Good == \A q \in RequestIds : SnapshotOK(q)'
  <1> SUFFICES Good
    BY <1>1 DEF SnapshotInv, LinksRecorded, PrioritySnapshotAgrees, SnapshotOK,
       AloneWith
  <1>3. UNCHANGED <<requests, linkVars>> => Good
    BY <1>2 DEF linkVars, SnapshotOK, AloneWith
  <1>4. CASE \E c \in Calls : \E v \in Revisions(c) :
               Execute([c EXCEPT !.revision = v])
    <2>1. PICK c \in Call : Execute(c)
      BY <1>1, <1>4, CallType DEF TypeOK
    <2>2. Reject(c) => UNCHANGED <<requests, linkVars>>
      BY DEF Reject
    <2> QED
      BY <1>1, <1>2, <1>3, <2>1, <2>2, ContentSnapshot, PrioritySnapshot,
         ChangeSetSnapshot, WorkItemSnapshot DEF Execute
  <1>5. CASE \/ \E s \in ChangeSets, revision \in ChangeSetRevisions,
                   priority \in {None, "normal"} :
                     SeedChangeSet(s, revision, priority)
             \/ \E i \in Items, priority \in {None, "normal"} :
                   Materialized(i, priority)
    BY <1>1, <1>2, <1>5, SeedSnapshot
  <1>6. CASE \/ \E a \in answered : Retry(a.call)
             \/ \E a \in Approvals, g \in Grants, x \in 1..(MaxTime + 1) :
                   SeedApproval(a, g, x)
             \/ Tick \/ UNCHANGED vars
    <2>1. UNCHANGED <<requests, linkVars>>
      BY <1>6 DEF Retry, SeedApproval, Tick, vars
    <2> QED
      BY <1>3, <2>1
  <1> QED
    BY <1>4, <1>5, <1>6 DEF Next

\* The snapshot of what one request alone was ever linked to is its priority.
THEOREM Snapshots == Spec => []PrioritySnapshotAgrees
  <1>1. Init => SnapshotInv
    <2> SUFFICES ASSUME Init PROVE LinksRecorded /\ PrioritySnapshotAgrees
      BY BacklogInit DEF SnapshotInv
    <2>1. \A q \in RequestIds : /\ requests[q].cs = None
                                /\ requests[q].item = None
                                /\ requests[q].priority = None
      BY DEF Init, NoRequest
    <2> QED
      BY <2>1 DEF LinksRecorded, PrioritySnapshotAgrees
  <1>2. SnapshotInv /\ [Next]_vars => SnapshotInv'
    BY SnapshotInductive
  <1>3. SnapshotInv => PrioritySnapshotAgrees
    BY DEF SnapshotInv
  <1> QED
    BY <1>1, <1>2, <1>3, PTL DEF Spec
=============================================================================
