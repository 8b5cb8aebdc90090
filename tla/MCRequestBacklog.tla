-------------------------- MODULE MCRequestBacklog --------------------------
(***************************************************************************)
(* Instances of RequestBacklog for TLC: who calls what, and which contents *)
(* humans approve.                                                         *)
(***************************************************************************)
EXTENDS RequestBacklog, TLC

CONSTANTS dt, human,      \* the Drafting Table and the human maintainer
          tp1, tp2,       \* topics
          x1, x2,         \* texts
          i1, i2, cs1, cs2,
          a1, a2, a3, k1, k2

ApprovalSymmetry == Permutations(Approvals)

Blank(op, role, subject, q) ==
    [op |-> op, role |-> role, subject |-> subject, key |-> None,
     request |-> q, revision |-> 0, valid |-> TRUE, topic |-> None,
     text |-> None, related |-> None, state |-> "refining",
     approval |-> None, digest |-> None, priority |-> "low", cs |-> None,
     target |-> None, item |-> None]

CreateCall(topic, text) ==
    [Blank("create", "drafting-table", dt, 0) EXCEPT !.topic = topic,
                                                     !.text = text]

RefineCall(q, topic, text, related, approval, digest) ==
    [Blank("refine", "drafting-table", dt, q) EXCEPT
        !.topic = topic, !.text = text, !.related = related,
        !.approval = approval, !.digest = digest]

PriorityCall(q, priority) ==
    [Blank("update-priority", "human-maintainer", human, q) EXCEPT
        !.priority = priority]

LinkCall(q, cs) ==
    [Blank("link-change-set", "human-maintainer", human, q) EXCEPT !.cs = cs,
        !.target = "proposed"]

ItemCall(q, item) ==
    [Blank("link-build-work-item", "drafting-table", dt, q) EXCEPT
        !.item = item]

Refining(topic, text, related) ==
    [topic |-> topic, text |-> text, related |-> related, state |-> "refining"]

-----------------------------------------------------------------------------
(* Two requests move between two topics under competing refinements, some  *)
(* of which are repeated under their idempotency key.                      *)

ApprovedContents ==
    {Refining(t, x, {}) : t \in Topics, x \in Texts}
      \cup {Refining(tp1, x1, {2})}

\* Calls that are sent again, under the same key or as new ones.
RepeatedCalls ==
    UNION {{[c EXCEPT !.key = k] : k \in Keys \cup {None}} : c \in UNION {
      {CreateCall(t, x1) : t \in Topics},
      {RefineCall(1, t, x2, None, a, Refining(tp2, x2, {})) :
          t \in {None, tp2}, a \in Approvals}}}

RefinementCalls ==
    UNION {
      RepeatedCalls,
      {CreateCall(t, x) : t \in Topics, x \in {None, x1}},
      {RefineCall(q, t, None, None, a, c) :
          q \in RequestIds, t \in {None, tp2}, a \in Approvals,
          c \in {Refining(tp2, x1, {}), Refining(tp2, x2, {})}},
      {RefineCall(q, tp1, x, None, a, c) :
          q \in RequestIds, x \in {None, x2}, a \in Approvals,
          c \in {Refining(tp1, x1, {}), Refining(tp1, x2, {})}},
      {RefineCall(1, None, None, {2}, a, Refining(tp1, x1, {2})) :
          a \in Approvals}}

RefinementGrants ==
    {[principal |-> dt, request |-> q, content |-> c] :
        q \in RequestIds, c \in ApprovedContents}

-----------------------------------------------------------------------------
(* Two requests share, change and update change sets and work items.       *)

LinkCalls ==
    UNION {
      {CreateCall(t, x1) : t \in Topics},
      {PriorityCall(q, p) : q \in RequestIds, p \in {"low", "urgent"}},
      {LinkCall(q, s) : q \in RequestIds, s \in ChangeSets},
      {ItemCall(q, i) : q \in RequestIds, i \in Items}}

-----------------------------------------------------------------------------
(* Both in one run: every initial state has one of the two workloads.      *)

VARIABLE workload

Refinements == INSTANCE RequestBacklog WITH
    Calls <- RefinementCalls, Grants <- RefinementGrants,
    ChangeSets <- {}, Items <- {}

Links == INSTANCE RequestBacklog WITH
    Calls <- LinkCalls, Grants <- {},
    Approvals <- {}, Keys <- {}, MaxTime <- 0

BacklogInit == Init /\ workload \in {"refinements", "links"}

BacklogNext ==
    /\ \/ workload = "refinements" /\ Refinements!Next
       \/ workload = "links" /\ Links!Next
    /\ UNCHANGED workload

BacklogSpec == BacklogInit /\ [][BacklogNext]_<<vars, workload>>
=============================================================================
