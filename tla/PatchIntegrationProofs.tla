----------------------- MODULE PatchIntegrationProofs -----------------------
(***************************************************************************)
(* Proofs about PatchIntegration, for any number of concurrent ApplyPatch   *)
(* calls, any policy, source tree and bundles.                              *)
(*                                                                          *)
(* StaticInv: what each call has in each step, how far an export has come,  *)
(* and whose paths the commits change.  BranchInv, as long as every         *)
(* rollback succeeded: at most one call stands between its move of the      *)
(* branch and its acceptance or restoration, its commit is the head, nobody *)
(* has been told of it, and everything anybody was told of is below it.     *)
(* That is why the unconditional restoration takes nothing away.            *)
(* RecordInv: the audit records are those of the returned commits, and the  *)
(* one of that call.                                                        *)
(***************************************************************************)
EXTENDS PatchIntegration, FiniteSetTheorems, TLAPS

Fields == {"at", "bundle", "base", "head", "tree", "name"}

Steps == {"idle", "checks", "head", "listed", "built", "moved", "checkedout",
          "named", "audited", "rollback", "restore", "recheckout"}

\* The steps in which the branch is at the commit of the call, and those in
\* which the call may have left the working tree behind.
Moved == {"moved", "checkedout", "named", "audited", "rollback", "restore"}
Astray == {"moved", "rollback", "restore", "recheckout"}

Positive == Nat \ {0}

\* Every operation of the bundle is on a path its author may patch.
Allowed(b) ==
  \A op \in Payload[b].ops : WritableBy(classes, Payload[b].role, op.path)
Own(commit) == \A b \in Range(commit) : Allowed(b)

CallShape(p) ==
  /\ DOMAIN job[p] = Fields
  /\ job[p].at \in Steps
  /\ job[p].head \in Seq(Bundles)
  /\ job[p].at # "idle" => job[p].bundle \in Bundles /\ job[p].base \in known
  /\ job[p].at \notin {"idle", "checks"} => job[p].head = job[p].base
  /\ job[p].at \in {"named", "audited"} => job[p].name \in Positive
  /\ job[p].at = "rollback" => job[p].name \in Nat
  /\ job[p].at \in {"built", "recheckout"} \cup Moved => Allowed(job[p].bundle)
  /\ Own(job[p].head)

\* An export makes its repositories in order; nothing is applied before one
\* is complete, and none begins after that.
ExportShape ==
  /\ exporting = "no" => repos \in {{}, Repositories \cup {"audit"}}
  /\ exporting = "integration" => repos = {}
  /\ exporting = "worker-a" => repos = {"integration"}
  /\ exporting = "worker-b" => repos = {"integration", "worker-a"}
  /\ exporting = "audit" => repos = Repositories
  /\ exporting = "died" => repos \in {{}, {"integration"},
                                      {"integration", "worker-a"}, Repositories}
  /\ exporting \in {"no", "died", "audit"} \cup Repositories
  /\ ~ Exported => main = << >> /\ \A p \in Appliers : job[p] = Idle

RecordShape(r) ==
  /\ r.name \in Positive
  /\ r = [digest |-> r.digest, name |-> r.name,
          commit |-> Append(r.digest.base, r.digest.bundle)]
  /\ r.digest.base \in Seq(Bundles)

StaticInv ==
  /\ ExportShape
  /\ main \in Seq(Bundles) /\ worktree \in Seq(Bundles)
  /\ known \subseteq Seq(Bundles)
  /\ Own(main)
  /\ DOMAIN job = Appliers
  /\ \A p \in Appliers : CallShape(p)
  /\ IsFiniteSet(accepted)
  /\ \A r \in accepted : RecordShape(r)
  /\ broken \in BOOLEAN

BranchInv ==
  /\ \A p \in Appliers : job[p].at \in Moved => main = Commit(p) /\ Commit(p) \notin known
  /\ \A p, q \in Appliers : job[p].at \in Moved /\ job[q].at \in Moved => p = q
  /\ \A k \in known : IsPrefix(k, main)
  /\ (\A p \in Appliers : job[p].at \notin Moved) => main \in known
  /\ \A p \in Appliers : job[p].at \in {"checkedout", "named", "audited"} => worktree = main
  /\ (\A p \in Appliers : job[p].at \notin Astray) => worktree = main

\* The call has written its unique record and not removed it.
Holds(p) == job[p].at = "audited" \/ (job[p].at = "rollback" /\ job[p].name # 0)

RecordInv ==
  /\ strays \subseteq accepted
  /\ \A p \in Appliers : Holds(p) => Record(p, job[p].name) \in accepted \ strays
  /\ \A r \in accepted \ strays :
       \/ r.commit \in known
       \/ \E p \in Appliers : Holds(p) /\ r = Record(p, job[p].name)
  /\ \A k \in known \ {<< >>} : \E r \in accepted \ strays : r.commit = k
  /\ latest \subseteq known

\* The inductive invariant.
PatchInv == StaticInv /\ (~ broken => BranchInv /\ RecordInv)

-----------------------------------------------------------------------------
(* Lemmas about commits, which are sequences of bundles.                    *)

\* A prefix, element by element.
LEMMA PrefixElements ==
  ASSUME NEW S, NEW k \in Seq(S), NEW m \in Seq(S)
  PROVE  IsPrefix(k, m) <=> /\ Len(k) <= Len(m)
                            /\ \A i \in 1 .. Len(k) : k[i] = m[i]
  <1>1. ASSUME IsPrefix(k, m)
        PROVE  Len(k) <= Len(m) /\ \A i \in 1 .. Len(k) : k[i] = m[i]
    <2>1. Len(k) <= Len(m) /\ SubSeq(k, 1, Len(k)) = SubSeq(m, 1, Len(k))
      BY <1>1 DEF IsPrefix
    <2>2. ASSUME NEW i \in 1 .. Len(k) PROVE k[i] = m[i]
      <3>1. SubSeq(k, 1, Len(k))[i] = k[i] /\ SubSeq(m, 1, Len(k))[i] = m[i]
        BY <2>1
      <3> QED
        BY <2>1, <3>1
    <2> QED
      BY <2>1, <2>2
  <1>2. ASSUME Len(k) <= Len(m), \A i \in 1 .. Len(k) : k[i] = m[i]
        PROVE  IsPrefix(k, m)
    BY <1>2 DEF IsPrefix
  <1> QED
    BY <1>1, <1>2

\* Every commit is a prefix of itself.
LEMMA PrefixOfItself ==
  ASSUME NEW S, NEW k \in Seq(S)
  PROVE  IsPrefix(k, k)
  BY PrefixElements

\* A child has the prefixes of its parent and itself, and no other.
LEMMA PrefixesOfChild ==
  ASSUME NEW S, NEW k \in Seq(S), NEW h \in Seq(S), NEW b \in S
  PROVE  /\ Append(h, b) \in Seq(S)
         /\ Append(h, b) # << >>
         /\ IsPrefix(h, h)
         /\ IsPrefix(k, h) => IsPrefix(k, Append(h, b))
         /\ IsPrefix(k, Append(h, b)) /\ k # Append(h, b) => IsPrefix(k, h)
         /\ ~ IsPrefix(Append(h, b), h)
  <1> DEFINE c == Append(h, b)
  <1>1. /\ c \in Seq(S)
        /\ Len(c) = Len(h) + 1
        /\ Len(h) \in Nat /\ Len(k) \in Nat
        /\ \A i \in 1 .. Len(h) : c[i] = h[i]
        /\ c[Len(h) + 1] = b
    OBVIOUS
  <1>2. c # << >>
    BY <1>1
  <1>3. IsPrefix(h, h)
    BY PrefixElements
  <1> HIDE DEF c
  <1>4. IsPrefix(k, h) => IsPrefix(k, c)
    BY <1>1, PrefixElements
  <1>5. ASSUME IsPrefix(k, c), k # c PROVE IsPrefix(k, h)
    <2>1. Len(k) <= Len(c) /\ \A i \in 1 .. Len(k) : k[i] = c[i]
      BY <1>1, <1>5, PrefixElements
    <2>2. Len(k) # Len(c)
      <3>1. ASSUME Len(k) = Len(c) PROVE k = c
        BY <1>1, <2>1, <3>1
      <3> QED
        BY <1>5, <3>1
    <2>3. Len(k) <= Len(h) /\ \A i \in 1 .. Len(k) : k[i] = h[i]
      BY <1>1, <2>1, <2>2
    <2> QED
      BY <2>3, PrefixElements
  <1>6. ~ IsPrefix(c, h)
    BY <1>1, PrefixElements
  <1> QED
    BY <1>1, <1>2, <1>3, <1>4, <1>5, <1>6 DEF c

\* The bundles of a child are those of its parent and its own.
LEMMA RangeOfChild ==
  ASSUME NEW S, NEW h \in Seq(S), NEW b \in S
  PROVE  Range(Append(h, b)) = Range(h) \cup {b}
  <1>1. DOMAIN h = 1 .. Len(h) /\ DOMAIN Append(h, b) = 1 .. Len(h) + 1
    OBVIOUS
  <1>2. \A i \in 1 .. Len(h) : Append(h, b)[i] = h[i]
    OBVIOUS
  <1>3. Append(h, b)[Len(h) + 1] = b
    OBVIOUS
  <1>4. ASSUME NEW x \in Range(Append(h, b)) PROVE x \in Range(h) \cup {b}
    <2>1. PICK i \in 1 .. Len(h) + 1 : x = Append(h, b)[i]
      BY <1>1, <1>4 DEF Range
    <2>2. CASE i = Len(h) + 1
      BY <1>3, <2>1, <2>2
    <2>3. CASE i \in 1 .. Len(h)
      BY <1>1, <1>2, <2>1, <2>3 DEF Range
    <2> QED
      BY <2>1, <2>2, <2>3
  <1>5. ASSUME NEW x \in Range(h) \cup {b} PROVE x \in Range(Append(h, b))
    <2>1. CASE x = b
      BY <1>1, <1>3, <2>1 DEF Range
    <2>2. CASE x \in Range(h)
      <3>1. PICK i \in 1 .. Len(h) : x = h[i]
        BY <1>1, <2>2 DEF Range
      <3>2. i \in 1 .. Len(h) + 1 /\ Append(h, b)[i] = x
        BY <1>2, <3>1
      <3> QED
        BY <1>1, <3>2 DEF Range
    <2> QED
      BY <1>5, <2>1, <2>2
  <1> QED
    BY <1>4, <1>5

\* There is a free suffix among the first numbers, one more than are taken.
LEMMA FreeSuffix ==
  ASSUME NEW T, IsFiniteSet(T)
  PROVE  \E n \in 1 .. Cardinality(T) + 1 : n \notin T
  <1> DEFINE I == 1 .. Cardinality(T) + 1
  <1>1. Cardinality(T) \in Nat
    BY FS_CardinalityType
  <1>2. Cardinality(I) = Cardinality(T) + 1
    <2> DEFINE n == Cardinality(T) + 1
    <2>1. n \in Int /\ ~ (1 > n) /\ n - 1 + 1 = n
      BY <1>1
    <2> HIDE DEF n
    <2>2. \A a, b \in Int : Cardinality(a .. b) = IF a > b THEN 0 ELSE b - a + 1
      BY FS_Interval
    <2>3. Cardinality(1 .. n) = n - 1 + 1
      BY <2>1, <2>2
    <2> QED
      BY <2>1, <2>3 DEF n
  <1>3. ASSUME I \subseteq T PROVE FALSE
    <2>1. Cardinality(I) <= Cardinality(T)
      BY <1>3, FS_Subset
    <2> QED
      BY <1>1, <1>2, <2>1
  <1> QED
    BY <1>3

-----------------------------------------------------------------------------
(* What a step of one call leaves as it is.                                 *)

\* The shape of the other calls, and of the export, is kept.
LEMMA StaticStep ==
  ASSUME StaticInv, NEW p \in Appliers, Exported, UNCHANGED export,
         main' \in Seq(Bundles), worktree' \in Seq(Bundles), Own(main)',
         known \subseteq known', known' \subseteq Seq(Bundles),
         DOMAIN job' = Appliers, \A q \in Appliers \ {p} : job'[q] = job[q],
         CallShape(p)', IsFiniteSet(accepted'),
         \A r \in accepted' : RecordShape(r), broken' \in BOOLEAN
  PROVE  StaticInv'
  <1>1. ExportShape'
    BY DEF StaticInv, ExportShape, export, Exported
  <1>2. ASSUME NEW q \in Appliers PROVE CallShape(q)'
    <2>1. CASE q = p
      BY <2>1
    <2>2. CASE q # p
      BY <2>2 DEF StaticInv, CallShape, Allowed, Own, export
    <2> QED
      BY <2>1, <2>2
  <1> QED
    BY <1>1, <1>2 DEF StaticInv, RecordShape

\* A call that is not idle runs on a complete export.
LEMMA CallsNeedExport ==
  ASSUME StaticInv, NEW p \in Appliers, job[p].at # "idle"
  PROVE  Exported
  BY DEF StaticInv, ExportShape, Idle

\* Integration as it is, and a call in the shape of one that is over.
LEMMA DoneShape ==
  ASSUME NEW p \in Appliers, job'[p] = Idle
  PROVE  CallShape(p)'
  <1>1. Range(<< >>) = {}
    BY DEF Range
  <1>2. /\ DOMAIN job'[p] = Fields
        /\ job'[p].at = "idle"
        /\ job'[p].head = << >>
    BY DEF Idle, Fields
  <1>3. << >> \in Seq(Bundles)
    OBVIOUS
  <1> QED
    BY <1>1, <1>2, <1>3 DEF CallShape, Own, Steps, Moved

\* A step outside the critical steps disturbs neither branch nor records.
LEMMA QuietStep ==
  ASSUME PatchInv, NEW p \in Appliers, Exported, UNCHANGED export,
         UNCHANGED <<main, worktree, accepted, latest, known, strays, broken>>,
         DOMAIN job' = Appliers, \A q \in Appliers \ {p} : job'[q] = job[q],
         CallShape(p)',
         job[p].at \notin Moved \cup {"recheckout"},
         job'[p].at \notin Moved \cup {"recheckout"}
  PROVE  PatchInv'
  <1>1. StaticInv'
    <2>1. Own(main)'
      BY DEF PatchInv, StaticInv, Own, Allowed, export
    <2> QED
      BY <2>1, StaticStep DEF PatchInv, StaticInv
  <1>2. ASSUME ~ broken PROVE BranchInv' /\ RecordInv'
    <2>0. BranchInv /\ RecordInv
      BY <1>2 DEF PatchInv
    <2>1. ASSUME NEW q \in Appliers
          PROVE  /\ job'[q].at \in Moved => job'[q] = job[q]
                 /\ job'[q].at \in Moved <=> job[q].at \in Moved
                 /\ job'[q].at \in Astray <=> job[q].at \in Astray
                 /\ Holds(q)' <=> Holds(q)
                 /\ Holds(q) => Record(q, job[q].name)' = Record(q, job[q].name)
      BY DEF Moved, Astray, Holds, Record, Digest, Commit
    <2>2. BranchInv'
      BY <2>0, <2>1 DEF BranchInv, Commit, Moved
    <2>3. RecordInv'
      BY <2>0, <2>1 DEF RecordInv
    <2> QED
      BY <2>2, <2>3
  <1> QED
    BY <1>1, <1>2 DEF PatchInv

\* A call returns with an error before it has moved the branch.
LEMMA GivesUp ==
  ASSUME PatchInv, NEW p \in Appliers, Reject(p) \/ Abort(p), job[p].at # "idle",
         job[p].at \notin Moved \cup {"recheckout"}
  PROVE  PatchInv'
  <1>0. DOMAIN job = Appliers /\ StaticInv
    BY DEF PatchInv, StaticInv
  <1>1. /\ DOMAIN job' = Appliers
        /\ \A q \in Appliers \ {p} : job'[q] = job[q]
        /\ job'[p] = Idle
        /\ UNCHANGED export
        /\ UNCHANGED <<main, worktree, accepted, latest, known, strays, broken>>
    BY <1>0 DEF Reject, Abort, Done
  <1>2. CallShape(p)'
    BY <1>1, DoneShape
  <1>3. job'[p].at = "idle"
    BY <1>1 DEF Idle
  <1>4. Exported
    BY <1>0, CallsNeedExport
  <1> QED
    BY <1>1, <1>2, <1>3, <1>4, QuietStep DEF Moved

-----------------------------------------------------------------------------
(* The steps before the branch is moved.                                    *)

\* ApplyPatch: a call begins with a base somebody was told of.
LEMMA ApplyPatchStep ==
  ASSUME PatchInv, NEW p \in Appliers, NEW b \in Bundles, NEW base \in known,
         ApplyPatch(p, b, base)
  PROVE  PatchInv'
  <1>0. DOMAIN job = Appliers /\ known \subseteq Seq(Bundles)
    BY DEF PatchInv, StaticInv
  <1>1. /\ DOMAIN job' = Appliers
        /\ \A q \in Appliers \ {p} : job'[q] = job[q]
        /\ job[p].at = "idle"
        /\ DOMAIN job'[p] = Fields
        /\ job'[p].at = "checks"
        /\ job'[p].bundle = b
        /\ job'[p].base = base
        /\ job'[p].head = << >>
        /\ UNCHANGED export /\ Exported
        /\ UNCHANGED <<main, worktree, accepted, latest, known, strays, broken>>
    BY <1>0 DEF ApplyPatch, At, Idle, Fields, Stepping
  <1>2. CallShape(p)'
    <2>1. Range(<< >>) = {} /\ << >> \in Seq(Bundles)
      BY DEF Range
    <2> QED
      BY <1>1, <2>1 DEF CallShape, Own, Steps, Moved
  <1> QED
    BY <1>1, <1>2, QuietStep DEF Moved

\* ReadHead, ListHead: the call goes on only when the head is its base.
LEMMA ReadStep ==
  ASSUME PatchInv, NEW p \in Appliers, ReadHead(p) \/ ListHead(p)
  PROVE  PatchInv'
  <1>0. DOMAIN job = Appliers /\ CallShape(p) /\ StaticInv
    BY DEF PatchInv, StaticInv
  <1>1. CASE Reject(p)
    BY <1>1, GivesUp DEF ReadHead, ListHead, At, Moved
  <1>2. CASE ~ Reject(p)
    <2>1. /\ DOMAIN job' = Appliers
          /\ \A q \in Appliers \ {p} : job'[q] = job[q]
          /\ job[p].at \in {"checks", "head"}
          /\ DOMAIN job'[p] = Fields
          /\ job'[p].at \in {"head", "listed"}
          /\ job'[p].bundle = job[p].bundle
          /\ job'[p].base = job[p].base
          /\ \/ job'[p].head = main /\ job[p].base = main
             \/ job'[p].head = job[p].head /\ job[p].at = "head"
          /\ UNCHANGED export
          /\ UNCHANGED <<main, worktree, accepted, latest, known, strays, broken>>
      BY <1>0, <1>2 DEF ReadHead, ListHead, At, Fields, Stepping, CallShape
    <2>2. CallShape(p)'
      BY <1>0, <2>1 DEF CallShape, Own, Allowed, Steps, Moved, StaticInv, export
    <2>3. Exported
      BY <1>0, <2>1, CallsNeedExport
    <2> QED
      BY <2>1, <2>2, <2>3, QuietStep DEF Moved
  <1> QED
    BY <1>1, <1>2

\* The bundle of a call that gets as far as a commit is allowed.
LEMMA ValidatedIsAllowed ==
  ASSUME NEW b, NEW tree, validateOperations(classes, Payload[b].role, tree, Payload[b].ops)
  PROVE  Allowed(b)
  BY Zenon DEF validateOperations, OperationFits, Allowed

\* ValidateAndBuild: only operations the author may patch are built.
LEMMA ValidateStep ==
  ASSUME PatchInv, NEW p \in Appliers, ValidateAndBuild(p)
  PROVE  PatchInv'
  <1>0. DOMAIN job = Appliers /\ CallShape(p) /\ StaticInv
    BY DEF PatchInv, StaticInv
  <1>1. CASE Reject(p) \/ Abort(p)
    BY <1>1, GivesUp DEF ValidateAndBuild, At, Moved
  <1>2. CASE ~ (Reject(p) \/ Abort(p))
    <2>0. /\ At(p, "listed")
          /\ Goto(p, "built")
          /\ UNCHANGED <<Stepping, main, worktree>>
          /\ validateOperations(classes, Payload[job[p].bundle].role, job[p].tree,
                                Payload[job[p].bundle].ops)
      BY <1>2 DEF ValidateAndBuild
    <2>1. /\ DOMAIN job' = Appliers
          /\ \A q \in Appliers \ {p} : job'[q] = job[q]
          /\ job[p].at = "listed"
          /\ DOMAIN job'[p] = Fields
          /\ job'[p].at = "built"
          /\ job'[p].bundle = job[p].bundle
          /\ job'[p].base = job[p].base
          /\ job'[p].head = job[p].head
          /\ UNCHANGED export
          /\ UNCHANGED <<main, worktree, accepted, latest, known, strays, broken>>
      BY <1>0, <2>0 DEF At, Goto, Fields, Stepping, CallShape
    <2>2. Allowed(job[p].bundle)
      BY <2>0, ValidatedIsAllowed
    <2>3. CallShape(p)'
      BY <1>0, <2>1, <2>2 DEF CallShape, Own, Allowed, Steps, Moved, export
    <2>4. Exported
      BY <1>0, <2>1, CallsNeedExport
    <2> QED
      BY <2>1, <2>3, <2>4, QuietStep DEF Moved
  <1> QED
    BY <1>1, <1>2

-----------------------------------------------------------------------------
(* The critical steps.                                                      *)

\* What a step of a call between the move of the branch and its end leaves.
Keeps(p) ==
  /\ DOMAIN job' = Appliers
  /\ \A q \in Appliers \ {p} : job'[q] = job[q]
  /\ DOMAIN job'[p] = Fields
  /\ job'[p].bundle = job[p].bundle
  /\ job'[p].base = job[p].base
  /\ job'[p].head = job[p].head

\* The commit and the record of a call are determined by what it keeps.
LEMMA KeptCommits ==
  ASSUME NEW p \in Appliers, Keeps(p)
  PROVE  \A q \in Appliers : /\ Commit(q)' = Commit(q)
                             /\ Digest(q)' = Digest(q)
                             /\ \A n : Record(q, n)' = Record(q, n)
  BY DEF Keeps, Commit, Digest, Record

\* The shape of a call that goes from one critical step to the next.
LEMMA CriticalShape ==
  ASSUME PatchInv, NEW p \in Appliers, Keeps(p), UNCHANGED export, known' = known,
         job[p].at \in {"built"} \cup Moved, job'[p].at \in Moved \cup {"recheckout"},
         job'[p].at \in {"named", "audited"} => job'[p].name \in Positive,
         job'[p].at = "rollback" => job'[p].name \in Nat
  PROVE  CallShape(p)'
  BY DEF PatchInv, StaticInv, CallShape, Keeps, Own, Allowed, export, Moved, Steps

\* MoveBranch: the compare-and-swap succeeds only while no other call is
\* between its move and its end, because that call's commit is the head.
LEMMA MoveBranchStep ==
  ASSUME PatchInv, NEW p \in Appliers, MoveBranch(p)
  PROVE  PatchInv'
  <1>0. DOMAIN job = Appliers /\ CallShape(p) /\ StaticInv
    BY DEF PatchInv, StaticInv
  <1>1. CASE Reject(p)
    BY <1>1, GivesUp DEF MoveBranch, At, Moved
  <1>2. CASE ~ Reject(p)
    <2>1. /\ Keeps(p)
          /\ job[p].at = "built"
          /\ job'[p].at = "moved"
          /\ job'[p].name = job[p].name
          /\ main = job[p].head
          /\ main' = Commit(p)
          /\ UNCHANGED export
          /\ UNCHANGED <<worktree, accepted, latest, known, strays, broken>>
      BY <1>0, <1>2 DEF MoveBranch, updateRefCAS, At, Goto, Keeps, Fields,
                        Stepping, CallShape
    <2>2. /\ job[p].head \in Seq(Bundles)
          /\ job[p].bundle \in Bundles
          /\ job[p].head \in known
          /\ known \subseteq Seq(Bundles)
          /\ Allowed(job[p].bundle)
          /\ Own(job[p].head)
      BY <1>0, <2>1 DEF CallShape, StaticInv
    <2>3. Commit(p) \in Seq(Bundles)
      BY <2>2, PrefixesOfChild DEF Commit
    <2>4. Own(main)'
      <3>1. Range(Commit(p)) = Range(job[p].head) \cup {job[p].bundle}
        BY <2>2, RangeOfChild DEF Commit
      <3>2. Own(Commit(p))
        BY <2>2, <3>1 DEF Own
      <3> QED
        BY <2>1, <3>2 DEF Own, Allowed, export
    <2>5. CallShape(p)'
      BY <2>1, CriticalShape DEF Moved
    <2>6. StaticInv'
      <3>1. Exported
        BY <1>0, <2>1, CallsNeedExport
      <3> QED
        BY <1>0, <2>1, <2>3, <2>4, <2>5, <3>1, StaticStep DEF StaticInv, Keeps
    <2>7. ASSUME ~ broken PROVE BranchInv' /\ RecordInv'
      <3>0. BranchInv /\ RecordInv
        BY <2>7 DEF PatchInv
      <3>1. \A q \in Appliers : job[q].at \notin Moved
        BY <2>1, <2>2, <3>0 DEF BranchInv
      <3>2. \A q \in Appliers : job'[q].at \in Moved <=> q = p
        BY <2>1, <3>1 DEF Keeps, Moved
      <3>3. /\ Commit(p) \notin known
            /\ \A k \in known : IsPrefix(k, Commit(p))
        <4>1. \A k \in known : IsPrefix(k, job[p].head)
          BY <2>1, <3>0 DEF BranchInv
        <4> QED
          BY <2>2, <4>1, PrefixesOfChild DEF Commit
      <3>4. \A q \in Appliers : Commit(q)' = Commit(q)
        BY <2>1, KeptCommits
      <3>5. BranchInv'
        BY <2>1, <3>1, <3>2, <3>3, <3>4 DEF BranchInv, Moved, Astray
      <3>6. \A q \in Appliers : ~ Holds(q) /\ ~ Holds(q)'
        BY <2>1, <3>1 DEF Holds, Moved, Keeps
      <3>7. RecordInv'
        BY <2>1, <3>0, <3>6 DEF RecordInv
      <3> QED
        BY <3>5, <3>7
    <2> QED
      BY <2>1, <2>6, <2>7 DEF PatchInv
  <1> QED
    BY <1>1, <1>2

\* A step of a call whose commit stays the head; what it does to the records
\* is for the step itself to show.
LEMMA MiddleStep ==
  ASSUME PatchInv, NEW p \in Appliers, Keeps(p), UNCHANGED export,
         UNCHANGED <<main, known, broken>>,
         job[p].at \in Moved, job'[p].at \in Moved,
         job'[p].at \in {"named", "audited"} => job'[p].name \in Positive,
         job'[p].at = "rollback" => job'[p].name \in Nat,
         worktree' \in {worktree, main},
         job'[p].at \in {"checkedout", "named", "audited"} =>
           worktree' = main \/ job[p].at \in {"checkedout", "named", "audited"},
         IsFiniteSet(accepted'), \A r \in accepted' : RecordShape(r),
         ~ broken => RecordInv'
  PROVE  PatchInv'
  <1>0. StaticInv
    BY DEF PatchInv
  <1>1. CallShape(p)'
    BY CriticalShape
  <1>2. Exported
    BY <1>0, CallsNeedExport DEF Moved
  <1>3. Own(main)'
    BY <1>0 DEF StaticInv, Own, Allowed, export
  <1>4. StaticInv'
    BY <1>0, <1>1, <1>2, <1>3, StaticStep DEF StaticInv, Keeps
  <1>5. ASSUME ~ broken PROVE BranchInv'
    <2>0. BranchInv
      BY <1>5 DEF PatchInv
    <2>1. \A q \in Appliers : Commit(q)' = Commit(q)
      BY KeptCommits
    <2>2. \A q \in Appliers : job'[q].at \in Moved <=> q = p
      BY <2>0 DEF BranchInv, Keeps
    <2>3. main = Commit(p) /\ Commit(p) \notin known
      BY <2>0 DEF BranchInv
    <2>4. job'[p].at \in {"checkedout", "named", "audited"} => worktree' = main
      BY <2>0 DEF BranchInv
    <2>5. job'[p].at \in Astray \/ job'[p].at \in {"checkedout", "named", "audited"}
      BY DEF Moved, Astray
    <2> QED
      BY <2>0, <2>1, <2>2, <2>3, <2>4, <2>5 DEF BranchInv, Moved
  <1> QED
    BY <1>4, <1>5 DEF PatchInv

\* A step that leaves the records, and that the call holds one, as they are.
LEMMA SameRecords ==
  ASSUME RecordInv, NEW p \in Appliers, Keeps(p), Holds(p)' <=> Holds(p),
         Holds(p) => job'[p].name = job[p].name,
         UNCHANGED <<accepted, strays, known>>, latest' \subseteq known
  PROVE  RecordInv'
  <1>1. \A q \in Appliers : Holds(q)' <=> Holds(q)
    BY DEF Keeps, Holds
  <1>2. \A q \in Appliers : Holds(q) => Record(q, job[q].name)' = Record(q, job[q].name)
    BY KeptCommits DEF Keeps, Record, Digest, Commit
  <1> QED
    BY <1>1, <1>2 DEF RecordInv

\* CheckOut: the working tree follows the branch.
LEMMA CheckOutStep ==
  ASSUME PatchInv, NEW p \in Appliers, CheckOut(p)
  PROVE  PatchInv'
  <1>0. DOMAIN job = Appliers /\ CallShape(p)
    BY DEF PatchInv, StaticInv
  <1>1. /\ Keeps(p)
        /\ job[p].at = "moved"
        /\ job'[p].at = "checkedout"
        /\ worktree' = main
        /\ UNCHANGED export
        /\ UNCHANGED <<main, accepted, latest, known, strays, broken>>
    BY <1>0 DEF CheckOut, At, Goto, Keeps, Fields, Stepping, CallShape
  <1>2. ~ broken => RecordInv'
    <2>1. ~ Holds(p) /\ ~ Holds(p)'
      BY <1>1 DEF Holds
    <2> QED
      BY <1>1, <2>1, SameRecords DEF PatchInv, RecordInv
  <1> QED
    BY <1>1, <1>2, MiddleStep DEF PatchInv, StaticInv, Moved

\* uniqueAuditName: the name is taken by no record of an accepted bundle.
LEMMA NameStep ==
  ASSUME PatchInv, NEW p \in Appliers, uniqueAuditName(p)
  PROVE  PatchInv'
  <1> DEFINE mine == {a \in accepted : a.digest = Digest(p)}
             n == CHOOSE i \in 1 .. Cardinality(Taken(p)) + 1 : i \notin Taken(p)
  <1>0. DOMAIN job = Appliers /\ CallShape(p) /\ IsFiniteSet(accepted)
    BY DEF PatchInv, StaticInv
  <1>1. /\ Keeps(p)
        /\ job[p].at = "checkedout"
        /\ job'[p].at = "named"
        /\ job'[p].name = n
        /\ UNCHANGED export
        /\ UNCHANGED <<main, worktree, accepted, latest, known, strays, broken>>
    BY <1>0 DEF uniqueAuditName, At, Keeps, Fields, Stepping, CallShape
  <1>2. IsFiniteSet(Taken(p))
    <2>1. IsFiniteSet(mine)
      BY <1>0, FS_Subset
    <2>2. [r \in mine |-> r.name] \in Surjection(mine, Taken(p))
      BY DEF Surjection, Taken
    <2> QED
      BY <2>1, <2>2, FS_Surjection DEF ExistsSurjection
  <1>3. n \in Positive
    <2>1. \E i \in 1 .. Cardinality(Taken(p)) + 1 : i \notin Taken(p)
      BY <1>2, FreeSuffix
    <2>2. n \in 1 .. Cardinality(Taken(p)) + 1
      BY <2>1
    <2>3. Cardinality(Taken(p)) \in Nat
      BY <1>2, FS_CardinalityType
    <2> HIDE DEF n
    <2> QED
      BY <2>2, <2>3 DEF Positive
  <1> HIDE DEF n
  <1>4. ~ broken => RecordInv'
    <2>1. ~ Holds(p) /\ ~ Holds(p)'
      BY <1>1 DEF Holds
    <2> QED
      BY <1>1, <2>1, SameRecords DEF PatchInv, RecordInv
  <1> QED
    BY <1>1, <1>3, <1>4, MiddleStep DEF PatchInv, StaticInv, Moved

\* writeAuditExcl: the record is that of the commit at the head.
LEMMA AuditStep ==
  ASSUME PatchInv, NEW p \in Appliers, writeAuditExcl(p)
  PROVE  PatchInv'
  <1> DEFINE n == job[p].name
  <1>0. DOMAIN job = Appliers /\ CallShape(p) /\ StaticInv
    BY DEF PatchInv, StaticInv
  <1>1. CASE n \in Taken(p)
    <2>1. /\ Keeps(p)
          /\ job[p].at = "named"
          /\ job'[p].at = "rollback"
          /\ job'[p].name = 0
          /\ UNCHANGED export
          /\ UNCHANGED <<main, worktree, accepted, latest, known, strays, broken>>
      BY <1>0, <1>1 DEF writeAuditExcl, At, Keeps, Fields, CallShape
    <2>2. ~ broken => RecordInv'
      <3>1. ~ Holds(p) /\ ~ Holds(p)'
        BY <2>1 DEF Holds
      <3> QED
        BY <2>1, <3>1, SameRecords DEF PatchInv, RecordInv
    <2> QED
      BY <2>1, <2>2, MiddleStep DEF PatchInv, StaticInv, Moved
  <1>2. CASE n \notin Taken(p)
    <2>1. /\ Keeps(p)
          /\ job[p].at = "named"
          /\ job'[p].at = "audited"
          /\ job'[p].name = n
          /\ accepted' = accepted \cup {Record(p, n)}
          /\ UNCHANGED export
          /\ UNCHANGED <<main, worktree, latest, known, strays, broken>>
      BY <1>0, <1>2 DEF writeAuditExcl, At, Goto, Keeps, Fields, CallShape
    <2>2. Record(p, n) \notin accepted
      BY <1>2 DEF Taken, Record
    <2>3. /\ job[p].head = job[p].base
          /\ job[p].base \in Seq(Bundles)
          /\ n \in Positive
      BY <1>0, <2>1 DEF CallShape, StaticInv
    <2>4. RecordShape(Record(p, n))
      BY <2>3 DEF RecordShape, Record, Digest, Commit
    <2>5. IsFiniteSet(accepted')
      BY <1>0, <2>1, FS_AddElement DEF StaticInv
    <2>6. ASSUME ~ broken PROVE RecordInv'
      <3>0. RecordInv
        BY <2>6 DEF PatchInv
      <3>1. ~ Holds(p) /\ Holds(p)'
        BY <2>1 DEF Holds
      <3>2. /\ \A q \in Appliers \ {p} : Holds(q)' <=> Holds(q)
            /\ \A q \in Appliers \ {p} : job'[q].name = job[q].name
            /\ \A q \in Appliers : \A i : Record(q, i)' = Record(q, i)
        BY <2>1, KeptCommits DEF Keeps, Holds
      <3>3. Record(p, job[p].name)' = Record(p, n)
        BY <2>1, <3>2 DEF Record, Digest, Commit, Keeps
      <3>4. accepted' \ strays = (accepted \ strays) \cup {Record(p, n)}
        BY <2>1, <2>2, <3>0 DEF RecordInv
      <3>5. \A q \in Appliers \ {p} : Record(q, job[q].name)' = Record(q, job[q].name)
        BY <2>1 DEF Keeps, Record, Digest, Commit
      <3> HIDE DEF n
      <3>6. \A q \in Appliers : Holds(q)' => Record(q, job[q].name)' \in accepted' \ strays
        BY <3>0, <3>1, <3>2, <3>3, <3>4, <3>5 DEF RecordInv
      <3>7. ASSUME NEW r \in accepted' \ strays
            PROVE  \/ r.commit \in known
                   \/ \E q \in Appliers : Holds(q)' /\ r = Record(q, job[q].name)'
        BY <3>0, <3>1, <3>2, <3>3, <3>4, <3>5, <3>7 DEF RecordInv
      <3> QED
        BY <2>1, <3>0, <3>4, <3>6, <3>7 DEF RecordInv
    <2> QED
      BY <1>0, <2>1, <2>3, <2>4, <2>5, <2>6, MiddleStep DEF StaticInv, Moved
  <1> QED
    BY <1>1, <1>2

\* Accept: the caller is told of the commit at the head, which has a record.
LEMMA AcceptStep ==
  ASSUME PatchInv, NEW p \in Appliers, Accept(p)
  PROVE  PatchInv'
  <1> DEFINE c == Commit(p)
  <1>0. DOMAIN job = Appliers /\ CallShape(p) /\ StaticInv
    BY DEF PatchInv, StaticInv
  <1>1. /\ DOMAIN job' = Appliers
        /\ \A q \in Appliers \ {p} : job'[q] = job[q]
        /\ job[p].at = "audited"
        /\ job'[p] = Idle
        /\ job'[p].at = "idle"
        /\ latest' = {c}
        /\ known' = known \cup {c}
        /\ UNCHANGED export
        /\ UNCHANGED <<main, worktree, accepted, strays, broken>>
    <2>1. Idle.at = "idle"
      BY DEF Idle
    <2> QED
      BY <1>0, <2>1 DEF Accept, At, Done
  <1>2. /\ job[p].head \in Seq(Bundles)
        /\ job[p].bundle \in Bundles
        /\ known \subseteq Seq(Bundles)
    BY <1>0, <1>1 DEF CallShape, StaticInv
  <1>3. c \in Seq(Bundles) /\ IsPrefix(c, c)
    <2>1. c \in Seq(Bundles)
      BY <1>2, PrefixesOfChild DEF Commit
    <2> HIDE DEF c
    <2> QED
      BY <2>1, PrefixOfItself
  <1>4. StaticInv'
    <2>1. CallShape(p)'
      BY <1>1, DoneShape
    <2>2. Exported
      BY <1>0, <1>1, CallsNeedExport
    <2>3. Own(main)'
      BY <1>0, <1>1 DEF StaticInv, Own, Allowed, export
    <2> HIDE DEF c
    <2> QED
      BY <1>0, <1>1, <1>2, <1>3, <2>1, <2>2, <2>3, StaticStep DEF StaticInv
  <1>5. ASSUME ~ broken PROVE BranchInv' /\ RecordInv'
    <2>0. BranchInv /\ RecordInv
      BY <1>5 DEF PatchInv
    <2>1. main = c /\ c \notin known /\ worktree = main
      BY <1>1, <2>0 DEF BranchInv, Moved
    <2>2. \A q \in Appliers : job'[q].at \notin Moved
      BY <1>1, <2>0 DEF BranchInv, Moved
    <2> HIDE DEF c
    <2>3. BranchInv'
      BY <1>1, <1>3, <2>0, <2>1, <2>2 DEF BranchInv, Moved
    <2>4. \A q \in Appliers : ~ Holds(q)'
      BY <2>2 DEF Holds, Moved
    <2>5. \A q \in Appliers \ {p} : ~ Holds(q)
      BY <1>1, <2>2 DEF Holds, Moved
    <2>6. Record(p, job[p].name) \in accepted \ strays
      BY <1>1, <2>0 DEF RecordInv, Holds
    <2>7. Record(p, job[p].name).commit = c
      BY DEF Record, c
    <2>8. \A r \in accepted \ strays : r.commit \in known'
      BY <1>1, <2>0, <2>5, <2>7 DEF RecordInv
    <2>9. \A k \in known' \ {<< >>} : \E r \in accepted \ strays : r.commit = k
      BY <1>1, <2>0, <2>6, <2>7 DEF RecordInv
    <2>10. RecordInv'
      BY <1>1, <2>0, <2>4, <2>8, <2>9 DEF RecordInv
    <2> QED
      BY <2>3, <2>10
  <1> QED
    BY <1>1, <1>4, <1>5 DEF PatchInv

\* ApplyFails: a call that fails after its move enters the rollback with its
\* commit still at the head.
LEMMA ApplyFailsStep ==
  ASSUME PatchInv, NEW p \in Appliers, ApplyFails(p)
  PROVE  PatchInv'
  <1>0. DOMAIN job = Appliers /\ CallShape(p)
    BY DEF PatchInv, StaticInv
  <1>1. /\ Keeps(p)
        /\ job[p].at \in {"moved", "checkedout", "named", "audited"}
        /\ job'[p].at = "rollback"
        /\ job'[p].name = IF job[p].at = "audited" THEN job[p].name ELSE 0
        /\ latest' \in {latest, {}}
        /\ UNCHANGED export
        /\ UNCHANGED <<main, worktree, accepted, known, strays, broken>>
    BY <1>0 DEF ApplyFails, At, Keeps, Fields, CallShape
  <1>2. job'[p].name \in Nat
    BY <1>0, <1>1 DEF CallShape, Positive
  <1>3. ~ broken => RecordInv'
    <2>1. Holds(p)' <=> Holds(p)
      BY <1>0, <1>1 DEF Holds, CallShape, Positive
    <2>2. Holds(p) => job'[p].name = job[p].name
      BY <1>1 DEF Holds
    <2> QED
      BY <1>1, <2>1, <2>2, SameRecords DEF PatchInv, RecordInv
  <1> QED
    BY <1>1, <1>2, <1>3, MiddleStep DEF PatchInv, StaticInv, Moved

\* RollbackRecord: no record but that of the call itself is removed.
LEMMA RollbackRecordStep ==
  ASSUME PatchInv, NEW p \in Appliers, RollbackRecord(p)
  PROVE  PatchInv'
  <1> DEFINE n == job[p].name
             mine == {r \in accepted : r.digest = Digest(p) /\ r.name = n}
  <1>0. DOMAIN job = Appliers /\ CallShape(p) /\ StaticInv
    BY DEF PatchInv, StaticInv
  <1>1. /\ Keeps(p)
        /\ job[p].at = "rollback"
        /\ job'[p].at = "restore"
        /\ \/ accepted' = accepted \ mine /\ strays' = strays
           \/ accepted' = accepted /\ strays' = strays \cup mine
        /\ UNCHANGED export
        /\ UNCHANGED <<main, worktree, latest, known, broken>>
    BY <1>0 DEF RollbackRecord, RemoveRecord, At, Goto, Keeps, Fields, CallShape
  <1>2. job[p].head = job[p].base
    BY <1>0, <1>1 DEF CallShape
  <1>3. \A r \in mine : r = Record(p, n) /\ n # 0
    <2>1. ASSUME NEW r \in mine PROVE r = Record(p, n) /\ n # 0
      <3>1. RecordShape(r) /\ r.digest = Digest(p) /\ r.name = n
        BY <1>0 DEF StaticInv
      <3>2. r.digest.base = job[p].base /\ r.digest.bundle = job[p].bundle
        BY <3>1 DEF Digest
      <3> QED
        BY <1>2, <3>1, <3>2 DEF RecordShape, Record, Commit, Positive
    <2> QED
      BY <2>1
  <1>4. IsFiniteSet(accepted') /\ \A r \in accepted' : RecordShape(r)
    BY <1>0, <1>1, FS_Subset DEF StaticInv
  <1>5. ASSUME ~ broken PROVE RecordInv'
    <2>0. BranchInv /\ RecordInv
      BY <1>5 DEF PatchInv
    <2>1. \A q \in Appliers : ~ Holds(q)'
      <3>1. \A q \in Appliers \ {p} : job[q].at \notin Moved
        BY <1>1, <2>0 DEF BranchInv, Moved
      <3> QED
        BY <1>1, <3>1 DEF Holds, Moved, Keeps
    <2>2. \A q \in Appliers \ {p} : ~ Holds(q)
      BY <1>1, <2>0 DEF BranchInv, Moved, Holds
    <2>3. Commit(p) \notin known
      BY <1>1, <2>0 DEF BranchInv, Moved
    <2>4. \A r \in mine : r \notin strays /\ r.commit \notin known
      BY <1>1, <1>3, <2>0, <2>3 DEF RecordInv, Holds, Record
    <2>5. Holds(p) => Record(p, n) \in mine
      BY <2>0 DEF RecordInv, Record
    <2> HIDE DEF mine
    <2>6. accepted' \ strays' = (accepted \ strays) \ mine
      BY <1>1
    <2>7. strays' \subseteq accepted'
      <3>1. mine \subseteq accepted
        BY DEF mine
      <3> QED
        BY <1>1, <2>0, <2>4, <3>1 DEF RecordInv
    <2>8. \A r \in accepted' \ strays' : r.commit \in known
      BY <2>0, <2>2, <2>5, <2>6 DEF RecordInv
    <2>9. \A k \in known \ {<< >>} : \E r \in accepted' \ strays' : r.commit = k
      BY <2>0, <2>4, <2>6 DEF RecordInv
    <2> QED
      BY <1>1, <2>0, <2>1, <2>7, <2>8, <2>9 DEF RecordInv
  <1> QED
    BY <1>1, <1>4, <1>5, MiddleStep DEF Moved

\* RestoreBranch: the head taken back is the call's own commit, which nobody
\* was told of.
LEMMA RestoreBranchStep ==
  ASSUME PatchInv, NEW p \in Appliers, RestoreBranch(p)
  PROVE  PatchInv'
  <1>0. DOMAIN job = Appliers /\ CallShape(p) /\ StaticInv
    BY DEF PatchInv, StaticInv
  <1>1. /\ Keeps(p)
        /\ job[p].at = "restore"
        /\ job'[p].at = "recheckout"
        /\ main' = job[p].head
        /\ UNCHANGED export
        /\ UNCHANGED <<worktree, accepted, latest, known, strays, broken>>
    BY <1>0 DEF RestoreBranch, At, Goto, Keeps, Fields, Stepping, CallShape
  <1>2. /\ job[p].head \in Seq(Bundles)
        /\ job[p].bundle \in Bundles
        /\ job[p].head \in known
        /\ known \subseteq Seq(Bundles)
    BY <1>0, <1>1 DEF CallShape, StaticInv
  <1>3. StaticInv'
    <2>1. CallShape(p)'
      BY <1>1, CriticalShape DEF Moved
    <2>2. Exported
      BY <1>0, <1>1, CallsNeedExport
    <2>3. Own(main)'
      BY <1>0, <1>1 DEF CallShape, Own, Allowed, export
    <2> QED
      BY <1>0, <1>1, <1>2, <2>1, <2>2, <2>3, StaticStep DEF StaticInv, Keeps
  <1>4. ASSUME ~ broken PROVE BranchInv' /\ RecordInv'
    <2>0. BranchInv /\ RecordInv
      BY <1>4 DEF PatchInv
    <2>1. main = Commit(p) /\ Commit(p) \notin known
      BY <1>1, <2>0 DEF BranchInv, Moved
    <2>2. \A k \in known : IsPrefix(k, job[p].head)
      <3>1. \A k \in known : IsPrefix(k, Commit(p)) /\ k # Commit(p)
        BY <2>0, <2>1 DEF BranchInv
      <3> QED
        BY <1>2, <3>1, PrefixesOfChild DEF Commit
    <2>3. \A q \in Appliers : job'[q].at \notin Moved
      BY <1>1, <2>0 DEF BranchInv, Moved, Keeps
    <2>4. BranchInv'
      BY <1>1, <1>2, <2>2, <2>3 DEF BranchInv, Moved, Astray
    <2>5. ~ Holds(p) /\ ~ Holds(p)'
      BY <1>1 DEF Holds
    <2>6. RecordInv'
      BY <1>1, <2>0, <2>5, SameRecords DEF RecordInv
    <2> QED
      BY <2>4, <2>6
  <1> QED
    BY <1>1, <1>3, <1>4 DEF PatchInv

\* The end of a rollback: either the branch is where the call found it, or
\* the call reports patch.rollback_failed.
LEMMA RollbackEndStep ==
  ASSUME PatchInv, NEW p \in Appliers, RestoreTree(p) \/ RollbackFails(p)
  PROVE  PatchInv'
  <1>0. DOMAIN job = Appliers /\ CallShape(p) /\ StaticInv
    BY DEF PatchInv, StaticInv
  <1>1. /\ DOMAIN job' = Appliers
        /\ \A q \in Appliers \ {p} : job'[q] = job[q]
        /\ job[p].at \in {"restore", "recheckout"}
        /\ job'[p] = Idle
        /\ job'[p].at = "idle"
        /\ worktree' \in {worktree, main}
        /\ ~ broken' => ~ broken /\ worktree' = main /\ job[p].at = "recheckout"
        /\ broken' \in BOOLEAN
        /\ UNCHANGED export
        /\ UNCHANGED <<main, accepted, latest, known, strays>>
    <2>1. Idle.at = "idle"
      BY DEF Idle
    <2>2. CASE RestoreTree(p)
      BY <1>0, <2>1, <2>2 DEF RestoreTree, At, Done, StaticInv
    <2>3. CASE RollbackFails(p)
      BY <1>0, <2>1, <2>3 DEF RollbackFails, Done
    <2> QED
      BY <2>2, <2>3
  <1>2. StaticInv'
    <2>1. CallShape(p)'
      BY <1>1, DoneShape
    <2>2. Exported
      BY <1>0, <1>1, CallsNeedExport
    <2>3. Own(main)'
      BY <1>0, <1>1 DEF StaticInv, Own, Allowed, export
    <2> QED
      BY <1>0, <1>1, <2>1, <2>2, <2>3, StaticStep DEF StaticInv
  <1>3. ASSUME ~ broken' PROVE BranchInv' /\ RecordInv'
    <2>0. BranchInv /\ RecordInv /\ worktree' = main /\ job[p].at = "recheckout"
      BY <1>1, <1>3 DEF PatchInv
    <2>1. \A q \in Appliers : /\ job'[q].at \in Moved => q # p
                              /\ job'[q].at \in Moved <=> job[q].at \in Moved
                              /\ Holds(q)' <=> Holds(q)
                              /\ Holds(q) => q # p
      BY <1>1, <2>0 DEF Moved, Holds
    <2>2. BranchInv'
      BY <1>1, <2>0, <2>1 DEF BranchInv, Commit, Moved
    <2>3. \A q \in Appliers : Holds(q) => Record(q, job[q].name)' = Record(q, job[q].name)
      BY <1>1, <2>1 DEF Record, Digest, Commit
    <2>4. RecordInv'
      BY <1>1, <2>0, <2>1, <2>3 DEF RecordInv
    <2> QED
      BY <2>2, <2>4
  <1> QED
    BY <1>2, <1>3 DEF PatchInv

-----------------------------------------------------------------------------
(* Export, and the invariant.                                               *)

\* Export and its steps: no call exists before an export is complete.
LEMMA ExportingStep ==
  ASSUME PatchInv, Export \/ ExportStep \/ ExportFails \/ ExporterDies
  PROVE  PatchInv'
  <1>0. ExportShape /\ StaticInv
    BY DEF PatchInv, StaticInv
  <1>1. UNCHANGED integration
    BY DEF Export, ExportStep, ExportFails, ExporterDies
  <1>2. ~ Exported
    <2>1. CASE Export
      <3>1. OutputIsFree /\ exporting \in {"no", "died"}
        BY <2>1 DEF Export
      <3>2. repos = {} \/ exporting # "no"
        BY <1>0, <3>1 DEF OutputIsFree, ExportShape, Repositories
      <3> QED
        BY <3>2 DEF Exported
    <2> QED
      BY <2>1 DEF ExportStep, ExportFails, ExporterDies, Exported, Repositories
  <1>3. main = << >> /\ \A p \in Appliers : job[p] = Idle
    BY <1>0, <1>2 DEF ExportShape
  <1>4. ExportShape'
    <2>1. CASE Export
      <3>1. /\ Repositories \cap repos = {}
            /\ exporting \in {"no", "died"}
            /\ exporting' = "integration"
            /\ repos' = repos
        BY <2>1 DEF Export, OutputIsFree
      <3>2. repos = {}
        BY <1>0, <3>1 DEF ExportShape, Repositories
      <3> QED
        BY <1>1, <1>3, <3>1, <3>2 DEF ExportShape, Repositories, integration
    <2>2. CASE ExportStep
      <3>1. /\ exporting \in Repositories \cup {"audit"}
            /\ repos' = repos \cup {exporting}
            /\ exporting' = NextStep(exporting)
        BY <2>2 DEF ExportStep
      <3>2. CASE exporting = "integration"
        <4>1. exporting' = "worker-a" /\ repos' = {"integration"}
          BY <1>0, <3>1, <3>2 DEF NextStep, ExportShape
        <4> QED
          BY <1>1, <1>3, <4>1 DEF ExportShape, Repositories, integration
      <3>3. CASE exporting = "worker-a"
        <4>1. exporting' = "worker-b" /\ repos' = {"integration", "worker-a"}
          BY <1>0, <3>1, <3>3 DEF NextStep, ExportShape
        <4> QED
          BY <1>1, <1>3, <4>1 DEF ExportShape, Repositories, integration
      <3>4. CASE exporting = "worker-b"
        <4>1. exporting' = "audit" /\ repos' = Repositories
          BY <1>0, <3>1, <3>4 DEF NextStep, ExportShape, Repositories
        <4> QED
          BY <1>1, <1>3, <4>1 DEF ExportShape, Repositories, integration
      <3>5. CASE exporting = "audit"
        <4>1. exporting' = "no" /\ repos' = Repositories \cup {"audit"}
          BY <1>0, <3>1, <3>5 DEF NextStep, ExportShape
        <4> QED
          BY <1>1, <1>3, <4>1 DEF ExportShape, Repositories, integration
      <3> QED
        BY <3>1, <3>2, <3>3, <3>4, <3>5 DEF Repositories
    <2>3. CASE ExportFails
      <3>1. exporting' = "no" /\ repos' = {}
        <4>1. repos \subseteq Repositories \cup {"audit"}
          BY <1>0 DEF ExportShape, Repositories
        <4> QED
          BY <2>3, <4>1 DEF ExportFails, cleanupExport
      <3> QED
        BY <1>1, <1>3, <3>1 DEF ExportShape, Repositories, integration
    <2>4. CASE ExporterDies
      <3>1. /\ exporting' = "died"
            /\ repos' \in {{}, {"integration"}, {"integration", "worker-a"}, Repositories}
        BY <1>0, <2>4 DEF ExporterDies, ExportShape, Repositories
      <3> QED
        BY <1>1, <1>3, <3>1 DEF ExportShape, Repositories, integration
    <2> QED
      BY <2>1, <2>2, <2>3, <2>4
  <1>5. Range(<< >>) = {}
    BY DEF Range
  <1>6. ASSUME NEW p \in Appliers PROVE CallShape(p)'
    BY <1>1, <1>3, DoneShape DEF integration
  <1>7. StaticInv'
    BY <1>0, <1>1, <1>3, <1>4, <1>5, <1>6
       DEF StaticInv, Own, integration
  <1>8. BranchInv /\ RecordInv => BranchInv' /\ RecordInv'
    BY <1>1 DEF BranchInv, RecordInv, integration, Commit, Holds, Record, Digest
  <1> QED
    BY <1>1, <1>7, <1>8 DEF PatchInv, integration

\* There is no repository yet, so the inductive invariant holds initially.
LEMMA InitPatch == Init => PatchInv
  <1> SUFFICES ASSUME Init PROVE PatchInv
    OBVIOUS
  <1>1. Idle.at = "idle" /\ Idle.head = << >> /\ DOMAIN Idle = Fields
    BY DEF Idle, Fields
  <1>2. Range(<< >>) = {} /\ << >> \in Seq(Bundles)
    BY DEF Range
  <1>3. \A p \in Appliers : job[p] = Idle
    BY DEF Init
  <1>4. \A p \in Appliers : CallShape(p)
    BY <1>1, <1>2, <1>3 DEF CallShape, Own, Steps, Moved
  <1>5. ExportShape
    BY <1>3 DEF Init, ExportShape, Repositories
  <1>6. IsFiniteSet(accepted)
    BY FS_EmptySet DEF Init
  <1>7. StaticInv
    BY <1>2, <1>4, <1>5, <1>6 DEF Init, StaticInv, Own
  <1>8. IsPrefix(<< >>, << >>)
    BY <1>2, PrefixOfItself
  <1>9. BranchInv
    BY <1>1, <1>3, <1>8 DEF Init, BranchInv, Moved
  <1>10. RecordInv
    BY <1>1, <1>3 DEF Init, RecordInv, Holds
  <1> QED
    BY <1>7, <1>9, <1>10 DEF PatchInv

\* Every step preserves the inductive invariant.
LEMMA NextPatch == PatchInv /\ [Next]_vars => PatchInv'
  <1> SUFFICES ASSUME PatchInv, [Next]_vars PROVE PatchInv'
    OBVIOUS
  <1>1. CASE UNCHANGED vars
    BY <1>1 DEF vars, export, PatchInv, StaticInv, BranchInv, RecordInv, ExportShape,
                Exported, CallShape, Own, Allowed, Commit, Holds, Record, Digest
  <1>2. ASSUME NEW p \in Appliers, CommandFails(p) PROVE PatchInv'
    BY <1>2, GivesUp DEF CommandFails, Moved
  <1>3. CASE Next
    BY <1>2, <1>3, ExportingStep, ApplyPatchStep, ReadStep, ValidateStep,
       MoveBranchStep, CheckOutStep, NameStep, AuditStep, AcceptStep, ApplyFailsStep,
       RollbackRecordStep, RestoreBranchStep, RollbackEndStep DEF Next
  <1> QED
    BY <1>1, <1>3

\* The inductive invariant holds throughout.
LEMMA PatchAlways == Spec => []PatchInv
  BY InitPatch, NextPatch, PTL DEF Spec

-----------------------------------------------------------------------------
(* The theorems.                                                            *)

\* A commit that ApplyPatch has returned stays on the Integration branch, for
\* any number of concurrent calls: neither the move of another, which is a
\* compare-and-swap, nor its rollback, which is not, takes it away, until a
\* rollback fails and says so.
THEOREM AcceptedKept == Spec => []AcceptedStays
  <1>1. PatchInv => AcceptedStays
    BY DEF PatchInv, BranchInv, AcceptedStays
  <1> QED
    BY <1>1, PatchAlways, PTL

\* Every path changed since the export was its author's to patch: the tree an
\* operation is validated against may be another than the one it is committed
\* on, but its right to the path depends on neither.
THEOREM OwnPaths == Spec => []OnlyOwnPathsChange
  <1>1. PatchInv => OnlyOwnPathsChange
    BY DEF PatchInv, StaticInv, Own, Allowed, OnlyOwnPathsChange
  <1> QED
    BY <1>1, PatchAlways, PTL

\* A finished export is complete or gone, and between calls the branch, the
\* working tree, the audit records and the commits returned agree, whatever
\* calls ran at once and failed, as long as every rollback succeeded.
THEOREM RepositorySound == Spec => []RepositoryIsSound
  <1>1. ASSUME PatchInv PROVE TypeOK
    <2>1. repos \subseteq Repositories \cup {"audit"}
      BY <1>1 DEF PatchInv, StaticInv, ExportShape, Repositories
    <2> QED
      BY <1>1, <2>1 DEF PatchInv, StaticInv, ExportShape, CallShape, Steps, TypeOK
  <1>2. ASSUME PatchInv, Quiescent, ~ broken
        PROVE  /\ main \in known /\ worktree = main
               /\ {r.commit : r \in accepted \ strays} = known \ {<< >>}
               /\ latest \subseteq known
    <2>0. StaticInv /\ BranchInv /\ RecordInv
      BY <1>2 DEF PatchInv
    <2>1. \A p \in Appliers : job[p].at = "idle"
      BY <1>2 DEF Quiescent, At
    <2>2. main \in known /\ worktree = main
      BY <2>0, <2>1 DEF BranchInv, Moved, Astray
    <2>3. \A p \in Appliers : ~ Holds(p)
      BY <2>1 DEF Holds
    <2>4. \A r \in accepted \ strays : r.commit \in known /\ r.commit # << >>
      <3>1. ASSUME NEW r \in accepted \ strays PROVE r.commit # << >>
        <4>1. RecordShape(r)
          BY <2>0 DEF StaticInv
        <4>2. r.digest.base \in Seq(Bundles)
              /\ r.commit = Append(r.digest.base, r.digest.bundle)
          BY <4>1 DEF RecordShape
        <4> QED
          BY <4>2
      <3> QED
        BY <2>0, <2>3, <3>1 DEF RecordInv
    <2>5. \A k \in known \ {<< >>} : \E r \in accepted \ strays : r.commit = k
      BY <2>0 DEF RecordInv
    <2> QED
      BY <2>0, <2>2, <2>4, <2>5 DEF RecordInv
  <1>3. PatchInv => RepositoryIsSound
    BY <1>1, <1>2 DEF RepositoryIsSound, RecordsAgree
  <1> QED
    BY <1>3, PatchAlways, PTL
============================================================================
