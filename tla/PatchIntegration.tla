-------------------------- MODULE PatchIntegration --------------------------
(***************************************************************************)
(* The private Integration repository of a job site                         *)
(* (source-control-manager/internal/jobsite): Export creates it beside the  *)
(* two Worker projections, and ApplyPatch commits the Workers' bundles to   *)
(* it.                                                                      *)
(*                                                                          *)
(* Every git and file-system command of the two is a step that may fail;    *)
(* ApplyPatch may run in several goroutines at once, and only git's         *)
(* compare-and-swap of the branch orders them.                              *)
(*                                                                          *)
(* Commit dates and authors are fixed, so a commit is determined by its     *)
(* parent and the bundle: a commit is the sequence of bundles applied since *)
(* the exported source commit << >>.  File contents are left out.           *)
(***************************************************************************)
EXTENDS ProjectionPolicy

CONSTANTS
  Appliers,     \* goroutines that call ApplyPatch
  Documents,    \* policy documents: [version, entries]
  Source,       \* paths of the source commit
  Links,        \* the paths of Source that are no regular file
  Bundles,      \* bundle names
  Payload,      \* name -> [role, intact, ops]
  Fold,         \* path component -> its case-folded form
  MaxCommits,   \* bound: commits on top of the exported one
  MaxStrays     \* bound: audit records whose removal fails

ASSUME BoundAssumption == {MaxCommits, MaxStrays} \subseteq Nat /\ Links \subseteq Source

VARIABLES
  classes,      \* the policy of the export
  repos,        \* repositories and audit records of the output directory
  exporting,    \* Export runs, or the process that ran it has died
  main,         \* refs/heads/main of Integration
  worktree,     \* the commit checked out
  accepted,     \* accepted patch-accepted-* audit records
  latest,       \* the commit patch-accepted.json names, none when it is absent or torn
  known,        \* commits returned to the control plane
  job,          \* the progress of each ApplyPatch call
  strays,       \* history: records whose removal failed
  broken        \* a call has returned patch.rollback_failed

export == <<classes, repos, exporting>>
vars == <<export, main, worktree, accepted, latest, known, job, strays, broken>>
integration == <<main, worktree, accepted, latest, known, job, strays, broken>>

-----------------------------------------------------------------------------
(* Trees.                                                                   *)

(* What an operation sets on paths: create and update leave the path        *)
(* present, delete removes it.                                              *)
Patched(tree, ops) ==
  (tree \ {op.path : op \in {o \in ops : o.action = "delete"}})
    \cup {op.path : op \in {o \in ops : o.action # "delete"}}

Tree(commit) == FoldLeft(LAMBDA t, b : Patched(t, Payload[b].ops), Source, commit)

(* Two paths cannot be in one tree: below the same directories they differ  *)
(* by case only, or one is a file where the other is a directory.           *)
Collides(p, q) ==
  \E i \in DOMAIN p \cap DOMAIN q :
     /\ \A j \in 1 .. i - 1 : p[j] = q[j]
     /\ Fold[p[i]] = Fold[q[i]]
     /\ i = Len(p) \/ i = Len(q) \/ p[i] # q[i]

(* writeTree refuses a tree with colliding paths, also paths it inherits.   *)
Storable(tree) == \A p, q \in tree : p # q => ~ Collides(p, q)

SafePath(path) == \A i \in DOMAIN path : path[i] \notin {"..", ".git"}

-----------------------------------------------------------------------------
(* Export.                                                                  *)

Repositories == {"integration", "worker-a", "worker-b"}

validateSourceTree(cls) ==
  \A p \in Source :
     /\ SafePath(p)
     /\ p \in Links => \A role \in WorkerRoles : ~ VisibleTo(cls, role, p)

Visible(cls, role) == {p \in Source : VisibleTo(cls, role, p)}

OutputIsFree == Repositories \cap repos = {}

Export ==
  /\ exporting \in {"no", "died"}
  /\ \E doc \in Documents :
       /\ PolicyIsValid(doc.version, doc.entries)
       /\ validateSourceTree(ParsePolicy(doc.entries))
       /\ OutputIsFree
       /\ classes' = ParsePolicy(doc.entries)
  /\ exporting' = "integration"
  /\ UNCHANGED <<repos, integration>>

(* The order of the steps: Integration, Worker A, Worker B, audit records.  *)
NextStep(step) == CASE step = "integration" -> "worker-a"
                    [] step = "worker-a" -> "worker-b"
                    [] step = "worker-b" -> "audit"
                    [] step = "audit" -> "no"

ExportStep ==
  /\ exporting \in Repositories \cup {"audit"}
  /\ exporting \in WorkerRoles => Storable(Visible(classes, exporting))
  /\ repos' = repos \cup {exporting}
  /\ exporting' = NextStep(exporting)
  /\ UNCHANGED <<classes, integration>>

cleanupExport == repos \ (Repositories \cup {"audit"})

(* A step fails, possibly after it created its directory; cleanupExport     *)
(* removes that too.                                                        *)
ExportFails ==
  /\ exporting \in Repositories \cup {"audit"}
  /\ repos' = cleanupExport
  /\ exporting' = "no"
  /\ UNCHANGED <<classes, integration>>

(* The exporting process dies between two steps: what it made stays, and a  *)
(* later Export refuses the directory.                                      *)
ExporterDies ==
  /\ exporting \in Repositories \cup {"audit"}
  /\ exporting' = "died"
  /\ UNCHANGED <<classes, repos, integration>>

Exported == exporting = "no" /\ repos # {}

-----------------------------------------------------------------------------
(* ApplyPatch.                                                              *)

Idle == [at |-> "idle", bundle |-> "none", base |-> << >>, head |-> << >>, tree |-> {}, name |-> 0]

At(p, step) == job[p].at = step
Goto(p, step) == job' = [job EXCEPT ![p].at = step]
Done(p) == job' = [job EXCEPT ![p] = Idle]

Digest(p) == [bundle |-> job[p].bundle, base |-> job[p].base]
Commit(p) == Append(job[p].head, job[p].bundle)

(* A rejection.  Its audit record is read back by nothing but the choice of *)
(* the next record's suffix and is left out.                                *)
Reject(p) ==
  /\ Done(p)
  /\ UNCHANGED <<export, main, worktree, accepted, latest, known, strays, broken>>

(* An infrastructure error before the branch was moved.                     *)
Abort(p) ==
  /\ Done(p)
  /\ UNCHANGED <<export, main, worktree, accepted, latest, known, strays, broken>>

Stepping == <<export, accepted, latest, known, strays, broken>>

(* A Worker's bundle names the commit its session was opened on: the source *)
(* commit or one a previous ApplyPatch has returned.  No bundle is applied  *)
(* after a rollback failed: that error fails closed.                        *)
ApplyPatch(p, b, base) ==
  /\ Exported /\ ~ broken /\ At(p, "idle")
  /\ base \in known /\ Len(base) < MaxCommits
  /\ job' = [job EXCEPT ![p] = [Idle EXCEPT !.at = "checks", !.bundle = b, !.base = base]]
  /\ UNCHANGED <<Stepping, main, worktree>>

(* Version, role, policy digest, bundle digest and contents, then the head. *)
BundleIntact(p) == Payload[job[p].bundle].role \in WorkerRoles /\ Payload[job[p].bundle].intact

ReadHead(p) ==
  /\ At(p, "checks")
  /\ IF BundleIntact(p) /\ job[p].base = main
     THEN /\ job' = [job EXCEPT ![p].at = "head", ![p].head = main]
          /\ UNCHANGED <<Stepping, main, worktree>>
     ELSE Reject(p)

(* The tree to validate against is read by a second command, from HEAD.     *)
ListHead(p) ==
  /\ At(p, "head")
  /\ job' = [job EXCEPT ![p].at = "listed", ![p].tree = Tree(main)]
  /\ UNCHANGED <<Stepping, main, worktree>>

(* Mutation: what a Worker sees, it may change.                             *)
VisibleIsEnough(cls, role, present, op) ==
  /\ SafePath(op.path)
  /\ VisibleTo(cls, role, op.path)
  /\ op.action = "create" => op.path \notin present
  /\ op.action \in {"update", "delete"} => op.path \in present

OperationFits(cls, role, present, op) ==
  /\ SafePath(op.path)
  /\ WritableBy(cls, role, op.path)
  /\ op.action = "create" => op.path \notin present
  /\ op.action \in {"update", "delete"} => op.path \in present
  /\ op.mode \in IF op.action = "delete" THEN {""} ELSE {"100644", "100755"}

(* No path is listed twice, every operation fits, and the paths written     *)
(* collide neither with one another nor with a path the bundle leaves alone.*)
validateOperations(cls, role, present, ops) ==
  LET written == {op.path : op \in {o \in ops : o.action # "delete"}}
      kept == present \ {op.path : op \in ops}
  IN /\ ops # {}
     /\ \A o1, o2 \in ops : o1.path = o2.path => o1 = o2
     /\ \A op \in ops : OperationFits(cls, role, present, op)
     /\ \A q \in written, r \in kept \cup written : q # r => ~ Collides(q, r)

(* buildCommit works on the head that was read, not on HEAD.                *)
ValidateAndBuild(p) ==
  /\ At(p, "listed")
  /\ LET b == Payload[job[p].bundle] IN
     IF ~ validateOperations(classes, b.role, job[p].tree, b.ops) THEN Reject(p)
     ELSE IF ~ Storable(Patched(Tree(job[p].head), b.ops)) THEN Abort(p)
     ELSE Goto(p, "built") /\ UNCHANGED <<Stepping, main, worktree>>

(* Mutation: the branch is moved without the old value.                     *)
UnconditionalUpdate(p) == TRUE

updateRefCAS(p) == main = job[p].head

MoveBranch(p) ==
  /\ At(p, "built")
  /\ IF updateRefCAS(p)
     THEN /\ main' = Commit(p)
          /\ Goto(p, "moved")
          /\ UNCHANGED <<Stepping, worktree>>
     ELSE Reject(p)

CheckOut(p) ==
  /\ At(p, "moved")
  /\ worktree' = main
  /\ Goto(p, "checkedout")
  /\ UNCHANGED <<Stepping, main>>

Record(p, n) == [digest |-> Digest(p), name |-> n, commit |-> Commit(p)]
Taken(p) == {r.name : r \in {a \in accepted : a.digest = Digest(p)}}

(* The first free suffix, taken before the file is created exclusively.     *)
uniqueAuditName(p) ==
  /\ At(p, "checkedout")
  /\ job' = [job EXCEPT ![p].at = "named",
                        ![p].name = CHOOSE n \in 1 .. Cardinality(Taken(p)) + 1 :
                                      n \notin Taken(p)]
  /\ UNCHANGED <<Stepping, main, worktree>>

writeAuditExcl(p) ==
  /\ At(p, "named")
  /\ IF job[p].name \in Taken(p)
     THEN /\ job' = [job EXCEPT ![p].at = "rollback", ![p].name = 0]
          /\ UNCHANGED accepted
     ELSE /\ accepted' = accepted \cup {Record(p, job[p].name)}
          /\ Goto(p, "audited")
  /\ UNCHANGED <<export, latest, known, strays, broken, main, worktree>>

Accept(p) ==
  /\ At(p, "audited")
  /\ latest' = {Commit(p)}
  /\ known' = known \cup {Commit(p)}
  /\ Done(p)
  /\ UNCHANGED <<export, main, worktree, accepted, strays, broken>>

(* A git or file-system command fails.  Before the branch was moved the     *)
(* call just returns; afterwards it rolls back, with the name of the unique *)
(* record only if that record was written.  A failed write of               *)
(* patch-accepted.json may have truncated the previous one.                 *)
CommandFails(p) ==
  /\ job[p].at \in {"head", "listed", "built"}
  /\ Abort(p)

ApplyFails(p) ==
  /\ job[p].at \in {"moved", "checkedout", "named", "audited"}
  /\ job' = [job EXCEPT ![p].at = "rollback", ![p].name = IF At(p, "audited") THEN @ ELSE 0]
  /\ latest' \in IF At(p, "audited") THEN {latest, {}} ELSE {latest}
  /\ UNCHANGED <<export, accepted, known, strays, broken, main, worktree>>

(* Mutation: the rollback keeps the accepted record.                        *)
KeepRecord(p) ==
  /\ At(p, "rollback")
  /\ Goto(p, "restore")
  /\ UNCHANGED <<accepted, strays>>

(* rollbackIntegration: the record goes first, and a failure to remove it   *)
(* is ignored.                                                              *)
RemoveRecord(p) ==
  /\ At(p, "rollback")
  /\ Goto(p, "restore")
  /\ LET mine == {r \in accepted : r.digest = Digest(p) /\ r.name = job[p].name} IN
     \/ accepted' = accepted \ mine /\ UNCHANGED strays
     \/ mine # {} /\ Cardinality(strays) < MaxStrays /\ UNCHANGED accepted /\ strays' = strays \cup mine

RollbackRecord(p) ==
  /\ RemoveRecord(p)
  /\ UNCHANGED <<export, latest, known, broken, main, worktree>>

(* The branch is set back without looking at its present value.             *)
RestoreBranch(p) ==
  /\ At(p, "restore")
  /\ main' = job[p].head
  /\ Goto(p, "recheckout")
  /\ UNCHANGED <<Stepping, worktree>>

(* The checkout and the final comparison of HEAD; any error of the rollback *)
(* is reported as patch.rollback_failed.                                    *)
RestoreTree(p) ==
  /\ At(p, "recheckout")
  /\ worktree' = main
  /\ broken' = (broken \/ main # job[p].head)
  /\ Done(p)
  /\ UNCHANGED <<export, main, accepted, latest, known, strays>>

RollbackFails(p) ==
  /\ job[p].at \in {"restore", "recheckout"}
  /\ broken' = TRUE
  /\ Done(p)
  /\ UNCHANGED <<export, main, worktree, accepted, latest, known, strays>>

-----------------------------------------------------------------------------
Init ==
  /\ classes = << >> /\ repos = {} /\ exporting = "no"
  /\ main = << >> /\ worktree = << >>
  /\ accepted = {} /\ latest = {}
  /\ known = {<< >>}
  /\ job = [p \in Appliers |-> Idle]
  /\ strays = {} /\ broken = FALSE

Next ==
  \/ Export \/ ExportStep \/ ExportFails \/ ExporterDies
  \/ \E p \in Appliers :
       \/ \E b \in Bundles, base \in known : ApplyPatch(p, b, base)
       \/ ReadHead(p) \/ ListHead(p) \/ ValidateAndBuild(p) \/ MoveBranch(p)
       \/ CheckOut(p) \/ uniqueAuditName(p) \/ writeAuditExcl(p) \/ Accept(p)
       \/ CommandFails(p) \/ ApplyFails(p)
       \/ RollbackRecord(p) \/ RestoreBranch(p) \/ RestoreTree(p) \/ RollbackFails(p)

Spec == Init /\ [][Next]_vars

-----------------------------------------------------------------------------
Quiescent == \A p \in Appliers : At(p, "idle")

(* Types, and an export that is over has made all of its repositories or    *)
(* none: a failed step takes back the earlier ones.                         *)
TypeOK ==
  /\ repos \subseteq Repositories \cup {"audit"}
  /\ exporting = "no" => repos \in {{}, Repositories \cup {"audit"}}
  /\ worktree \in Seq(Bundles) /\ main \in Seq(Bundles)
  /\ known \subseteq Seq(Bundles)
  /\ \A p \in Appliers : job[p].at \in
       {"idle", "checks", "head", "listed", "built", "moved", "checkedout", "named",
        "audited", "rollback", "restore", "recheckout"}

(* A commit that ApplyPatch has returned stays on the branch: neither a     *)
(* concurrent apply nor the rollback of one, which sets the branch without  *)
(* looking, takes it away.                                                  *)
AcceptedStays == ~ broken => \A k \in known : IsPrefix(k, main)

(* Between calls, and as long as every rollback succeeded, the branch, the  *)
(* working tree, the audit records and what was returned tell the same      *)
(* story: the head was returned, it is what is checked out, and the         *)
(* accepted records are those of the returned commits and no other.  Left   *)
(* out by name: strays, the records of commits that were rolled back whose  *)
(* removal failed and whose failure patch.go:199 ignores; they stay behind  *)
(* as records of commits that nobody was given.                             *)
RecordsAgree ==
  Quiescent /\ ~ broken =>
    /\ main \in known /\ worktree = main
    /\ {r.commit : r \in accepted \ strays} = known \ {<< >>}
    /\ latest \subseteq known

(* Every path changed since the export was the author's to patch, also in a *)
(* commit that is later rolled back: a bundle with one forbidden operation  *)
(* among allowed ones leaves no trace on the branch.                        *)
OnlyOwnPathsChange ==
  \A b \in Range(main) : \A op \in Payload[b].ops :
     WritableBy(classes, Payload[b].role, op.path)

(* The repositories and the records about them stay consistent through      *)
(* failed exports, failed applies and their rollbacks.                      *)
RepositoryIsSound == TypeOK /\ RecordsAgree
=============================================================================
