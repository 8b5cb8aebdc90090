----------------------------- MODULE ChangeSet -----------------------------
(***************************************************************************)
(* The change sets of ears-manager: change-set create, which allocates the *)
(* number and cuts the branch, change-set update and change-set renumber,  *)
(* in clones that share one canonical remote and never fetch by            *)
(* themselves.                                                             *)
(*                                                                         *)
(* A commit is an index into store.  A tree tells whether it holds         *)
(* project.yaml and, for each number, the manifest at its path.  A         *)
(* manifest keeps its base_commit, the command that created it and its     *)
(* text, which stands for every other field.  Any difference of the        *)
(* working tree from HEAD shows in project.yaml, whose store digest every  *)
(* write of a manifest replaces.  The specification files are valid: the   *)
(* validation rules are not part of this module.                           *)
(*                                                                         *)
(* The Source Control Manager, the host and the user are external here;    *)
(* the module SourceControl models the first in detail.                    *)
(***************************************************************************)
EXTENDS Naturals, Sequences, FiniteSets, FiniteSetsExt

CONSTANTS
  Procs,       \* ears-manager processes
  Slugs,       \* the slugs of the intents
  MaxNumber,   \* lastChangeSetNumber, 99999 in the code
  Setups       \* how a behaviour starts, what the others may do in it, and
               \* how many commands, acts of others and failures it has

(* In the world "review" a process, its clone, its change set and its slug *)
(* stand for each other.                                                   *)
ASSUME ChangeSetAssumption ==
  /\ MaxNumber \in Nat \ {0}
  /\ \A s \in Setups :
       /\ s.bounds \in [calls : Nat, moves : Nat, faults : Nat]
       /\ s.clone \in [Procs -> {"one", "two"}]
       /\ s.world = "review" =>
            /\ s.commit \in [Procs -> {2, 3}]
            /\ \A c \in {"one", "two"} : \E p \in Procs : s.clone[p] = c
            /\ \A p, q \in Procs : /\ (s.commit[p] = s.commit[q]) <=> (s.clone[p] = s.clone[q])
                                   /\ (s.slug[p] = s.slug[q]) <=> (s.clone[p] = s.clone[q])

VARIABLES
  store,    \* the commits
  local,    \* refs/heads of a clone: branch -> commit
  track,    \* refs/remotes/<canonical remote> of a clone
  head,     \* the branch that HEAD of a clone is on
  wt,       \* the working tree of a clone
  remote,   \* the branches of the canonical remote
  pulls,    \* branch -> state of its pull request
  proc,     \* the command that a process runs
  answer,   \* what its last command answered
  setup,
  left      \* calls, moves and faults that are left

vars == <<store, local, track, head, wt, remote, pulls, proc, answer, setup, left>>
gitVars == <<store, local, track, head>>
hostVars == <<remote, pulls>>

Clones == {"one", "two"}
Numbers == 1..MaxNumber
Branch(n, slug) == [n |-> n, slug |-> slug]
Main == Branch(0, "main")
InitBranch == Branch(1, "project-init")

None == [base |-> 0, by |-> "nobody", text |-> 0]
EmptyTree(config) == [config |-> config, sets |-> [n \in Numbers |-> None]]
With(tree, n, m) == [tree EXCEPT !.sets[n] = m]
Numbered(tree) == {n \in Numbers : tree.sets[n] # None}

Put(f, x, y) == [z \in DOMAIN f \cup {x} |-> IF z = x THEN y ELSE f[z]]
Without(f, x) == [z \in DOMAIN f \ {x} |-> f[z]]

----------------------------------------------------------------------------
(* Git *)

NewCommit(parents, tree) ==
  [tree |-> tree, anc |-> (UNION {store[k].anc : k \in parents}) \cup {Len(store) + 1}]

isAncestor(a, b) == a \in store[b].anc
TreeOf(k) == store[k].tree
HeadCommit(c) == local[c][head[c]]
HeadTree(c) == TreeOf(HeadCommit(c))
Dirty(c) == wt[c] # HeadTree(c)
Known(c) == (UNION {store[local[c][b]].anc : b \in DOMAIN local[c]})
            \cup (UNION {store[track[c][b]].anc : b \in DOMAIN track[c]})

(* git switch moves the files from one tree to the other.  It refuses to   *)
(* overwrite a changed file, which project.yaml is when anything changed.  *)
Refused(c, to) == Dirty(c) /\ TreeOf(to) # HeadTree(c)
Switched(c, to) == IF TreeOf(to) = HeadTree(c) THEN wt[c] ELSE TreeOf(to)

(* A three-way merge, path by path.  Two best common ancestors are merged  *)
(* first, as git does.                                                     *)
Picked(base, ours, theirs) ==
  [config |-> ours.config \/ theirs.config,
   sets |-> [n \in Numbers |-> IF ours.sets[n] = base.sets[n] THEN theirs.sets[n] ELSE ours.sets[n]]]
Best(a, b) ==
  LET common == store[a].anc \cap store[b].anc
  IN {k \in common : \A d \in common : k \in store[d].anc => d = k}
MergeBase(a, b) ==
  LET best == Best(a, b)
      first == CHOOSE k \in best : TRUE
      other == CHOOSE k \in best : k # first
  IN IF Cardinality(best) = 1 THEN TreeOf(first)
     ELSE Picked(TreeOf(CHOOSE k \in Best(first, other) : TRUE), TreeOf(first), TreeOf(other))
Conflicts(a, b) ==
  LET base == MergeBase(a, b)
  IN {n \in Numbers : /\ TreeOf(a).sets[n] # base.sets[n]
                      /\ TreeOf(b).sets[n] # base.sets[n]
                      /\ TreeOf(a).sets[n] # TreeOf(b).sets[n]}
Merged(a, b) == Picked(MergeBase(a, b), TreeOf(a), TreeOf(b))

----------------------------------------------------------------------------
(* What a checkout knows of the default branch and of the numbers *)

(* Mutation: the remote-tracking branch is not looked at. *)
LocalDefaultOnly(c) == {local[c][Main]}

(* The local default branch, and its remote-tracking branch. *)
defaultBranchRefs(c) ==
  {local[c][b] : b \in {Main} \cap DOMAIN local[c]} \cup {track[c][b] : b \in {Main} \cap DOMAIN track[c]}

changeSetApprovedAt(c, n) == \E k \in defaultBranchRefs(c) : TreeOf(k).sets[n] # None
commitOnDefaultBranch(c, k) == \E d \in defaultBranchRefs(c) : isAncestor(k, d)
defaultBranchHead(c) == local[c][Main]

changeSetNumbers(c) ==
  Numbered(wt[c])
  \cup (UNION {Numbered(TreeOf(k)) : k \in defaultBranchRefs(c)})
  \cup {b.n : b \in (DOMAIN local[c] \cup DOMAIN track[c]) \ {Main}}
highestChangeSetNumber(c) == Max(changeSetNumbers(c) \cup {0})

(* The base rules that check applies to a proposed change set. *)
proposedBaseFreshness(c, n) ==
  LET base == wt[c].sets[n].base
      target == defaultBranchHead(c)
  IN CASE ~isAncestor(base, target)          -> "BASE_NOT_ON_DEFAULT"
       [] isAncestor(base, target) /\ ~isAncestor(target, HeadCommit(c)) -> "DEFAULT_MOVED"
       [] isAncestor(target, HeadCommit(c)) /\ base # target -> "BASE_COMMIT_STALE"
       [] OTHER -> "OK"

----------------------------------------------------------------------------
(* A command of a process *)

Idle == [pc |-> "idle", op |-> "none", n |-> 0, name |-> Main, base |-> 0, original |-> Main,
         cut |-> FALSE, made |-> FALSE, seen |-> 0, files |-> EmptyTree(FALSE),
         new |-> EmptyTree(FALSE), code |-> "OK"]
NoAnswer == [op |-> "none", code |-> "none", mutation |-> "none"]

cloneOf(p) == setup.clone[p]

Begin(p) ==
  /\ proc[p].pc = "idle"
  /\ left.calls > 0
  /\ left' = [left EXCEPT !.calls = @ - 1]

Goto(p, next) == proc' = [proc EXCEPT ![p] = next] /\ answer' = [answer EXCEPT ![p] = NoAnswer]
Answer(p, op, code, mutation) ==
  /\ proc' = [proc EXCEPT ![p] = Idle]
  /\ answer' = [answer EXCEPT ![p] = [op |-> op, code |-> code, mutation |-> mutation]]

(* What loadState saw, for the transaction to compare. *)
Seeing(next, c) == [next EXCEPT !.seen = HeadCommit(c), !.files = wt[c]]

Fail == left.faults > 0 /\ left' = [left EXCEPT !.faults = @ - 1]

----------------------------------------------------------------------------
(* change-set create *)

onInitBranch(c) == head[c] = InitBranch /\ Numbered(wt[c]) = {}

planRefusal(c) ==
  CASE ~wt[c].config -> "project.not_initialized"
    [] wt[c].config /\ Main \notin DOMAIN local[c] -> "project.default_branch_unresolved"
    [] wt[c].config /\ onInitBranch(c) ->
         IF isAncestor(local[c][Main], HeadCommit(c)) THEN "OK" ELSE "change_set.base_mismatch"
    [] OTHER ->
         CASE ~TreeOf(local[c][Main]).config -> "change_set.unexpected_branch"
           [] TreeOf(local[c][Main]).config /\ Dirty(c) -> "change_set.uncommitted_changes"
           [] TreeOf(local[c][Main]).config /\ ~Dirty(c) /\ highestChangeSetNumber(c) >= MaxNumber
                -> "change_set.sequence_exhausted"
           [] OTHER -> "OK"

NewManifest(p, base) == [base |-> base, by |-> p, text |-> 1]

planChangeSetBranch(p, slug) ==
  LET c == cloneOf(p)
      base == local[c][Main]
      n == IF onInitBranch(c) THEN 1 ELSE highestChangeSetNumber(c) + 1
      plan == [Idle EXCEPT !.op = "create", !.n = n, !.base = base, !.original = head[c]]
  IN /\ Begin(p)
     /\ CASE planRefusal(c) # "OK" -> Answer(p, "create", planRefusal(c), "none")
          [] planRefusal(c) = "OK" /\ onInitBranch(c) ->
               Goto(p, Seeing([plan EXCEPT !.pc = "write", !.name = InitBranch,
                                           !.new = With(wt[c], n, NewManifest(p, base))], c))
          [] OTHER -> Goto(p, [plan EXCEPT !.pc = "cut", !.name = Branch(n, slug), !.cut = TRUE])
     /\ UNCHANGED <<wt, setup>> /\ UNCHANGED gitVars /\ UNCHANGED hostVars

(* git switch --create: it fails before it changes anything, it works, or  *)
(* it reports a failure after the branch is checked out.                   *)
cutChangeSetBranch(p) ==
  LET c == cloneOf(p)
      r == proc[p]
      Create == /\ local' = [local EXCEPT ![c] = Put(@, r.name, r.base)]
                /\ head' = [head EXCEPT ![c] = r.name]
                /\ wt' = [wt EXCEPT ![c] = Switched(c, r.base)]
  IN /\ r.pc = "cut"
     /\ \/ /\ r.name \in DOMAIN local[c] \cup DOMAIN track[c]
           /\ Answer(p, "create", "change_set.branch_exists", "none")
           /\ UNCHANGED <<local, head, wt, left>>
        \/ /\ r.name \notin DOMAIN local[c] \cup DOMAIN track[c]
           /\ \/ /\ Refused(c, r.base)
                 /\ Goto(p, [r EXCEPT !.pc = "restore", !.code = "change_set.uncommitted_changes"])
                 /\ UNCHANGED <<local, head, wt, left>>
              \/ /\ ~Refused(c, r.base)
                 /\ Goto(p, [r EXCEPT !.pc = "reload", !.made = TRUE])
                 /\ Create
                 /\ UNCHANGED left
              \/ /\ Fail
                 /\ \E made \in {FALSE, ~Refused(c, r.base)} :
                      /\ Goto(p, [r EXCEPT !.pc = "restore", !.made = made, !.code = "git.write_failed"])
                      /\ IF made THEN Create ELSE UNCHANGED <<local, head, wt>>
     /\ UNCHANGED <<store, track, setup>> /\ UNCHANGED hostVars

(* The project as it is on the new branch. *)
reload(p) ==
  LET c == cloneOf(p)
      r == proc[p]
      code == CASE ~wt[c].config -> "project.not_initialized"
                [] wt[c].config /\ HeadCommit(c) # r.base -> "change_set.base_mismatch"
                [] wt[c].config /\ HeadCommit(c) = r.base /\ wt[c].sets[r.n] # None
                     -> "change_set.concurrent_update"
                [] OTHER -> "OK"
  IN /\ r.pc = "reload"
     /\ Goto(p, IF code # "OK" THEN [r EXCEPT !.pc = "restore", !.code = code]
                ELSE Seeing([r EXCEPT !.pc = "write", !.new = With(wt[c], r.n, NewManifest(p, r.base))], c))
     /\ UNCHANGED <<wt, setup, left>> /\ UNCHANGED gitVars /\ UNCHANGED hostVars

(* What a failed create does after the cut: the original branch is checked *)
(* out, then the new one is deleted if it is still at the base.  A switch  *)
(* that git refuses or that fails leaves the new branch checked out.       *)
Restored(c, r, back, refs) == back /\ r.name \notin DOMAIN refs

(* Mutation: the new branch is deleted wherever it is. *)
DeletesAnyway(r, refs) == r.name \in DOMAIN refs

StillAtBase(r, refs) == r.name \in DOMAIN refs /\ refs[r.name] = r.base

restoreOriginalBranch(p) ==
  LET c == cloneOf(p)
      r == proc[p]
      onNew == head[c] = r.name
      can == r.original \in DOMAIN local[c] /\ ~Refused(c, local[c][r.original])
  IN /\ r.pc = "restore"
     /\ \E switches \in {onNew /\ can, FALSE} :
          LET back == switches \/ head[c] = r.original
              refs == IF back /\ StillAtBase(r, local[c]) THEN Without(local[c], r.name) ELSE local[c]
          IN /\ IF switches = (onNew /\ can) THEN UNCHANGED left ELSE Fail
             /\ head' = IF switches THEN [head EXCEPT ![c] = r.original] ELSE head
             /\ wt' = IF switches THEN [wt EXCEPT ![c] = Switched(c, local[c][r.original])] ELSE wt
             /\ local' = [local EXCEPT ![c] = refs]
             /\ IF Restored(c, r, back, refs) THEN Answer(p, "create", r.code, "none")
                ELSE Answer(p, "create", "git.write_unknown", "unknown")
     /\ UNCHANGED <<store, track, setup>> /\ UNCHANGED hostVars

----------------------------------------------------------------------------
(* change-set update and change-set renumber *)

proposedRefusal(c, n, allowBaseMismatch) ==
  CASE wt[c].sets[n] = None -> "change_set.not_proposed"
    [] wt[c].sets[n] # None /\ changeSetApprovedAt(c, n) -> "change_set.not_proposed"
    [] wt[c].sets[n] # None /\ ~changeSetApprovedAt(c, n) /\ wt[c].sets[n].base \notin Known(c)
         -> "change_set.invalid_base"
    [] OTHER -> IF allowBaseMismatch \/ isAncestor(wt[c].sets[n].base, HeadCommit(c)) THEN "OK"
                ELSE "change_set.base_mismatch"

(* Mutation: the base need not be an ancestor of the branch. *)
AnyCommit(c, k) == TRUE

(* update --base-commit k *)
descendsFrom(c, k) == isAncestor(k, HeadCommit(c))

baseRefusal(c, n, k) ==
  CASE commitOnDefaultBranch(c, k) /\ TreeOf(k).sets[n] # None -> "change_set.id_collision"
    [] OTHER ->
         LET proposed == proposedRefusal(c, n, TRUE)
         IN CASE proposed # "OK" -> proposed
              [] proposed = "OK" /\ ~descendsFrom(c, k) -> "change_set.base_mismatch"
              [] proposed = "OK" /\ descendsFrom(c, k) /\ ~isAncestor(wt[c].sets[n].base, k)
                   -> "change_set.base_mismatch"
              [] OTHER -> "OK"

Submit(p, op, code, new) ==
  /\ Begin(p)
  /\ IF code # "OK" THEN Answer(p, op, code, "none")
     ELSE Goto(p, Seeing([Idle EXCEPT !.pc = "write", !.op = op, !.new = new], cloneOf(p)))
  /\ UNCHANGED <<wt, setup>> /\ UNCHANGED gitVars /\ UNCHANGED hostVars

UpdateBase(p, n, k) ==
  LET c == cloneOf(p)
  IN /\ wt[c].config /\ k \in Known(c)
     /\ Submit(p, "update", baseRefusal(c, n, k), [wt[c] EXCEPT !.sets[n].base = k])

UpdateText(p, n) ==
  LET c == cloneOf(p)
  IN /\ wt[c].config
     /\ Submit(p, "update", proposedRefusal(c, n, FALSE), [wt[c] EXCEPT !.sets[n].text = 2])

(* A manifest that the default branch holds with another content is taken  *)
(* for a collision, and may be renumbered.                                 *)
collides(c, n) ==
  LET theirs == TreeOf(defaultBranchHead(c)).sets[n]
  IN theirs # None /\ theirs # wt[c].sets[n]

renumberRefusal(c, n) ==
  CASE wt[c].sets[n] = None \/ ~changeSetApprovedAt(c, n) -> proposedRefusal(c, n, FALSE)
    [] OTHER ->
         CASE ~collides(c, n) -> "change_set.not_proposed"
           [] collides(c, n) /\ wt[c].sets[n].base \notin Known(c) -> "change_set.invalid_base"
           [] OTHER -> IF isAncestor(wt[c].sets[n].base, HeadCommit(c)) THEN "OK" ELSE "change_set.base_mismatch"

(* to is 0 for the next free number, otherwise the number of --to. *)
Renumber(p, n, to) ==
  LET c == cloneOf(p)
      new == IF to = 0 THEN highestChangeSetNumber(c) + 1 ELSE to
      code == CASE renumberRefusal(c, n) # "OK" -> renumberRefusal(c, n)
                [] renumberRefusal(c, n) = "OK" /\ new > MaxNumber -> "change_set.sequence_exhausted"
                [] renumberRefusal(c, n) = "OK" /\ new \in changeSetNumbers(c) -> "change_set.id_collision"
                [] OTHER -> "OK"
  IN /\ wt[c].config
     /\ Submit(p, "renumber", code,
               IF code = "OK" THEN With(With(wt[c], n, None), new, wt[c].sets[n]) ELSE wt[c])

----------------------------------------------------------------------------
(* The transaction that ends a command: it refuses a HEAD or files that    *)
(* are not what the command read, it writes, or it fails with the files    *)
(* rolled back or in an unknown state.                                     *)
applyStateTransaction(p) ==
  LET c == cloneOf(p)
      r == proc[p]
      Ends(code, mutation) ==
        IF r.cut /\ code # "OK" /\ mutation = "none"
        THEN Goto(p, [r EXCEPT !.pc = "restore", !.code = code])
        ELSE Answer(p, r.op, code, mutation)
  IN /\ r.pc = "write"
     /\ \/ /\ HeadCommit(c) # r.seen
           /\ Ends("change_set.base_mismatch", "none")
           /\ UNCHANGED <<wt, left>>
        \/ /\ HeadCommit(c) = r.seen
           /\ wt[c] # r.files
           /\ Ends("change_set.concurrent_update", "none")
           /\ UNCHANGED <<wt, left>>
        \/ /\ HeadCommit(c) = r.seen
           /\ wt[c] = r.files
           /\ \/ wt' = [wt EXCEPT ![c] = r.new] /\ Ends("OK", "applied") /\ UNCHANGED left
              \/ Fail /\ Ends("storage.write_failed", "none") /\ UNCHANGED wt
              \/ /\ Fail
                 /\ wt' \in {wt, [wt EXCEPT ![c] = r.new]}
                 /\ Ends("storage.write_unknown", "unknown")
     /\ UNCHANGED setup /\ UNCHANGED gitVars /\ UNCHANGED hostVars

----------------------------------------------------------------------------
(* The users, the Source Control Manager and the host *)

Move(m) == m \in setup.moves /\ left.moves > 0 /\ left' = [left EXCEPT !.moves = @ - 1]
CommandsUnchanged == UNCHANGED <<proc, answer, setup>>

(* git commit of everything, on a change-set branch. *)
CommitAll(c) ==
  /\ Move("commit")
  /\ head[c] # Main /\ Dirty(c)
  /\ store' = Append(store, NewCommit({HeadCommit(c)}, wt[c]))
  /\ local' = [local EXCEPT ![c][head[c]] = Len(store) + 1]
  /\ UNCHANGED <<track, head, wt>> /\ CommandsUnchanged /\ UNCHANGED hostVars

(* repo_state fetches, and fast-forwards the local default branch where it *)
(* can; refresh and publish only fetch.                                    *)
Fetch(c, forward) ==
  /\ Move("fetch")
  /\ track' = [track EXCEPT ![c] = remote]
  /\ IF forward /\ isAncestor(local[c][Main], remote[Main])
               /\ (head[c] = Main => ~Refused(c, remote[Main]))
     THEN /\ local' = [local EXCEPT ![c][Main] = remote[Main]]
          /\ wt' = IF head[c] = Main THEN [wt EXCEPT ![c] = Switched(c, remote[Main])] ELSE wt
     ELSE UNCHANGED <<local, wt>>
  /\ UNCHANGED <<store, head>> /\ CommandsUnchanged /\ UNCHANGED hostVars

(* refresh, or a merge by hand that keeps the branch's side of a conflict. *)
MergeDefault(c) ==
  LET ours == HeadCommit(c)
      theirs == track[c][Main]
  IN /\ head[c] # Main /\ ~Dirty(c) /\ ~isAncestor(theirs, ours)
     /\ IF Conflicts(ours, theirs) = {} THEN Move("merge") ELSE Move("keep ours")
     /\ store' = Append(store, NewCommit({ours, theirs}, Merged(ours, theirs)))
     /\ local' = [local EXCEPT ![c][head[c]] = Len(store) + 1]
     /\ wt' = [wt EXCEPT ![c] = Merged(ours, theirs)]
     /\ UNCHANGED <<track, head>> /\ CommandsUnchanged /\ UNCHANGED hostVars

Switch(c, b) ==
  /\ Move("switch")
  /\ b \in DOMAIN local[c] \ {head[c]} /\ ~Dirty(c)
  /\ head' = [head EXCEPT ![c] = b]
  /\ wt' = [wt EXCEPT ![c] = Switched(c, local[c][b])]
  /\ UNCHANGED <<store, local, track>> /\ CommandsUnchanged /\ UNCHANGED hostVars

(* git branch -m: the branch takes the number of a renumbered change set,  *)
(* and the pull request of the old name is closed.                         *)
RenameBranch(c, n) ==
  LET old == head[c]
      new == Branch(n, old.slug)
  IN /\ Move("rename")
     /\ old # Main /\ new \notin DOMAIN local[c]
     /\ wt[c].sets[n] # None /\ ~changeSetApprovedAt(c, n)
     /\ local' = [local EXCEPT ![c] = Put(Without(@, old), new, HeadCommit(c))]
     /\ head' = [head EXCEPT ![c] = new]
     /\ pulls' = [b \in DOMAIN pulls |-> IF b = old /\ pulls[b] = "open" THEN "closed" ELSE pulls[b]]
     /\ UNCHANGED <<store, track, wt, remote>> /\ CommandsUnchanged

(* The base rules of publish, for the change set that the branch names. *)
publishBase(c, default) ==
  LET base == wt[c].sets[head[c].n].base
  IN CASE ~isAncestor(base, default)         -> "BASE_NOT_ON_DEFAULT"
       [] isAncestor(base, default) /\ ~isAncestor(default, HeadCommit(c)) -> "DEFAULT_MOVED"
       [] isAncestor(default, HeadCommit(c)) /\ base # default -> "BASE_COMMIT_STALE"
       [] OTHER -> "OK"

(* publish that works; one that is refused has only fetched. *)
Publish(c) ==
  LET b == head[c]
  IN /\ Move("publish")
     /\ b.n \in Numbers /\ wt[c].sets[b.n] # None /\ ~Dirty(c)
     /\ b \in DOMAIN pulls => pulls[b] = "open"
     /\ publishBase(c, remote[Main]) = "OK"
     /\ b \in DOMAIN remote => isAncestor(remote[b], HeadCommit(c))
     /\ remote' = Put(remote, b, HeadCommit(c))
     /\ track' = [track EXCEPT ![c] = remote']
     /\ pulls' = Put(pulls, b, "open")
     /\ UNCHANGED <<store, local, head, wt>> /\ CommandsUnchanged

(* A reviewer merges a pull request that has no conflict: the approval. *)
Land(b) ==
  LET ours == remote[Main]
      theirs == remote[b]
  IN /\ Move("land")
     /\ b \in DOMAIN pulls /\ pulls[b] = "open"
     /\ ~isAncestor(theirs, ours) /\ Conflicts(ours, theirs) = {}
     /\ store' = Append(store, NewCommit({ours, theirs}, Merged(ours, theirs)))
     /\ remote' = [remote EXCEPT ![Main] = Len(store) + 1]
     /\ pulls' = [pulls EXCEPT ![b] = "merged"]
     /\ UNCHANGED <<local, track, head, wt>> /\ CommandsUnchanged

----------------------------------------------------------------------------
(* The worlds in which a behaviour starts.  "project": every clone is on   *)
(* the default branch.  "init": branch_init cut the branch of CS-00001 and *)
(* project init wrote project.yaml, not committed yet.  "review": p and q  *)
(* created a change set in a clone each, before either fetched the other's *)
(* branch, and published it, so that both have the number 1.               *)
ReviewBranch == [p \in Procs |-> Branch(1, setup.slug[p])]
ReviewCommit(p) == [tree |-> With(EmptyTree(TRUE), 1, NewManifest(p, 1)), anc |-> {1, setup.commit[p]}]
Published == [b \in {Main} \cup {ReviewBranch[p] : p \in Procs} |->
                IF b = Main THEN 1 ELSE setup.commit[CHOOSE p \in Procs : ReviewBranch[p] = b]]

StartProject ==
  /\ setup.world \in {"project", "init"}
  /\ store = <<[tree |-> EmptyTree(setup.world = "project"), anc |-> {1}]>>
  /\ remote = [b \in {Main} |-> 1]
  /\ pulls = [b \in {} |-> "open"]
  /\ track = [c \in Clones |-> remote]
  /\ local = [c \in Clones |-> IF setup.world = "init" THEN Put(remote, InitBranch, 1) ELSE remote]
  /\ head = [c \in Clones |-> IF setup.world = "init" THEN InitBranch ELSE Main]
  /\ wt = [c \in Clones |-> EmptyTree(TRUE)]

StartReview ==
  /\ setup.world = "review"
  /\ store = [k \in 1..3 |-> IF k = 1 THEN [tree |-> EmptyTree(TRUE), anc |-> {1}]
                             ELSE ReviewCommit(CHOOSE p \in Procs : setup.commit[p] = k)]
  /\ remote = Published
  /\ pulls = [b \in DOMAIN remote \ {Main} |-> "open"]
  /\ head = [c \in Clones |-> ReviewBranch[CHOOSE p \in Procs : cloneOf(p) = c]]
  /\ local = [c \in Clones |-> [b \in {Main, head[c]} |-> Published[b]]]
  /\ track = local
  /\ wt = [c \in Clones |-> HeadTree(c)]

Init ==
  /\ setup \in Setups
  /\ StartProject \/ StartReview
  /\ proc = [p \in Procs |-> Idle]
  /\ answer = [p \in Procs |-> NoAnswer]
  /\ left = setup.bounds

Create(p) == \E slug \in Slugs : planChangeSetBranch(p, slug)
Update(p) == \E n \in Numbers : UpdateText(p, n) \/ \E k \in 1..Len(store) : UpdateBase(p, n, k)
RenumberSome(p) == \E n \in Numbers, to \in 0..MaxNumber : Renumber(p, n, to)
Fetches(c) == \E forward \in BOOLEAN : Fetch(c, forward)
Switches(c) == \E b \in DOMAIN local[c] : Switch(c, b)
Renames(c) == \E n \in Numbers : RenameBranch(c, n)
Lands == \E b \in DOMAIN pulls : Land(b)

Next ==
  \/ \E p \in Procs :
       \/ Create(p) \/ cutChangeSetBranch(p) \/ reload(p) \/ restoreOriginalBranch(p)
       \/ Update(p) \/ RenumberSome(p) \/ applyStateTransaction(p)
  \/ \E c \in Clones :
       CommitAll(c) \/ Fetches(c) \/ MergeDefault(c) \/ Switches(c) \/ Renames(c) \/ Publish(c)
  \/ Lands

Spec == Init /\ [][Next]_vars

----------------------------------------------------------------------------
(* Properties *)

Manifests == [base : 1..Len(store), by : Procs, text : {1, 2}] \cup {None}
Trees == [config : BOOLEAN, sets : [Numbers -> Manifests]]

(* Every ref names a commit that exists, HEAD of every clone is on a       *)
(* branch that exists, which no rollback of a create removes under it, and *)
(* trees hold manifests of created change sets only.                       *)
TypeOK ==
  /\ \A k \in 1..Len(store) : store[k].tree \in Trees /\ k \in store[k].anc /\ store[k].anc \subseteq 1..k
  /\ \A c \in Clones :
       /\ \A b \in DOMAIN local[c] : local[c][b] \in 1..Len(store)
       /\ \A b \in DOMAIN track[c] : track[c][b] \in 1..Len(store)
       /\ head[c] \in DOMAIN local[c]
       /\ wt[c] \in Trees
  /\ \A b \in DOMAIN remote : remote[b] \in 1..Len(store)
  /\ DOMAIN pulls \subseteq DOMAIN remote
  /\ left \in [calls : 0..setup.bounds.calls, moves : 0..setup.bounds.moves, faults : 0..setup.bounds.faults]

(* One process of ears-manager works in each clone.  Two in one clone read *)
(* and write the same working tree without a lock, and the commands do not *)
(* promise then what is stated under this premise.                         *)
OwnClones == \A p, q \in Procs : cloneOf(p) = cloneOf(q) => p = q

(* Two clones may take the same number, a clone may be behind, and a user  *)
(* may keep the wrong side of a conflict: when the branch of a change set  *)
(* lands and its number is approved already, the approved manifest stays   *)
(* as it is, because update refuses to refresh the base of the second one  *)
(* and publish refuses it until it has another number and another branch.  *)
NumberApprovedOnce ==
  [][\A b \in DOMAIN pulls :
       (/\ pulls[b] = "open" /\ pulls'[b] = "merged"
        /\ b.n \in Numbers /\ TreeOf(remote[Main]).sets[b.n] # None)
       => store'[remote'[Main]].tree.sets[b.n] = TreeOf(remote[Main]).sets[b.n]]_vars

(* A create that answers mutation none after it had cut its branch has     *)
(* left the clone on the original branch and without the new branch,       *)
(* whatever a user or another command did meanwhile; and where no other    *)
(* process works in the clone, nothing is left in the working tree that    *)
(* the original branch does not hold.                                      *)
FailedCreateLeavesNothing ==
  [][\A p \in Procs :
       LET r == proc[p]
           c == cloneOf(p)
       IN (/\ answer'[p] # answer[p] /\ r.made
           /\ answer'[p].code # "OK" /\ answer'[p].mutation = "none")
          => /\ head'[c] = r.original /\ r.name \notin DOMAIN local'[c]
             /\ OwnClones => ~Dirty(c)']_vars

(* The rollback of a create deletes a branch: no commit that a clone could *)
(* reach from its branches is ever lost to it, also when the user          *)
(* committed on the new branch before the command failed.                  *)
CommitsAreKept ==
  [][\A c \in Clones : Known(c) \subseteq Known(c)']_vars

(* The base_commit of a change set is in the history of every commit that  *)
(* holds its manifest: the command never records a base that the branch    *)
(* does not descend from, whatever the users switch, merge and rename      *)
(* between its steps.  (A second process in the clone may write files      *)
(* after create found none changed, and git switch carries them along.)    *)
BaseIsInHistory ==
  OwnClones =>
    \A k \in 1..Len(store), n \in Numbers :
      TreeOf(k).sets[n] # None => isAncestor(TreeOf(k).sets[n].base, k)

(* For a proposed change set on its own branch, with the local default     *)
(* branch current, check reports exactly the base conditions that publish  *)
(* refuses for.                                                            *)
CheckMatchesPublish ==
  \A c \in Clones :
    (/\ head[c].n \in Numbers /\ wt[c].sets[head[c].n] # None
     /\ ~changeSetApprovedAt(c, head[c].n)
     /\ local[c][Main] = remote[Main])
    => proposedBaseFreshness(c, head[c].n) = publishBase(c, remote[Main])

(* The clones and the remote stay well formed, and the base that a         *)
(* manifest records can be relied upon: it is in the branch's history, and *)
(* check and publish judge it alike.                                       *)
BaseIsSound == TypeOK /\ BaseIsInHistory /\ CheckMatchesPublish

(* A create that fails takes back what it did, and nothing else.           *)
FailedCreateIsUndone == FailedCreateLeavesNothing /\ CommitsAreKept

(* An approved manifest stays on the canonical default branch: "An         *)
(* approved manifest on the default branch is immutable".  renumber takes  *)
(* a manifest for a collision whenever it differs from the approved one,   *)
(* and deletes the file at its path, also on a branch that has merged the  *)
(* approved manifest in; the next approval then removes it.                *)
ApprovedIsKept ==
  [][\A n \in Numbered(TreeOf(remote[Main])) : store'[remote'[Main]].tree.sets[n] # None]_vars
=============================================================================
