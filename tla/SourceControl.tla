---------------------------- MODULE SourceControl ----------------------------
(***************************************************************************)
(* The Source Control Manager of one clone: repo_state, branch_init,       *)
(* branch_resume, commit, publish and refresh of the drafting-table face,  *)
(* and approved_merge of the approved-state face.                          *)
(*                                                                         *)
(* The server runs one call at a time, but a call is a sequence of git,    *)
(* gh and ears-manager commands.  Between any two of them the user, the    *)
(* session's own ears-manager, colleagues and reviewers may act, and any   *)
(* request to the remote or the host may fail or lose its answer.  Each    *)
(* action of a call is one such command, or the reads that precede the     *)
(* next command that somebody else could disturb.  In particular refresh   *)
(* runs git merge, the reads that tell how it ended and git merge --abort  *)
(* as commands of their own.                                               *)
(***************************************************************************)
EXTENDS GitClone

CONSTANTS
  Setups,     \* the clones and surroundings considered (see Init)
  MaxCalls,   \* calls of the server in one behaviour
  MaxMoves,   \* acts of the user, ears-manager, colleagues and reviewers
  MaxFaults   \* failures of the network, the host or a git command

VARIABLES
  store,      \* the commits, by number
  refs,       \* refs/heads: [branch, default]; 0 where a ref is absent
  track,      \* refs/remotes/<remote>
  remote,     \* the branches of the canonical remote
  head,       \* the branch that HEAD names: "branch" or "default"
  wt,         \* the working tree
  index,      \* the user's index; an unmerged path keeps its old entry here
  merging,    \* the commit that MERGE_HEAD names, 0 if there is none
  unmerged,   \* the paths with unmerged index entries
  pulls,      \* the host's pull requests of the change-set branch
  call,       \* the running call and its local variables
  report,     \* the result of the last call, and what that call changed
  approved,   \* the merge commits that approved_merge has answered
  setup,      \* fixed facts of the clone and its surroundings
  left        \* [calls, moves, faults] still allowed

cloneVars == <<refs, head, wt, index, merging, unmerged>>
hostVars == <<remote, pulls>>
vars == <<store, refs, track, remote, head, wt, index, merging, unmerged, pulls, call, report, approved, setup, left>>

(* The trees of the starting points: a project, a repository without one,  *)
(* a change set whose manifest is written, and one with its artifact put.  *)
Plain == Tree([kind |-> "file", blob |-> 1], 2, NoManifest, [own |-> FALSE, policy |-> FALSE], 1)
Bare == [Plain EXCEPT !.cfg = 0]
Drafted == [Plain EXCEPT !.man = [base |-> 1, art |-> FALSE]]
Put == [Plain EXCEPT !.art.blob = 2, !.cfg = 3, !.man = [base |-> 1, art |-> TRUE], !.prj.own = TRUE]

NoText == [art |-> 0, man |-> NoManifest]
Idle ==
  [op |-> "none", pc |-> "idle", head |-> 0, local |-> 0, target |-> 0, show |-> NoManifest,
   here |-> FALSE, paths |-> {}, seen |-> Plain, pull |-> 0, old |-> NoText, text |-> NoText,
   pushed |-> FALSE, refused |-> FALSE, refs |-> {}, did |-> {}]

At(op, pc) == call.op = op /\ call.pc = pc
HEAD == refs[head]
HeadTree == store[HEAD].tree

(* What git status lists of the tracked files. *)
Dirty == TrackedChanges(HeadTree, index, wt) # {} \/ unmerged # {}
own(show) == {"man"} \cup (IF show.art THEN {"art"} ELSE {})

(* A call ends: its result, the refs the result names, and, as a ghost,    *)
(* what the call changed.                                                  *)
EndDoing(code, mutation, named, doing) ==
  /\ report' = [op |-> call.op, code |-> code, mutation |-> mutation, named |-> named,
                did |-> call.did \cup doing]
  /\ call' = Idle
End(code, mutation, named) == EndDoing(code, mutation, named, {})
Fail(code) == End(code, "none", {})
Goto(pc) == call' = [call EXCEPT !.pc = pc] /\ UNCHANGED report

Faulty == left.faults > 0 /\ left' = [left EXCEPT !.faults = @ - 1]
NoFault == UNCHANGED left
UnchangedButCall == UNCHANGED <<store, track, approved, setup>> /\ UNCHANGED cloneVars /\ UNCHANGED hostVars

----------------------------------------------------------------------------
(* Check 5 and the first steps of each operation *)

Begin(op) ==
  /\ call.op = "none"
  /\ left.calls > 0
  /\ left' = [left EXCEPT !.calls = @ - 1]

Refuse(op, code) ==
  /\ report' = [op |-> op, code |-> code, mutation |-> "none", named |-> {}, did |-> {}]
  /\ UNCHANGED call
Enter(op, pc, c) == call' = [c EXCEPT !.op = op, !.pc = pc] /\ UNCHANGED report

(* ears-manager answers a read of the change set where a project and its   *)
(* manifest are; anything else is a failed tool or a change set not found. *)
ShowChangeSet(tree) == InTree(tree, "man") /\ tree.man.base # Marks
SpecToolAnswers == wt.cfg \notin {0, Marks} /\ ShowChangeSet(wt)

(* Check 4 of every call: the project file. *)
projectRefusal ==
  CASE wt.cfg = 0     -> "PROJECT_NOT_FOUND"
    [] wt.cfg = Marks -> "PROJECT_UNREADABLE"
    [] OTHER          -> "OK"

(* resolveChangeSetBranch: the change set of the current branch, read from *)
(* the working tree.                                                       *)
resolveChangeSetBranch ==
  CASE projectRefusal # "OK"                 -> projectRefusal
    [] head # "branch" \/ ~ShowChangeSet(wt) -> "NOT_A_CHANGE_SET_BRANCH"
    [] OTHER                                 -> "OK"

canonicalRemote ==
  CASE setup.conf = "none"       -> "REMOTE_NOT_FOUND"
    [] setup.conf = "credential" -> "REMOTE_CREDENTIAL_IN_URL"
    [] setup.conf = "redirected" -> "REMOTE_PUSH_REDIRECTED"
    [] OTHER                     -> "OK"

(* checkInitRemote and the operations in progress that commit refuses. *)
commitRefusal ==
  CASE resolveChangeSetBranch # "OK"    -> resolveChangeSetBranch
    [] setup.init /\ ~setup.upstream    -> "INIT_REMOTE_MISMATCH"
    [] merging # 0                      -> "UNCOMMITTED_CHANGES"
    [] OTHER                            -> "OK"

StartCommit ==
  /\ Begin("commit")
  /\ IF commitRefusal # "OK"
     THEN Refuse("commit", commitRefusal)
     ELSE Enter("commit", "derive", [Idle EXCEPT !.head = HEAD, !.show = wt.man])
  /\ UnchangedButCall

StartPublish ==
  /\ Begin("publish")
  /\ IF resolveChangeSetBranch # "OK"
     THEN Refuse("publish", resolveChangeSetBranch)
     ELSE Enter("publish", "compare", [Idle EXCEPT !.show = wt.man])
  /\ UnchangedButCall

StartRefresh ==
  /\ Begin("refresh")
  /\ IF resolveChangeSetBranch # "OK"
     THEN Refuse("refresh", resolveChangeSetBranch)
     ELSE Enter("refresh", "clean", [Idle EXCEPT !.show = wt.man])
  /\ UnchangedButCall

(* A project that is not initialized is a complete answer. *)
StartRepoState ==
  /\ Begin("repo_state")
  /\ CASE wt.cfg = 0 -> Refuse("repo_state", "OK")
       [] wt.cfg = Marks -> Refuse("repo_state", projectRefusal)
       [] wt.cfg \notin {0, Marks} /\ canonicalRemote # "OK" -> Refuse("repo_state", canonicalRemote)
       [] OTHER -> Enter("repo_state", "fetch", Idle)
  /\ UnchangedButCall

initRefusal ==
  CASE wt.cfg = Marks                                    -> projectRefusal
    [] wt.cfg # 0 \/ InTree(wt, "man")                   -> "ALREADY_INITIALIZED"
    [] Dirty                                             -> "UNCOMMITTED_CHANGES"
    [] ~setup.upstream                                   -> "DEFAULT_NOT_FOUND"
    [] OTHER                                             -> canonicalRemote

StartBranchInit ==
  /\ Begin("branch_init")
  /\ IF initRefusal # "OK"
     THEN Refuse("branch_init", initRefusal)
     ELSE Enter("branch_init", "fetch", [Idle EXCEPT !.local = refs.default])
  /\ UnchangedButCall

(* The one local branch of the change set, the manifest at its tip, and    *)
(* the tracked changes that a switch must not carry over.                  *)
resumeRefusal ==
  CASE projectRefusal # "OK"                   -> projectRefusal
    [] refs.branch = 0                         -> "CHANGE_SET_NOT_FOUND"
    [] refs.branch # 0 /\ ~ShowChangeSet(store[refs.branch].tree) -> "CHANGE_SET_NOT_FOUND"
    [] head # "branch" /\ Dirty           -> "UNCOMMITTED_CHANGES"
    [] OTHER                                   -> "OK"

StartBranchResume ==
  /\ Begin("branch_resume")
  /\ IF resumeRefusal # "OK" \/ head = "branch"
     THEN Refuse("branch_resume", resumeRefusal)
     ELSE Enter("branch_resume", "switch", Idle)
  /\ UnchangedButCall

StartApprovedMerge ==
  /\ Begin("approved_merge")
  /\ CASE projectRefusal # "OK" -> Refuse("approved_merge", projectRefusal)
       [] projectRefusal = "OK" /\ canonicalRemote # "OK" -> Refuse("approved_merge", canonicalRemote)
       [] OTHER -> Enter("approved_merge", "fetch", Idle)
  /\ UnchangedButCall

----------------------------------------------------------------------------
(* fetch moves the tracking refs, all of them, and is not a mutation.  A   *)
(* fetch that fails ends every call but repo_state, which reports it and   *)
(* reads the tracking refs as they are.  The default head is read next.    *)

AfterFetch ==
  [publish |-> "find", refresh |-> "heads", repo_state |-> "look", branch_init |-> "decide",
   approved_merge |-> "log"]

Fetch ==
  /\ call.pc = "fetch"
  /\ \/ /\ NoFault
        /\ track' = remote
        /\ call' = [call EXCEPT !.pc = AfterFetch[call.op], !.target = remote.default]
        /\ UNCHANGED report
     \/ /\ Faulty
        /\ UNCHANGED track
        /\ IF call.op = "repo_state"
           THEN /\ call' = [call EXCEPT !.pc = "look", !.target = track.default]
                /\ UNCHANGED report
           ELSE \E code \in {"REMOTE_UNAVAILABLE", "CREDENTIAL_UNAVAILABLE"} : Fail(code)
  /\ UNCHANGED <<store, approved, setup>> /\ UNCHANGED cloneVars /\ UNCHANGED hostVars

----------------------------------------------------------------------------
(* commit *)

(* Step 2: the file set and its changed paths, or the refusal of a path    *)
(* that the SCM never stages.                                              *)
deriveRefusal(parent) ==
  LET mine == own(call.show)
      changed == Changed(parent, wt, FileSet(setup.init, parent, wt, mine, TRUE))
  IN CASE \E p \in mine : ~Regular(wt, p) -> "PATH_NOT_STAGEABLE"
       [] /\ ~setup.init
          /\ ownEdit(parent, wt, mine)
          /\ policyEdit(parent, wt, mine) -> "UNCOMMITTED_CHANGES"
       [] setup.protected /\ "art" \in changed -> "PATH_NOT_STAGEABLE"
       [] changed = {} -> "NOTHING_TO_COMMIT"
       [] OTHER -> "OK"

deriveFileSet ==
  LET parent == store[call.head].tree
      set == FileSet(setup.init, parent, wt, own(call.show), TRUE)
  IN /\ At("commit", "derive")
     /\ IF deriveRefusal(parent) # "OK"
        THEN Fail(deriveRefusal(parent))
        ELSE /\ call' = [call EXCEPT !.pc = "record", !.paths = Changed(parent, wt, set)]
             /\ UNCHANGED report
     /\ NoFault
     /\ UnchangedButCall

(* Step 3: record the content, then check it. *)
RecordContent ==
  /\ At("commit", "record")
  /\ IF \E p \in call.paths : ~Regular(wt, p)
     THEN Fail("PATH_NOT_STAGEABLE")
     ELSE /\ call' = [call EXCEPT !.pc = "check", !.seen = wt]
          /\ UNCHANGED report
  /\ NoFault
  /\ UnchangedButCall

(* classifyDigests: the mismatch of an artifact of the file set refuses    *)
(* the commit, one outside it is a warning.  A base off the default branch *)
(* is a failed check; a stale base or assessment alone is a warning.       *)
digestRefusal ==
  CASE ~SpecToolAnswers                                       -> "SPEC_TOOL_FAILED"
    [] SpecToolAnswers /\ wt.cfg # Digest(wt.art) /\ "art" \in own(call.show) -> "SPEC_DIGEST_MISMATCH"
    [] SpecToolAnswers /\ ~IsAncestor(store, wt.man.base, track.default) -> "SPEC_CHECK_FAILED"
    [] OTHER                                                  -> "OK"

digestCheck ==
  /\ At("commit", "check")
  /\ CASE digestRefusal # "OK" -> Fail(digestRefusal)
       [] digestRefusal = "OK" /\ setup.unsafe -> Fail("UNSAFE_TEXT")
       [] OTHER -> Goto("stage")
  /\ NoFault
  /\ UnchangedButCall

(* Step 5: the private index starts as the parent's tree, and the staged   *)
(* entries must be regular files with the recorded content.                *)
StagedAsSeen(p) == Regular(wt, p) /\ wt[p] = call.seen[p]

stageContent ==
  LET parent == store[call.head].tree
  IN /\ At("commit", "stage")
     /\ IF \E p \in call.paths : ~InTree(wt, p) /\ ~InTree(parent, p)
        THEN Fail("GIT_FAILED")
        ELSE IF \A p \in call.paths : StagedAsSeen(p)
             THEN /\ call' = [call EXCEPT !.pc = "write", !.seen = wt]
                  /\ UNCHANGED report
             ELSE Fail("STAGED_CONTENT_CHANGED")
     /\ NoFault
     /\ UnchangedButCall

(* Mutation: the branch is moved without its old value. *)
MovedOrNot == TRUE

(* update-ref with the parent as the expected value; then the user's index *)
(* entries of the committed paths are reset to HEAD, which may fail.       *)
BranchUnmoved == refs.branch = call.head

writeCommit ==
  LET parent == store[call.head].tree
      tree == [p \in Paths |-> IF p \in call.paths THEN call.seen[p] ELSE parent[p]]
      new == Len(store) + 1
  IN /\ At("commit", "write")
     /\ IF BranchUnmoved
        THEN /\ store' = Append(store, Commit(store, <<call.head>>, tree, "commit"))
             /\ refs' = [refs EXCEPT !.branch = new]
             /\ \/ /\ NoFault
                   /\ index' = [p \in Paths |-> IF p \in call.paths
                                                THEN store'[refs'[head]].tree[p] ELSE index[p]]
                   /\ unmerged' = unmerged \ call.paths
                \/ Faulty /\ UNCHANGED <<index, unmerged>>
             /\ EndDoing("OK", "applied", {"branch"}, {"branch"})
        ELSE /\ Fail("GIT_FAILED")
             /\ NoFault
             /\ UNCHANGED <<store, refs, index, unmerged>>
     /\ UNCHANGED <<track, remote, head, wt, merging, pulls, approved, setup>>

----------------------------------------------------------------------------
(* publish *)

(* Step 2: the working tree must equal the commit that is pushed.  An      *)
(* unmerged path has no index entry, so it differs.                        *)
Listed ==
  LET mine == own(call.show)
  IN listed(setup.init, HeadTree, index, wt, mine) \cup (unmerged \cap FileSet(setup.init, HeadTree, wt, mine, FALSE))

compareWithHead ==
  /\ At("publish", "compare")
  /\ IF Listed # {}
     THEN Fail("UNCOMMITTED_CHANGES")
     ELSE IF canonicalRemote # "OK" THEN Fail(canonicalRemote) ELSE Goto("fetch")
  /\ NoFault
  /\ UnchangedButCall

(* Mutation: only open pull requests are looked for. *)
OpenOnly == {i \in DOMAIN pulls : pulls[i].state = "open"}

(* Find returns the pull requests of the branch in any state. *)
Find == DOMAIN pulls

findPullRequest ==
  /\ At("publish", "find")
  /\ \/ /\ Faulty
        /\ \E code \in {"HOST_UNAVAILABLE", "CREDENTIAL_UNAVAILABLE", "HOST_REQUEST_FAILED"} : Fail(code)
     \/ /\ NoFault
        /\ CASE Cardinality(Find) > 1 -> Fail("AMBIGUOUS_PULL_REQUEST")
             [] Find = {} -> Goto("base")
             [] Cardinality(Find) = 1 ->
                  LET i == CHOOSE j \in Find : TRUE
                  IN CASE pulls[i].state = "merged" -> Fail("PR_MERGED")
                       [] pulls[i].state = "closed" -> Fail("PR_CLOSED")
                       [] OTHER -> /\ call' = [call EXCEPT !.pc = "base", !.pull = i, !.old = pulls[i].text]
                                   /\ UNCHANGED report
  /\ UnchangedButCall

(* Step 5, with HEAD read now and the base that step 1 read. *)
baseRefusal ==
  LET base == call.show.base
  IN CASE IsAncestor(store, HEAD, call.target)  -> "NOTHING_TO_PUBLISH"
       [] ~IsAncestor(store, base, call.target) -> "BASE_NOT_ON_DEFAULT"
       [] ~IsAncestor(store, call.target, HEAD) -> "DEFAULT_MOVED"
       [] call.target # base                    -> "BASE_COMMIT_STALE"
       [] setup.unsafe                          -> "UNSAFE_TEXT"
       [] OTHER                                 -> "OK"

checkBase ==
  /\ At("publish", "base")
  /\ IF baseRefusal # "OK"
     THEN Fail(baseRefusal)
     ELSE call' = [call EXCEPT !.pc = "render", !.head = HEAD] /\ UNCHANGED report
  /\ NoFault
  /\ UnchangedButCall

(* The body: compare and impact read the working tree again. *)
renderBody ==
  /\ At("publish", "render")
  /\ IF ~SpecToolAnswers
     THEN Fail("SPEC_TOOL_FAILED")
     ELSE /\ call' = [call EXCEPT !.pc = "push", !.text = [art |-> wt.art.blob, man |-> call.show]]
          /\ UNCHANGED report
  /\ NoFault
  /\ UnchangedButCall

(* Mutation: a push whose answer is lost has changed nothing. *)
TransportChangedNothing(code) == "none"

(* The mutation state of a push that failed in transport. *)
pushTransportFailure(code) == IF code = "REMOTE_UNAVAILABLE" THEN "unknown" ELSE "none"

(* The remote may refuse the push, by a rule, a hook or for want of a      *)
(* credential; a connection that breaks, or a failure that git does not    *)
(* explain, may come after the remote updated the ref.                     *)
FailedPushes ==
  [code : {"PUSH_REJECTED_PROTECTED", "GIT_FAILED"}, mutation : {"none"}, applied : {FALSE}]
    \cup {[code |-> c, mutation |-> pushTransportFailure(c), applied |-> FALSE] :
            c \in {"CREDENTIAL_UNAVAILABLE", "REMOTE_UNAVAILABLE"}}
    \cup {[code |-> "REMOTE_UNAVAILABLE", mutation |-> pushTransportFailure("REMOTE_UNAVAILABLE"), applied |-> TRUE]}
    \cup [code : {"GIT_FAILED"}, mutation : {"unknown"}, applied : BOOLEAN]

(* The push names the ref, so it sends what the ref holds now. *)
push ==
  LET fastForward == remote.branch = 0 \/ IsAncestor(store, remote.branch, refs.branch)
      Sent == remote' = [remote EXCEPT !.branch = refs.branch]
              /\ track' = [track EXCEPT !.branch = refs.branch]
  IN /\ At("publish", "push")
     /\ \/ /\ remote.branch = refs.branch
           /\ NoFault
           /\ Goto("request")
           /\ UNCHANGED <<remote, track>>
        \/ /\ remote.branch # refs.branch /\ fastForward
           /\ NoFault
           /\ Sent
           /\ call' = [call EXCEPT !.pc = "request", !.pushed = TRUE, !.did = @ \cup {"remote"}]
           /\ UNCHANGED report
        \/ /\ ~fastForward
           /\ NoFault
           /\ Fail("PUSH_REJECTED_NON_FAST_FORWARD")
           /\ UNCHANGED <<remote, track>>
        \/ /\ Faulty
           /\ \E f \in FailedPushes :
                /\ f.applied => fastForward /\ remote.branch # refs.branch
                /\ remote' = IF f.applied THEN [remote EXCEPT !.branch = refs.branch] ELSE remote
                /\ EndDoing(f.code, f.mutation, {}, IF f.applied THEN {"remote"} ELSE {})
           /\ UNCHANGED track
     /\ UNCHANGED <<store, pulls, approved, setup>> /\ UNCHANGED cloneVars

(* gh creates or edits the pull request.  A failed request is open when gh *)
(* gave no answer or said that the host is unavailable, with or without    *)
(* its effect.  Any other failure is read as a refusal, though not all are *)
(* one: gh may have created the pull request and printed no URL, and a     *)
(* reset connection or an unexpected EOF is in no class of its own.  The   *)
(* ghost tells an effect whose answer was open from one that was misread.  *)
Requested ==
  IF call.pull = 0
  THEN Append(pulls, [state |-> "open", text |-> call.text, merge |-> 0])
  ELSE [pulls EXCEPT ![call.pull].text = call.text]

FailedRequests == [open : BOOLEAN, applied : BOOLEAN]
Effect(f) == IF f.applied THEN {IF f.open THEN "host" ELSE "misread"} ELSE {}

afterPush(open) ==
  CASE open                  -> "unknown"
    [] ~open /\ call.pushed  -> "partial"
    [] ~open /\ ~call.pushed -> "none"

requestPullRequest ==
  LET named == IF call.pushed THEN {"remote"} ELSE {}
  IN /\ At("publish", "request")
     /\ \/ /\ call.pull # 0 /\ call.old = call.text
           /\ NoFault
           /\ End("OK", IF call.pushed THEN "applied" ELSE "none", named)
           /\ UNCHANGED pulls
        \/ /\ ~(call.pull # 0 /\ call.old = call.text)
           /\ NoFault
           /\ pulls' = Requested
           /\ EndDoing("OK", "applied", named \cup {"host"}, {"host"})
        \/ /\ ~(call.pull # 0 /\ call.old = call.text)
           /\ Faulty
           /\ \E f \in FailedRequests :
                /\ pulls' = IF f.applied THEN Requested ELSE pulls
                /\ EndDoing("HOST_REQUEST_FAILED", afterPush(f.open), named, Effect(f))
     /\ UNCHANGED <<store, track, remote, approved, setup>> /\ UNCHANGED cloneVars

----------------------------------------------------------------------------
(* refresh *)

checkClean ==
  /\ At("refresh", "clean")
  /\ IF Dirty
     THEN Fail("UNCOMMITTED_CHANGES")
     ELSE IF canonicalRemote # "OK" THEN Fail(canonicalRemote) ELSE Goto("fetch")
  /\ NoFault
  /\ UnchangedButCall

readHeads ==
  /\ At("refresh", "heads")
  /\ CASE IsAncestor(store, call.target, HEAD) -> End("OK", "none", {})
       [] ~IsAncestor(store, call.target, HEAD) /\ setup.shadow -> Fail("GIT_FAILED")
       [] OTHER -> call' = [call EXCEPT !.pc = "merge", !.head = HEAD] /\ UNCHANGED report
  /\ NoFault
  /\ UnchangedButCall

(* git merges <remote>/<default> as it is now into HEAD as it is now.  It  *)
(* refuses while a merge is in progress and over a changed file, and a     *)
(* conflict leaves the merge in progress, the conflicting files marked.    *)
Theirs == track.default
JoinBase == store[MergeBase(store, HEAD, Theirs)].tree
Joined == MergeTree(JoinBase, HeadTree, store[Theirs].tree)
Clashing == Conflicts(JoinBase, HeadTree, store[Theirs].tree)

MergeOverwrites ==
  \/ index # HeadTree
  \/ Overwritten(HeadTree, Joined, index, wt) # {}
  \/ \E p \in Clashing : wt[p] # HeadTree[p]

JoinClean(by) ==
  /\ Clashing = {}
  /\ store' = Append(store, Commit(store, <<HEAD, Theirs>>, Joined, by))
  /\ refs' = [refs EXCEPT ![head] = Len(store) + 1]
  /\ wt' = Moved(HeadTree, Joined, wt)
  /\ index' = Joined
  /\ UNCHANGED <<merging, unmerged>>

JoinClash ==
  /\ Clashing # {}
  /\ wt' = [p \in Paths |-> IF p \in Clashing THEN Marked[p] ELSE Moved(HeadTree, Joined, wt)[p]]
  /\ index' = Joined
  /\ merging' = Theirs
  /\ unmerged' = Clashing
  /\ UNCHANGED <<store, refs>>

MergeFails(refused) ==
  /\ call' = [call EXCEPT !.pc = "failed", !.refused = refused]
  /\ UNCHANGED <<store, refs, wt, index, merging, unmerged>>

merge ==
  /\ At("refresh", "merge")
  /\ \/ NoFault /\ merging # 0 /\ MergeFails(FALSE)
     \/ /\ NoFault
        /\ merging = 0 /\ IsAncestor(store, Theirs, HEAD)
        /\ call' = [call EXCEPT !.pc = "joined"]
        /\ UNCHANGED <<store, refs, wt, index, merging, unmerged>>
     \/ /\ NoFault
        /\ merging = 0 /\ ~IsAncestor(store, Theirs, HEAD)
        /\ \/ MergeOverwrites /\ MergeFails(TRUE)
           \/ ~MergeOverwrites /\ JoinClean("refresh") /\ call' = [call EXCEPT !.pc = "joined", !.did = {head}]
           \/ ~MergeOverwrites /\ JoinClash /\ call' = [call EXCEPT !.pc = "failed", !.refused = FALSE]
     \/ Faulty /\ MergeFails(FALSE)
  /\ UNCHANGED <<track, remote, head, pulls, report, approved, setup>>

(* A read that fails from here on cannot tell what happened, and what the  *)
(* call leaves behind may be a merge in progress.                          *)
LeftBehind == IF merging # 0 THEN {"merging"} ELSE {}
CannotTell == EndDoing("GIT_FAILED", "unknown", {}, LeftBehind)

(* The commit at HEAD must join what the call checked. *)
mergedAsChecked ==
  /\ At("refresh", "joined")
  /\ \/ /\ NoFault
        /\ IF store[HEAD].parents = <<call.head, call.target>>
           THEN End("OK", "applied", {"branch"})
           ELSE CannotTell
     \/ Faulty /\ CannotTell
  /\ UnchangedButCall

(* mergeFailure reads MERGE_HEAD, then HEAD or the unmerged entries. *)
mergeFailure ==
  /\ At("refresh", "failed")
  /\ \/ /\ NoFault
        /\ CASE merging # 0                   -> Goto("abort")
             [] merging = 0 /\ call.refused   -> Fail("UNCOMMITTED_CHANGES")
             [] merging = 0 /\ ~call.refused  -> Goto("recheck")
     \/ Faulty /\ CannotTell
  /\ UnchangedButCall

failedMergeHead ==
  /\ At("refresh", "recheck")
  /\ IF HEAD = call.head THEN Fail("GIT_FAILED") ELSE CannotTell
  /\ NoFault
  /\ UnchangedButCall

(* git merge --abort: every unmerged path and every path that is staged    *)
(* goes back to HEAD, an edit that is not staged is kept, and a path with  *)
(* both makes it fail.                                                     *)
Staged == {p \in Paths : index[p] # HeadTree[p]}
AbortFails == merging = 0 \/ \E p \in Staged \ unmerged : wt[p] # index[p]

(* Mutation: the abort resets the working tree, as git reset --hard does.  *)
EveryPath == Paths

Restored == Staged \cup unmerged

abortMerge ==
  /\ At("refresh", "abort")
  /\ \/ /\ (AbortFails /\ NoFault) \/ Faulty
        /\ CannotTell
        /\ UNCHANGED <<wt, index, merging, unmerged>>
     \/ /\ ~AbortFails /\ NoFault
        /\ wt' = [p \in Paths |-> IF p \in Restored THEN HeadTree[p] ELSE wt[p]]
        /\ index' = HeadTree
        /\ merging' = 0
        /\ unmerged' = {}
        /\ Goto("aborted")
  /\ UNCHANGED <<store, track, refs, head, approved, setup>> /\ UNCHANGED hostVars

abortedHead ==
  /\ At("refresh", "aborted")
  /\ IF HEAD = call.head THEN Fail("MERGE_CONFLICT") ELSE CannotTell
  /\ NoFault
  /\ UnchangedButCall

----------------------------------------------------------------------------
(* repo_state and branch_init: the fast-forward of the local default       *)
(* branch, and branch_init's cut of the initialization branch.             *)

Behind == refs.default # call.target /\ IsAncestor(store, refs.default, call.target)

(* repo_state's last step: where the local default branch stands. *)
fastForwardDefault ==
  /\ At("repo_state", "look")
  /\ IF /\ Behind
        /\ ~(setup.elsewhere /\ head # "default")
        /\ head = "default" => ~Dirty /\ ~setup.shadow
     THEN /\ call' = [call EXCEPT !.pc = "forward", !.local = refs.default, !.here = head = "default"]
          /\ UNCHANGED report
     ELSE End("OK", "none", {})
  /\ NoFault
  /\ UnchangedButCall

branchInitRefusal ==
  LET behind == call.local # call.target
  IN CASE behind /\ ~IsAncestor(store, call.local, call.target) -> "DEFAULT_DIVERGED"
       [] behind /\ setup.elsewhere /\ head # "default"          -> "DEFAULT_DIVERGED"
       [] refs.branch # 0 \/ remote.branch # 0                   -> "BRANCH_EXISTS"
       [] setup.shadow                                           -> "GIT_FAILED"
       [] OTHER                                                  -> "OK"

branchInit ==
  /\ At("branch_init", "decide")
  /\ IF branchInitRefusal # "OK"
     THEN Fail(branchInitRefusal)
     ELSE /\ call' = [call EXCEPT !.pc = IF call.local # call.target THEN "forward" ELSE "cut",
                                  !.here = head = "default"]
          /\ UNCHANGED report
  /\ NoFault
  /\ UnchangedButCall

(* merge --ff-only when the default branch was checked out here, a         *)
(* compare-and-swap of the ref when it was not.                            *)
ForwardFails(code) ==
  IF call.op = "repo_state" THEN End("OK", "none", {}) ELSE Fail(code)
MovedRefs == {r \in {"branch", "default"} : refs'[r] # refs[r]}
Forwarded ==
  IF call.op = "repo_state"
  THEN EndDoing("OK", "applied", {"default"}, MovedRefs)
  ELSE /\ call' = [call EXCEPT !.pc = "cut", !.refs = {"default"}, !.did = MovedRefs]
       /\ UNCHANGED report

SwapDefault == refs.default = call.local

fastForward ==
  LET to == store[track.default].tree
  IN /\ call.pc = "forward"
     /\ \/ /\ ~call.here /\ SwapDefault
           /\ refs' = [refs EXCEPT !.default = call.target]
           /\ Forwarded
           /\ UNCHANGED <<wt, index>>
        \/ /\ ~call.here /\ ~SwapDefault
           /\ ForwardFails("GIT_FAILED")
           /\ UNCHANGED <<refs, wt, index>>
        \/ /\ call.here /\ merging = 0
           /\ IsAncestor(store, HEAD, track.default)
           /\ Overwritten(HeadTree, to, index, wt) = {}
           /\ refs' = [refs EXCEPT ![head] = track.default]
           /\ wt' = Moved(HeadTree, to, wt)
           /\ index' = Moved(HeadTree, to, index)
           /\ IF refs'.default = call.target
              THEN Forwarded
              ELSE EndDoing("GIT_FAILED", "unknown", {}, MovedRefs)
        \/ /\ call.here
           /\ \/ merging # 0 \/ ~IsAncestor(store, HEAD, track.default)
              \/ Overwritten(HeadTree, to, index, wt) # {}
           /\ ForwardFails(IF merging = 0 /\ Overwritten(HeadTree, to, index, wt) # {}
                           THEN "UNCOMMITTED_CHANGES" ELSE "GIT_FAILED")
           /\ UNCHANGED <<refs, wt, index>>
     /\ NoFault
     /\ UNCHANGED <<store, track, head, merging, unmerged, approved, setup>> /\ UNCHANGED hostVars

(* The failure of a later step is partial when the default branch moved. *)
partialIf == IF call.refs # {} THEN "partial" ELSE "none"

cutBranch ==
  LET to == store[refs.default].tree
  IN /\ At("branch_init", "cut")
     /\ IF refs.branch # 0 \/ merging # 0 \/ Overwritten(HeadTree, to, index, wt) # {}
        THEN /\ End(IF refs.branch # 0 \/ merging # 0 THEN "GIT_FAILED" ELSE "UNCOMMITTED_CHANGES", partialIf, call.refs)
             /\ UNCHANGED <<refs, head, wt, index>>
        ELSE /\ refs' = [refs EXCEPT !.branch = refs.default]
             /\ head' = "branch"
             /\ wt' = Moved(HeadTree, to, wt)
             /\ index' = Moved(HeadTree, to, index)
             /\ EndDoing("OK", "applied", call.refs \cup {"branch"}, {"branch"})
     /\ NoFault
     /\ UNCHANGED <<store, track, merging, unmerged, approved, setup>> /\ UNCHANGED hostVars

----------------------------------------------------------------------------
(* branch_resume and approved_merge *)

(* git switch fails while a merge is in progress; the branch that was left *)
(* is read again, so a user who switched meanwhile makes it unknown.       *)
branchResume ==
  LET to == store[refs.branch].tree
  IN /\ At("branch_resume", "switch")
     /\ CASE merging # 0 -> /\ End("GIT_FAILED", IF head = "branch" THEN "unknown" ELSE "none", {})
                            /\ UNCHANGED <<head, wt, index>>
          [] merging = 0 /\ Overwritten(HeadTree, to, index, wt) # {} ->
               Fail("UNCOMMITTED_CHANGES") /\ UNCHANGED <<head, wt, index>>
          [] OTHER ->
               /\ head' = "branch"
               /\ wt' = Moved(HeadTree, to, wt)
               /\ index' = Moved(HeadTree, to, index)
               /\ EndDoing("OK", "applied", {}, IF head = "branch" THEN {} ELSE {"HEAD"})
     /\ NoFault
     /\ UNCHANGED <<store, refs, track, merging, unmerged, approved, setup>> /\ UNCHANGED hostVars

(* Steps 1 to 3: the manifest on the default branch, and the one           *)
(* first-parent merge commit that added it.                                *)
approvedMerge ==
  LET adding == AddingCommits(store, call.target)
  IN /\ At("approved_merge", "log")
     /\ CASE ~ShowChangeSet(store[call.target].tree) -> Fail("NOT_APPROVED")
          [] ShowChangeSet(store[call.target].tree) /\ Cardinality(adding) # 1 -> Fail("NOT_A_MERGE_COMMIT")
          [] OTHER ->
               LET commit == CHOOSE c \in adding : TRUE
               IN IF Len(store[commit].parents) < 2
                  THEN Fail("NOT_A_MERGE_COMMIT")
                  ELSE call' = [call EXCEPT !.pc = "confirm", !.head = commit] /\ UNCHANGED report
     /\ NoFault
     /\ UnchangedButCall

(* Step 4: the host's merged pull requests must name that commit. *)
Merged == {i \in DOMAIN pulls : pulls[i].state = "merged"}

(* Mutation: any merged pull request confirms the commit. *)
AnyMergedPull(commit) == Merged # {}

HostConfirms(commit) == Cardinality(Merged) = 1 /\ \A i \in Merged : pulls[i].merge = commit

FindMerged ==
  /\ At("approved_merge", "confirm")
  /\ \/ /\ Faulty
        /\ \E code \in {"HOST_UNAVAILABLE", "CREDENTIAL_UNAVAILABLE"} : Fail(code)
        /\ UNCHANGED approved
     \/ /\ NoFault
        /\ IF HostConfirms(call.head)
           THEN End("OK", "none", {}) /\ approved' = approved \cup {call.head}
           ELSE /\ Fail(IF Merged = {} THEN "NOT_APPROVED" ELSE "MERGE_COMMIT_MISMATCH")
                /\ UNCHANGED approved
  /\ UNCHANGED <<store, track, setup>> /\ UNCHANGED cloneVars /\ UNCHANGED hostVars

----------------------------------------------------------------------------
(* The session's ears-manager and the user's own edits and git commands *)

Move(name) ==
  /\ name \in setup.moves
  /\ left.moves > 0
  /\ left' = [left EXCEPT !.moves = @ - 1]

Undisturbed == UNCHANGED <<track, call, report, approved, setup>> /\ UNCHANGED hostVars
WorkOnly == UNCHANGED <<store, refs, head, merging, unmerged>> /\ Undisturbed

EarsPut ==
  /\ Move("put")
  /\ SpecToolAnswers
  /\ wt' = [wt EXCEPT !.art = [kind |-> "file", blob |-> 2], !.cfg = 3, !.man.art = TRUE, !.prj.own = TRUE]
  /\ wt' # wt
  /\ UNCHANGED index
  /\ WorkOnly

EarsUpdateBase ==
  /\ Move("base")
  /\ SpecToolAnswers
  /\ IsAncestor(store, track.default, HEAD)
  /\ wt' = [wt EXCEPT !.man.base = track.default]
  /\ wt' # wt
  /\ UNCHANGED index
  /\ WorkOnly

EarsProjectInit ==
  /\ Move("init")
  /\ wt.cfg = 0 /\ head = "branch"
  /\ wt' = [wt EXCEPT !.cfg = Digest(wt.art), !.man = [base |-> HEAD, art |-> FALSE], !.prj.own = TRUE]
  /\ UNCHANGED index
  /\ WorkOnly

HandEdit ==
  /\ \/ Move("edit") /\ wt' = [wt EXCEPT !.art.blob = 3]
     \/ Move("link") /\ wt' = [wt EXCEPT !.art.kind = "link"]
     \/ Move("policy") /\ wt' = [wt EXCEPT !.prj.policy = ~@]
     \/ Move("other") /\ wt' = [wt EXCEPT !.oth = Len(store) + 1]
  /\ wt' # wt
  /\ UNCHANGED index
  /\ WorkOnly

UserStages ==
  /\ Move("stage")
  /\ \E added \in {Paths} \cup {{p} : p \in Paths} :
       /\ index' = [p \in Paths |-> IF p \in added THEN wt[p] ELSE index[p]]
       /\ unmerged' = unmerged \ added
  /\ <<index, unmerged>>' # <<index, unmerged>>
  /\ UNCHANGED <<store, refs, head, wt, merging>> /\ Undisturbed

UserDiscards ==
  /\ Move("discard")
  /\ wt # HeadTree \/ merging # 0
  /\ wt' = [p \in Paths |-> IF InTree(HeadTree, p) THEN HeadTree[p] ELSE wt[p]]
  /\ index' = HeadTree
  /\ merging' = 0
  /\ unmerged' = {}
  /\ UNCHANGED <<store, refs, head>> /\ Undisturbed

(* The user's own merge of the default branch, and the commit that         *)
(* concludes a merge in progress, whoever began it.                        *)
UserMerges ==
  /\ Move("join")
  /\ merging = 0 /\ ~MergeOverwrites
  /\ ~IsAncestor(store, Theirs, HEAD) /\ ~IsAncestor(store, HEAD, Theirs)
  /\ JoinClean("user") \/ JoinClash
  /\ UNCHANGED head /\ Undisturbed

UserCommits ==
  /\ Move("commit") /\ unmerged = {}
  /\ index # HeadTree \/ merging # 0
  /\ LET parents == IF merging = 0 THEN <<HEAD>> ELSE <<HEAD, merging>>
     IN store' = Append(store, Commit(store, parents, index, "user"))
  /\ refs' = [refs EXCEPT ![head] = Len(store) + 1]
  /\ merging' = 0
  /\ UNCHANGED <<head, wt, index, unmerged>> /\ Undisturbed

UserSwitches ==
  /\ Move("switch")
  /\ merging = 0
  /\ \E other \in {"branch", "default"} \ {head} :
       LET to == store[refs[other]].tree
       IN /\ refs[other] # 0
          /\ Overwritten(HeadTree, to, index, wt) = {}
          /\ head' = other
          /\ wt' = Moved(HeadTree, to, wt)
          /\ index' = Moved(HeadTree, to, index)
  /\ UNCHANGED <<store, refs, merging, unmerged>> /\ Undisturbed

(* A fetch of the tracking refs, a fetch into the local default branch, or *)
(* a branch cut by hand.                                                   *)
UserMovesRefs ==
  /\ \/ Move("fetch") /\ track' = remote /\ UNCHANGED refs
     \/ /\ Move("pull") /\ head # "default" /\ IsAncestor(store, refs.default, remote.default)
        /\ track' = remote /\ refs' = [refs EXCEPT !.default = remote.default]
     \/ Move("cut") /\ refs.branch = 0 /\ refs' = [refs EXCEPT !.branch = refs.default] /\ UNCHANGED track
  /\ <<track, refs>>' # <<track, refs>>
  /\ UNCHANGED <<store, head, wt, index, merging, unmerged, call, report, approved, setup>> /\ UNCHANGED hostVars

----------------------------------------------------------------------------
(* Colleagues and reviewers at the remote and the host *)

RemoteGets(name, parents, tree) ==
  /\ store' = Append(store, Commit(store, parents, tree, "remote"))
  /\ remote' = [remote EXCEPT ![name] = Len(store) + 1]
  /\ UNCHANGED <<track, call, report, approved, setup>> /\ UNCHANGED cloneVars

DefaultMoves ==
  LET tree == store[remote.default].tree
  IN /\ \/ Move("code") /\ RemoteGets("default", <<remote.default>>, [tree EXCEPT !.oth = Len(store) + 1])
        \/ /\ Move("spec") /\ tree.cfg # 0
           /\ RemoteGets("default", <<remote.default>>,
                         [tree EXCEPT !.art = [kind |-> "file", blob |-> 3], !.cfg = 4])
        \/ /\ Move("revert") /\ InTree(tree, "man")
           /\ RemoteGets("default", <<remote.default>>, [tree EXCEPT !.man = NoManifest])
     /\ UNCHANGED pulls

ColleaguePushes ==
  /\ Move("push")
  /\ remote.branch # 0
  /\ RemoteGets("branch", <<remote.branch>>, [store[remote.branch].tree EXCEPT !.oth = Len(store) + 1])
  /\ UNCHANGED pulls

(* The branch lands on the default branch by a merge or a squash, from a   *)
(* pull request or by hand; the host marks an open pull request merged.    *)
Land ==
  LET base == store[MergeBase(store, remote.branch, remote.default)].tree
      ours == store[remote.default].tree
      theirs == store[remote.branch].tree
  IN /\ remote.branch # 0
     /\ \/ Move("merge") /\ RemoteGets("default", <<remote.default, remote.branch>>, MergeTree(base, ours, theirs))
        \/ Move("squash") /\ RemoteGets("default", <<remote.default>>, MergeTree(base, ours, theirs))
     /\ ~IsAncestor(store, remote.branch, remote.default)
     /\ Conflicts(base, ours, theirs) = {}
     /\ pulls' = [i \in DOMAIN pulls |->
                    IF pulls[i].state = "open"
                    THEN [pulls[i] EXCEPT !.state = "merged", !.merge = Len(store) + 1] ELSE pulls[i]]

(* After a revert, the manifest comes back by a merge of another branch. *)
Reland ==
  LET tree == store[remote.default].tree
  IN /\ Move("reland")
     /\ remote.branch # 0 /\ IsAncestor(store, remote.branch, remote.default)
     /\ ~InTree(tree, "man")
     /\ LET again == [tree EXCEPT !.man = store[remote.branch].tree.man]
            fixed == Append(store, Commit(store, <<remote.default>>, again, "remote"))
        IN store' = Append(fixed, Commit(fixed, <<remote.default, Len(fixed)>>, again, "remote"))
     /\ remote' = [remote EXCEPT !.default = Len(store) + 2]
     /\ UNCHANGED <<track, pulls, call, report, approved, setup>> /\ UNCHANGED cloneVars

ClosePull ==
  /\ Move("close")
  /\ \E i \in OpenOnly : pulls' = [pulls EXCEPT ![i].state = "closed"]
  /\ UNCHANGED <<store, track, remote, call, report, approved, setup>> /\ UNCHANGED cloneVars

----------------------------------------------------------------------------
(* Three starting points.  "init": a repository without a project, HEAD on *)
(* the default branch.  "drafting": `change-set create` has cut the branch *)
(* and written its manifest.  "review": the branch is pushed and its pull  *)
(* request is open; "landed" also has its first commit on the default      *)
(* branch, merged by hand before the pull request was opened.              *)

Extend(s, parents, tree, by) == Append(s, Commit(s, parents, tree, by))

InitialStore(world) ==
  LET root == <<Commit(<<>>, <<>>, IF world = "init" THEN Bare ELSE Plain, "remote")>>
      one == Extend(root, <<1>>, Drafted, "commit")
      merged == Extend(one, <<1, 2>>, Drafted, "remote")
      joined == Extend(merged, <<2, 3>>, Drafted, "refresh")
      put == [Put EXCEPT !.man.base = 3]
  IN CASE world = "review" -> Extend(root, <<1>>, Put, "commit")
       [] world = "landed" -> Extend(joined, <<4>>, put, "commit")
       [] OTHER            -> root

Init ==
  /\ setup \in Setups
  /\ store = InitialStore(setup.world)
  /\ LET last == Len(store)
         base == IF setup.world = "landed" THEN 3 ELSE 1
     IN /\ refs = [branch |-> IF setup.world = "init" THEN 0 ELSE last, default |-> base]
        /\ track = [branch |-> IF setup.world \in {"review", "landed"} THEN last ELSE 0, default |-> base]
        /\ remote = track
        /\ head = IF setup.world = "init" THEN "default" ELSE "branch"
        /\ wt = IF setup.world = "drafting" THEN Drafted ELSE store[last].tree
        /\ index = store[last].tree
        /\ pulls = IF setup.world \in {"review", "landed"}
                   THEN <<[state |-> "open", text |-> [art |-> 2, man |-> store[last].tree.man], merge |-> 0]>>
                   ELSE <<>>
  /\ merging = 0
  /\ unmerged = {}
  /\ call = Idle
  /\ report = [op |-> "none", code |-> "OK", mutation |-> "none", named |-> {}, did |-> {}]
  /\ approved = {}
  /\ left = [calls |-> MaxCalls, moves |-> MaxMoves, faults |-> MaxFaults]

Server ==
  \/ StartCommit \/ StartPublish \/ StartRefresh \/ StartRepoState
  \/ StartBranchInit \/ StartBranchResume \/ StartApprovedMerge
  \/ Fetch
  \/ deriveFileSet \/ RecordContent \/ digestCheck \/ stageContent \/ writeCommit
  \/ compareWithHead \/ findPullRequest \/ checkBase \/ renderBody \/ push \/ requestPullRequest
  \/ checkClean \/ readHeads \/ merge \/ mergedAsChecked
  \/ mergeFailure \/ failedMergeHead \/ abortMerge \/ abortedHead
  \/ fastForwardDefault \/ branchInit \/ fastForward \/ cutBranch
  \/ branchResume \/ approvedMerge \/ FindMerged

Others ==
  \/ EarsPut \/ EarsUpdateBase \/ EarsProjectInit
  \/ HandEdit \/ UserStages \/ UserDiscards \/ UserMerges \/ UserCommits \/ UserSwitches \/ UserMovesRefs
  \/ DefaultMoves \/ ColleaguePushes \/ Land \/ Reland \/ ClosePull

Next == Server \/ Others

Spec == Init /\ [][Next]_vars

----------------------------------------------------------------------------
(* Properties *)

(* Every ref names a commit, HEAD names a branch that exists, and the call *)
(* and its result are of the kinds that the code produces.                 *)
TypeOK ==
  /\ refs.branch \in 0..Len(store) /\ refs.default \in 1..Len(store)
  /\ \A r \in {track, remote} : r.branch \in 0..Len(store) /\ r.default \in 1..Len(store)
  /\ head \in {"branch", "default"} /\ HEAD \in DOMAIN store
  /\ merging \in 0..Len(store) /\ unmerged \subseteq Paths /\ (unmerged # {} => merging # 0)
  /\ DOMAIN wt = Paths /\ DOMAIN index = Paths
  /\ \A i \in DOMAIN store :
       /\ Len(store[i].parents) \in 0..2
       /\ \A k \in DOMAIN store[i].parents : store[i].parents[k] \in store[i].anc \ {i}
  /\ \A i \in DOMAIN pulls : pulls[i].state \in {"open", "merged", "closed"} /\ (pulls[i].state = "merged" <=> pulls[i].merge # 0)
  /\ report.mutation \in {"none", "partial", "applied", "unknown"}
  /\ call.paths \subseteq Paths
  /\ approved \subseteq DOMAIN store

(* Whatever moves while a call runs, no local branch and no branch of the  *)
(* remote ever loses a commit: update-ref compares the old value, the      *)
(* merge and the fast-forwards add to it, and the push is not forced.      *)
HistoryIsKept ==
  [][/\ \A r \in {"branch", "default"} : refs[r] # 0 => refs[r] \in store'[refs'[r]].anc
     /\ remote.branch # 0 => remote.branch \in store'[remote'.branch].anc]_vars

(* refresh, the fast-forward, branch_init and branch_resume move the       *)
(* working tree after a check that it is clean, and a file may be edited   *)
(* after the check, also while a conflicted merge awaits its abort.  A     *)
(* step of a call replaces a file only if the content it replaces is the   *)
(* one HEAD holds; the abort also puts back what the merge left unmerged   *)
(* and what is staged, and no other edit.                                  *)
Aborting(p) == At("refresh", "abort") /\ (p \in unmerged \/ wt[p] = index[p])
EditsAreKept ==
  [][call' # call =>
       \A p \in Paths : wt'[p] # wt[p] => wt[p] = HeadTree[p] \/ Aborting(p)]_vars

(* A call that reports mutation none changed no ref, no remote and no pull *)
(* request and left no merge behind: a request whose answer was lost must  *)
(* be reported unknown, and what publish pushed must be named in its       *)
(* partial result.  Only a request whose success the client reads as a     *)
(* refusal of the host is missing from the result, as no check of the code *)
(* can tell it from one.                                                   *)
ResultIsHonest ==
  /\ report.mutation = "none" => report.did \subseteq {"misread"}
  /\ report.op = "publish" /\ report.mutation = "partial" => report.did \subseteq report.named \cup {"misread"}

(* However often publish is repeated, after lost answers, a close or a     *)
(* merge, the branch never has a second pull request.                      *)
OnePullRequest == Len(pulls) <= 1

(* A commit of the SCM changes paths of the file set only, and the         *)
(* artifact it commits is a regular file, though the user's index and the  *)
(* working tree may hold anything else.                                    *)
CommitIsOfFileSet ==
  \A i \in DOMAIN store :
    store[i].by = "commit" =>
      LET parent == store[store[i].parents[1]].tree
      IN /\ store[i].tree.oth = parent.oth
         /\ store[i].tree.art # parent.art => store[i].tree.art.kind = "file"

(* What approved_merge answers is one commit for good: a merge that        *)
(* brought the manifest to the default branch, and the one that the host   *)
(* records for the reviewed pull request, whatever was landed by hand,     *)
(* reverted or landed again.                                               *)
ApprovedIsReviewed ==
  /\ Cardinality(approved) <= 1
  /\ \A c \in approved :
       /\ Len(store[c].parents) = 2
       /\ c \in AddingCommits(store, c)
       /\ \E i \in DOMAIN pulls : pulls[i].merge = c

(* The clone, the remote and the host stay well formed, and publish, which *)
(* looks for the pull request before it opens one, never opens a second.   *)
PublishedOnce == TypeOK /\ OnePullRequest

(* What is published is what was drafted, and what counts as approved is   *)
(* what was reviewed.                                                      *)
ReviewedIsDrafted == CommitIsOfFileSet /\ ApprovedIsReviewed

(* No call, whatever others do between its steps, loses a commit of a      *)
(* branch or, but for what the abort of a merge resets, an uncommitted     *)
(* edit of a file.                                                         *)
NothingIsLost == HistoryIsKept /\ EditsAreKept
=============================================================================
