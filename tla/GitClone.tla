------------------------------ MODULE GitClone ------------------------------
(***************************************************************************)
(* The Git data that the Source Control Manager works on: commits, trees,  *)
(* the working tree of one clone, and the file set of a change set.  Pure  *)
(* operators; the module SourceControl holds the state.                    *)
(*                                                                         *)
(* A tree has five paths, one for each way a path is treated: the artifact *)
(* of the change set ("art"), the registry project.yaml with the           *)
(* artifact's digest ("cfg"), the manifest of the change set ("man"),      *)
(* projection.yaml ("prj") and any other tracked file ("oth").             *)
(***************************************************************************)
EXTENDS Integers, Sequences, FiniteSets

Paths == {"art", "cfg", "man", "prj", "oth"}

(* An artifact is a regular file or a symbolic link whose target reads as  *)
(* the same bytes.  cfg is 0 where no project exists, otherwise the digest *)
(* of the registered artifact.  A manifest has base 0 where it is absent.  *)
NoManifest == [base |-> 0, art |-> FALSE]
Tree(art, cfg, man, prj, oth) ==
  [art |-> art, cfg |-> cfg, man |-> man, prj |-> prj, oth |-> oth]

Digest(art) == art.blob + 1

(* What git leaves in a file whose merge conflicts: the text of both sides *)
(* between marks, which is no artifact, no YAML and no manifest.           *)
Marks == -1
Marked ==
  Tree([kind |-> "file", blob |-> Marks], Marks, [base |-> Marks, art |-> FALSE],
       [own |-> FALSE, policy |-> TRUE], Marks)

InTree(tree, p) ==
  CASE p = "man" -> tree.man # NoManifest
    [] p = "cfg" -> tree.cfg # 0
    [] OTHER     -> TRUE

----------------------------------------------------------------------------
(* Commits *)

Commit(store, parents, tree, by) ==
  [parents |-> parents, tree |-> tree, by |-> by,
   anc  |-> (UNION {store[parents[i]].anc : i \in DOMAIN parents}) \cup {Len(store) + 1},
   line |-> (IF parents = <<>> THEN {} ELSE store[parents[1]].line) \cup {Len(store) + 1}]

IsAncestor(store, a, b) == a \in store[b].anc

MergeBase(store, a, b) ==
  LET common == store[a].anc \cap store[b].anc
  IN CHOOSE c \in common : \A d \in common : c \in store[d].anc => d = c

(* git's three-way merge, path by path. *)
Conflicts(base, ours, theirs) ==
  {p \in Paths : ours[p] # base[p] /\ theirs[p] # base[p] /\ ours[p] # theirs[p]}

MergeTree(base, ours, theirs) ==
  [p \in Paths |-> IF ours[p] = base[p] THEN theirs[p] ELSE ours[p]]

(* The first-parent commits that added the manifest. *)
AddingCommits(store, head) ==
  {c \in store[head].line :
     /\ InTree(store[c].tree, "man")
     /\ store[c].parents # <<>> => ~InTree(store[store[c].parents[1]].tree, "man")}

----------------------------------------------------------------------------
(* The working tree *)

TrackedChanges(head, index, wt) ==
  {p \in Paths : (InTree(index, p) \/ InTree(head, p)) /\ ~(wt[p] = index[p] /\ index[p] = head[p])}

(* git refuses a merge or a switch that would overwrite a changed or an    *)
(* untracked file.                                                         *)
Overwritten(from, to, index, wt) ==
  {p \in Paths : from[p] # to[p] /\ ~(wt[p] = from[p] /\ index[p] = from[p])}

(* What is in place after git moved the working tree between two trees.    *)
Moved(from, to, wt) == [p \in Paths |-> IF from[p] # to[p] THEN to[p] ELSE wt[p]]

----------------------------------------------------------------------------
(* The file set of a change set *)

Regular(tree, p) == p = "art" => tree.art.kind = "file"

ownEdit(head, wt, own) == wt.prj.own # head.prj.own /\ wt.prj.own /\ "art" \in own
policyEdit(head, wt, own) ==
  \/ wt.prj.policy # head.prj.policy
  \/ wt.prj.own # head.prj.own /\ ~(wt.prj.own /\ "art" \in own)

projectionListed(init, head, wt, own, strict) ==
  \/ init
  \/ ownEdit(head, wt, own) /\ (strict => ~policyEdit(head, wt, own))

FileSet(init, head, wt, own, strict) ==
  own \cup {"cfg"} \cup (IF projectionListed(init, head, wt, own, strict) THEN {"prj"} ELSE {})

Changed(head, wt, paths) == {p \in paths : wt[p] # head[p]}

(* What repo_state and publish list: the working tree or the index         *)
(* differs from HEAD.                                                      *)
listed(init, head, index, wt, own) ==
  LET paths == FileSet(init, head, wt, own, FALSE)
  IN Changed(head, wt, paths) \cup Changed(head, index, paths)
=============================================================================
