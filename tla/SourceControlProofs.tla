------------------------ MODULE SourceControlProofs ------------------------
(***************************************************************************)
(* The promises of SourceControl, proved for every set of clones and every *)
(* number of calls, faults and acts of others.                             *)
(***************************************************************************)
EXTENDS SourceControl, FiniteSetTheorems, TLAPS

----------------------------------------------------------------------------
(* Sequences *)

IsSeq(s) == s \in Seq({s[n] : n \in DOMAIN s})

\* What Append leaves and what it adds.
LEMMA AppendFacts ==
    ASSUME NEW s, IsSeq(s), NEW e, NEW t, t = Append(s, e)
    PROVE  /\ IsSeq(t)
           /\ Len(s) \in Nat /\ Len(t) = Len(s) + 1
           /\ DOMAIN s = 1..Len(s) /\ DOMAIN t = 1..(Len(s) + 1)
           /\ t[Len(s) + 1] = e
           /\ \A n \in DOMAIN s : t[n] = s[n]
  <1> DEFINE S == {s[n] : n \in DOMAIN s} \cup {e}
  <1>1. s \in Seq(S)
    BY DEF IsSeq
  <1>2. /\ t \in Seq(S) /\ Len(s) \in Nat
        /\ DOMAIN s = 1..Len(s)
        /\ Len(t) = Len(s) + 1 /\ DOMAIN t = 1..(Len(s) + 1)
        /\ t[Len(s) + 1] = e
        /\ \A n \in 1..Len(s) : t[n] = s[n]
    BY <1>1
  <1>3. t \in Seq({t[n] : n \in DOMAIN t})
    BY <1>2
  <1> QED
    BY <1>2, <1>3 DEF IsSeq

\* A sequence is a function on 1..Len.
LEMMA SeqFacts ==
    ASSUME NEW s, IsSeq(s)
    PROVE  /\ Len(s) \in Nat /\ DOMAIN s = 1..Len(s)
           /\ Len(s) = 0 => s = <<>>
  BY DEF IsSeq

\* A sequence whose elements were replaced.
LEMMA ReplacedSeq ==
    ASSUME NEW s, IsSeq(s), NEW t, t = [i \in DOMAIN s |-> t[i]]
    PROVE  IsSeq(t) /\ Len(t) = Len(s) /\ DOMAIN t = DOMAIN s
  <1>1. Len(s) \in Nat /\ DOMAIN s = 1..Len(s)
    BY SeqFacts
  <1>2. DOMAIN t = 1..Len(s)
    BY <1>1
  <1> DEFINE S == {t[i] : i \in DOMAIN t}
  <1>3. t \in [1..Len(s) -> S]
    BY <1>1, <1>2
  <1>4. t \in Seq(S)
    BY <1>1, <1>3
  <1> QED
    BY <1>1, <1>2, <1>4 DEF IsSeq

----------------------------------------------------------------------------
(* The commits.  A commit never changes, its parents and its ancestors are *)
(* older, and its tree has every path.                                     *)

CommitOK(s, i) ==
  /\ DOMAIN s[i] = {"parents", "tree", "by", "anc", "line"}
  /\ IsSeq(s[i].parents) /\ Len(s[i].parents) \in 0..2
  /\ \A k \in DOMAIN s[i].parents :
       s[i].parents[k] \in 1..Len(s) /\ s[i].parents[k] < i /\ s[i].parents[k] \in s[i].anc
  /\ i \in s[i].anc /\ s[i].anc \subseteq DOMAIN s
  /\ i \in s[i].line /\ s[i].line \subseteq DOMAIN s
  /\ DOMAIN s[i].tree = Paths

StoreOK(s) == IsSeq(s) /\ \A i \in DOMAIN s : CommitOK(s, i)

Extends(s, t) == DOMAIN s \subseteq DOMAIN t /\ \A i \in DOMAIN s : t[i] = s[i]

\* Only files of the file set differ between a commit of the SCM and its
\* parent.
OfFileSet(s, i) ==
  s[i].by = "commit" =>
    s[i].parents # <<>> /\
    LET parent == s[s[i].parents[1]].tree
    IN /\ s[i].tree.oth = parent.oth
       /\ s[i].tree.art # parent.art => s[i].tree.art.kind = "file"

ParentsOK(s, parents) ==
  /\ IsSeq(parents) /\ Len(parents) \in 0..2
  /\ \A k \in DOMAIN parents : parents[k] \in DOMAIN s

\* t is s and one more commit.
Grown(s, t, commit) ==
  /\ StoreOK(t) /\ Extends(s, t)
  /\ Len(s) \in Nat /\ Len(t) = Len(s) + 1
  /\ DOMAIN s = 1..Len(s) /\ DOMAIN t = 1..(Len(s) + 1)
  /\ t[Len(s) + 1] = commit

CommitIs(c, parents, tree, by) == c.parents = parents /\ c.tree = tree /\ c.by = by

\* The fields of a commit.
LEMMA CommitFields ==
    ASSUME NEW s, NEW parents, NEW tree, NEW by, NEW c, c = Commit(s, parents, tree, by)
    PROVE  /\ DOMAIN c = {"parents", "tree", "by", "anc", "line"}
           /\ c.parents = parents /\ c.tree = tree /\ c.by = by
           /\ \A x : x \in c.anc <=> x = Len(s) + 1 \/ \E k \in DOMAIN parents : x \in s[parents[k]].anc
           /\ \A x : x \in c.line <=> x = Len(s) + 1 \/ (parents # <<>> /\ x \in s[parents[1]].line)
  <1> DEFINE U == UNION {s[parents[i]].anc : i \in DOMAIN parents}
             L == IF parents = <<>> THEN {} ELSE s[parents[1]].line
  <1>1. c = [parents |-> parents, tree |-> tree, by |-> by,
             anc |-> U \cup {Len(s) + 1}, line |-> L \cup {Len(s) + 1}]
    BY DEF Commit
  <1>2. \A x : x \in U <=> \E k \in DOMAIN parents : x \in s[parents[k]].anc
    BY Zenon
  <1>3. \A x : x \in L <=> parents # <<>> /\ x \in s[parents[1]].line
    OBVIOUS
  <1> HIDE DEF U, L
  <1>4. /\ DOMAIN c = {"parents", "tree", "by", "anc", "line"}
        /\ c.parents = parents /\ c.tree = tree /\ c.by = by
        /\ c.anc = U \cup {Len(s) + 1} /\ c.line = L \cup {Len(s) + 1}
    BY <1>1
  <1> QED
    BY <1>2, <1>3, <1>4

\* A new commit keeps the store well formed and descends from its parents.
LEMMA NewCommit ==
    ASSUME NEW s, StoreOK(s), NEW parents, ParentsOK(s, parents),
           NEW tree, DOMAIN tree = Paths, NEW by,
           NEW c, c = Commit(s, parents, tree, by),
           NEW t, t = Append(s, c)
    PROVE  Grown(s, t, c) /\ \A k \in DOMAIN parents : parents[k] \in c.anc
  <1> DEFINE n == Len(s) + 1
  <1>1. /\ IsSeq(t) /\ Len(s) \in Nat /\ Len(t) = n
        /\ DOMAIN s = 1..Len(s) /\ DOMAIN t = 1..n
        /\ t[n] = c
        /\ \A i \in DOMAIN s : t[i] = s[i]
    <2>1. IsSeq(s)
      BY DEF StoreOK
    <2>3. IsSeq(t)
      BY <2>1, AppendFacts
    <2>4. Len(s) \in Nat /\ Len(t) = n
      BY <2>1, AppendFacts
    <2>5. DOMAIN s = 1..Len(s) /\ DOMAIN t = 1..n
      BY <2>1, AppendFacts
    <2>6. t[n] = c
      BY <2>1, AppendFacts
    <2>7. \A i \in DOMAIN s : t[i] = s[i]
      BY <2>1, AppendFacts
    <2> QED
      BY <2>3, <2>4, <2>5, <2>6, <2>7
  <1>2. Extends(s, t)
    BY <1>1 DEF Extends
  <1>3. ASSUME NEW i \in DOMAIN s PROVE CommitOK(t, i)
    <2>1. t[i] = s[i] /\ CommitOK(s, i)
      BY <1>1 DEF StoreOK
    <2> QED
      BY <1>1, <2>1 DEF CommitOK
  <1>4. DOMAIN c = {"parents", "tree", "by", "anc", "line"} /\ c.parents = parents /\ c.tree = tree
    BY CommitFields
  <1>5. /\ \A x : x \in c.anc <=> x = n \/ \E k \in DOMAIN parents : x \in s[parents[k]].anc
        /\ \A x : x \in c.line <=> x = n \/ (parents # <<>> /\ x \in s[parents[1]].line)
    BY CommitFields
  <1>6. ASSUME NEW k \in DOMAIN parents
        PROVE  /\ parents[k] \in 1..Len(s) /\ parents[k] \in c.anc
               /\ s[parents[k]].anc \subseteq DOMAIN s /\ s[parents[k]].line \subseteq DOMAIN s
    <2>1. parents[k] \in DOMAIN s /\ CommitOK(s, parents[k])
      BY DEF StoreOK, ParentsOK
    <2> QED
      BY <1>1, <1>5, <2>1 DEF CommitOK
  <1>7. c.anc \subseteq DOMAIN t /\ n \in c.anc
    <2>1. DOMAIN s \subseteq DOMAIN t /\ n \in DOMAIN t
      BY <1>1
    <2> QED
      BY <1>5, <1>6, <2>1
  <1>8. c.line \subseteq DOMAIN t /\ n \in c.line
    <2>1. parents # <<>> => 1 \in DOMAIN parents
      BY SeqFacts DEF ParentsOK
    <2>2. DOMAIN s \subseteq DOMAIN t /\ n \in DOMAIN t
      BY <1>1
    <2> QED
      BY <1>5, <1>6, <2>1, <2>2
  <1>9. CommitOK(t, n)
    <2>1. \A k \in DOMAIN parents : parents[k] \in 1..Len(t) /\ parents[k] < n /\ parents[k] \in c.anc
      BY <1>1, <1>6
    <2> QED
      BY <1>1, <1>4, <1>7, <1>8, <2>1 DEF CommitOK, ParentsOK
  <1>10. StoreOK(t)
    BY <1>1, <1>3, <1>9 DEF StoreOK
  <1> QED
    BY <1>1, <1>2, <1>6, <1>10 DEF Grown

\* A commit with one parent.
LEMMA OneParent ==
    ASSUME NEW s, StoreOK(s), NEW a \in DOMAIN s, NEW tree, DOMAIN tree = Paths, NEW by,
           NEW c, c = Commit(s, <<a>>, tree, by), NEW t, t = Append(s, c)
    PROVE  /\ Grown(s, t, c)
           /\ CommitIs(c, <<a>>, tree, by) /\ a \in c.anc
  <1> DEFINE ps == <<a>>
  <1>1. IsSeq(ps) /\ Len(ps) = 1 /\ DOMAIN ps = {1} /\ ps[1] = a
    BY DEF IsSeq
  <1>2. c = Commit(s, ps, tree, by)
    OBVIOUS
  <1>3. CommitIs(c, ps, tree, by)
    BY CommitFields DEF CommitIs
  <1> HIDE DEF ps
  <1>4. ParentsOK(s, ps)
    BY <1>1 DEF ParentsOK
  <1>5. Grown(s, t, c) /\ \A k \in DOMAIN ps : ps[k] \in c.anc
    BY <1>2, <1>4, NewCommit
  <1> QED
    BY <1>1, <1>3, <1>5 DEF ps

\* A merge commit.
LEMMA TwoParents ==
    ASSUME NEW s, StoreOK(s), NEW a \in DOMAIN s, NEW b \in DOMAIN s,
           NEW tree, DOMAIN tree = Paths, NEW by,
           NEW c, c = Commit(s, <<a, b>>, tree, by), NEW t, t = Append(s, c)
    PROVE  /\ Grown(s, t, c)
           /\ CommitIs(c, <<a, b>>, tree, by) /\ a \in c.anc /\ b \in c.anc
  <1> DEFINE ps == <<a, b>>
  <1>1. IsSeq(ps) /\ Len(ps) = 2 /\ DOMAIN ps = {1, 2} /\ ps[1] = a /\ ps[2] = b
    BY DEF IsSeq
  <1>2. c = Commit(s, ps, tree, by)
    OBVIOUS
  <1>3. CommitIs(c, ps, tree, by)
    BY CommitFields DEF CommitIs
  <1> HIDE DEF ps
  <1>4. ParentsOK(s, ps)
    BY <1>1 DEF ParentsOK
  <1>5. Grown(s, t, c) /\ \A k \in DOMAIN ps : ps[k] \in c.anc
    BY <1>2, <1>4, NewCommit
  <1> QED
    BY <1>1, <1>3, <1>5 DEF ps

\* Commits of others, and commits of the SCM that are as they should be,
\* keep the file set rule.
LEMMA FileSetKept ==
    ASSUME NEW s, StoreOK(s), NEW t, Extends(s, t), DOMAIN t = DOMAIN s \cup {Len(s) + 1},
           \A i \in DOMAIN s : OfFileSet(s, i), OfFileSet(t, Len(s) + 1)
    PROVE  \A i \in DOMAIN t : OfFileSet(t, i)
  <1>1. ASSUME NEW i \in DOMAIN s, s[i].by = "commit" PROVE OfFileSet(t, i)
    <2>1. CommitOK(s, i) /\ DOMAIN s = 1..Len(s) /\ t[i] = s[i]
      BY SeqFacts DEF StoreOK, Extends
    <2>2. s[i].parents # <<>>
      BY <1>1 DEF OfFileSet
    <2>3. 1 \in DOMAIN s[i].parents
      BY <2>1, <2>2, SeqFacts DEF CommitOK
    <2>4. s[i].parents[1] \in DOMAIN s
      BY <2>1, <2>3 DEF CommitOK
    <2>5. t[s[i].parents[1]] = s[s[i].parents[1]]
      BY <2>4 DEF Extends
    <2>6. OfFileSet(s, i)
      OBVIOUS
    <2> QED
      BY <2>1, <2>5, <2>6 DEF OfFileSet
  <1>2. ASSUME NEW i \in DOMAIN s, s[i].by # "commit" PROVE OfFileSet(t, i)
    BY <1>2 DEF OfFileSet, Extends
  <1> QED
    BY <1>1, <1>2

----------------------------------------------------------------------------
(* The invariant.  It is a conjunction of what is true of the clone and    *)
(* the host, of the pull requests, of what approved_merge has answered, of *)
(* the commits of the SCM, and of the running call.                        *)

RefNames == {"branch", "default"}
RefsOK(r) == DOMAIN r = RefNames /\ r.branch \in 0..Len(store) /\ r.default \in 1..Len(store)

CloneInv ==
  /\ StoreOK(store)
  /\ RefsOK(refs) /\ RefsOK(track) /\ RefsOK(remote)
  /\ head \in RefNames /\ HEAD # 0
  /\ DOMAIN wt = Paths /\ DOMAIN index = Paths

\* A merge in progress names a commit, and only it leaves unmerged paths.
MergeInv ==
  /\ merging \in 0..Len(store)
  /\ unmerged \subseteq Paths
  /\ unmerged # {} => merging # 0

PullOK(p) ==
  /\ DOMAIN p = {"state", "text", "merge"}
  /\ p.state \in {"open", "merged", "closed"}
  /\ p.state = "merged" <=> p.merge # 0

PullInv ==
  /\ IsSeq(pulls) /\ Len(pulls) <= 1
  /\ \A i \in DOMAIN pulls : PullOK(pulls[i])

\* A merge commit that brought the manifest to the branch it is on.
AddingMerge(c) ==
  /\ c \in DOMAIN store
  /\ Len(store[c].parents) = 2
  /\ c \in AddingCommits(store, c)

ApprovedInv ==
  \A c \in approved :
    /\ AddingMerge(c)
    /\ \E i \in DOMAIN pulls : pulls[i].state = "merged" /\ pulls[i].merge = c

FileSetInv == \A i \in DOMAIN store : OfFileSet(store, i)

\* The pull request that publish works on is the one that exists, or none
\* does; what a call has changed so far its local variables tell.
CallInv ==
  /\ DOMAIN call = DOMAIN Idle
  /\ call.pc = "fetch" => call.op \in DOMAIN AfterFetch
  /\ call.paths \subseteq Paths \ {"oth"}
  /\ call.op = "commit" => call.head \in DOMAIN store
  /\ call.op \in {"publish", "branch_resume"} => refs.branch # 0
  /\ call.pc \in {"look", "decide", "log", "forward"} => call.target \in DOMAIN store
  /\ call.pc = "forward" /\ ~call.here => IsAncestor(store, call.local, call.target)
  /\ call.pc = "write" /\ "art" \in call.paths => call.seen.art.kind = "file"
  /\ call.pc = "confirm" => AddingMerge(call.head)
  /\ call.op = "publish" /\ call.pc \in {"compare", "fetch", "find"} => call.pull = 0
  /\ call.pc \in {"base", "render", "push", "request"} =>
       IF call.pull = 0 THEN pulls = <<>> ELSE call.pull \in DOMAIN pulls
  /\ call.did # {} => \/ call.pc = "request" /\ call.pushed /\ call.did = {"remote"}
                      \/ call.pc = "cut" /\ call.refs # {}
                      \/ call.pc = "joined"

ResultInv ==
  /\ report.mutation \in {"none", "partial", "applied", "unknown"}
  /\ ResultIsHonest

SourceInv == CloneInv /\ MergeInv /\ PullInv /\ ApprovedInv /\ FileSetInv /\ CallInv /\ ResultInv

\* Only these fields of a call exist.
LEMMA CallFields ==
    DOMAIN Idle = {"op", "pc", "head", "local", "target", "show", "here", "paths", "seen", "pull",
                   "old", "text", "pushed", "refused", "refs", "did"}
  BY DEF Idle

----------------------------------------------------------------------------
(* The clone and the host *)

\* Commits of others are no commits of the SCM.
LEMMA GrownFileSet ==
    ASSUME SourceInv, NEW c, Grown(store, store', c), OfFileSet(store', Len(store) + 1)
    PROVE  FileSetInv'
  <1>1. DOMAIN store' = DOMAIN store \cup {Len(store) + 1} /\ Extends(store, store')
    BY DEF Grown
  <1>2. \A i \in DOMAIN store' : OfFileSet(store', i)
    BY <1>1, FileSetKept DEF SourceInv, FileSetInv, CloneInv
  <1> QED
    BY <1>2 DEF FileSetInv

\* A step of the clone or the host keeps it well formed and loses no
\* commit, no ref and no merged pull request.
Sound ==
  /\ CloneInv'
  /\ FileSetInv'
  /\ Extends(store, store')
  /\ \A r \in RefNames : refs[r] # 0 => refs'[r] # 0 /\ refs[r] \in store'[refs'[r]].anc
  /\ remote.branch # 0 => remote'.branch # 0 /\ remote.branch \in store'[remote'.branch].anc

\* A ref of the invariant names a commit, which is its own ancestor.
LEMMA RefFacts ==
    ASSUME SourceInv
    PROVE  /\ Len(store) \in Nat /\ DOMAIN store = 1..Len(store)
           /\ \A i \in DOMAIN store : i \in store[i].anc /\ DOMAIN store[i].tree = Paths
           /\ refs.default \in DOMAIN store /\ remote.default \in DOMAIN store /\ track.default \in DOMAIN store
           /\ refs.branch # 0 => refs.branch \in DOMAIN store
           /\ remote.branch # 0 => remote.branch \in DOMAIN store
           /\ HEAD \in DOMAIN store /\ DOMAIN HeadTree = Paths
           /\ head \in RefNames /\ DOMAIN refs = RefNames
  <1>1. IsSeq(store) /\ \A i \in DOMAIN store : CommitOK(store, i)
    BY DEF SourceInv, CloneInv, StoreOK
  <1>2. Len(store) \in Nat /\ DOMAIN store = 1..Len(store)
    BY <1>1, SeqFacts
  <1>3. RefsOK(refs) /\ RefsOK(track) /\ RefsOK(remote) /\ head \in RefNames /\ HEAD # 0
    BY DEF SourceInv, CloneInv
  <1>4. HEAD \in DOMAIN store
    BY <1>2, <1>3 DEF RefsOK, HEAD, RefNames
  <1>5. \A i \in DOMAIN store : i \in store[i].anc /\ DOMAIN store[i].tree = Paths
    BY <1>1 DEF CommitOK
  <1> QED
    BY <1>2, <1>3, <1>4, <1>5 DEF RefsOK, HeadTree

\* A step that moves refs and the working tree among existing commits.
LEMMA SoundMove ==
    ASSUME SourceInv, store' = store,
           DOMAIN refs' = RefNames,
           refs'.branch \in {0} \cup DOMAIN store, refs'.default \in DOMAIN store,
           \A r \in RefNames : refs[r] # 0 => refs'[r] # 0 /\ refs[r] \in store[refs'[r]].anc,
           RefsOK(track'), RefsOK(remote'),
           remote.branch # 0 => remote'.branch # 0 /\ remote.branch \in store[remote'.branch].anc,
           head' \in RefNames, refs'[head'] # 0,
           DOMAIN wt' = Paths, DOMAIN index' = Paths
    PROVE  Sound
  <1>1. CloneInv'
    <2>1. RefsOK(track)' /\ RefsOK(remote)' /\ RefsOK(refs)'
      BY RefFacts DEF RefsOK
    <2>2. StoreOK(store')
      BY DEF SourceInv, CloneInv
    <2> QED
      BY <2>1, <2>2 DEF CloneInv, HEAD
  <1>2. FileSetInv' /\ Extends(store, store')
    BY DEF FileSetInv, Extends, OfFileSet, SourceInv
  <1> QED
    BY <1>1, <1>2 DEF Sound

\* A commit of others on a branch of the remote.
LEMMA SoundRemoteGets ==
    ASSUME SourceInv, NEW name \in RefNames, NEW parents, NEW tree, DOMAIN tree = Paths,
           remote[name] # 0,
           RemoteGets(name, parents, tree),
           \/ parents = <<remote[name]>>
           \/ \E b \in DOMAIN store : parents = <<remote[name], b>>
    PROVE  Sound
  <1> DEFINE c == Commit(store, parents, tree, "remote")
             n == Len(store) + 1
  <1>0. StoreOK(store) /\ remote[name] \in DOMAIN store
    BY RefFacts DEF SourceInv, CloneInv, RefNames
  <1>1. store' = Append(store, c) /\ remote' = [remote EXCEPT ![name] = n]
    BY DEF RemoteGets
  <1>2. Grown(store, store', c) /\ c.by = "remote" /\ remote[name] \in c.anc
    <2> DEFINE a == remote[name]
    <2>1. CASE parents = <<a>>
      <3>1. Grown(store, store', c) /\ CommitIs(c, <<a>>, tree, "remote") /\ a \in c.anc
        BY <1>0, <1>1, <2>1, OneParent
      <3> QED
        BY <3>1 DEF CommitIs
    <2>2. ASSUME NEW b \in DOMAIN store, parents = <<a, b>>
          PROVE  Grown(store, store', c) /\ c.by = "remote" /\ a \in c.anc
      <3>1. Grown(store, store', c) /\ CommitIs(c, <<a, b>>, tree, "remote") /\ a \in c.anc
        BY <1>0, <1>1, <2>2, TwoParents
      <3> QED
        BY <3>1 DEF CommitIs
    <2> QED
      BY <2>1, <2>2
  <1> HIDE DEF c
  <1>3. FileSetInv'
    <2>1. OfFileSet(store', n)
      BY <1>2 DEF OfFileSet, Grown
    <2> QED
      BY <1>2, <2>1, GrownFileSet
  <1>4. UNCHANGED <<refs, track, head, wt, index>>
    BY DEF RemoteGets, cloneVars
  <1>5. RefsOK(remote)' /\ RefsOK(refs)' /\ RefsOK(track)'
    BY <1>1, <1>2, <1>4 DEF SourceInv, CloneInv, RefsOK, RefNames, Grown
  <1>6. CloneInv'
    BY <1>2, <1>4, <1>5 DEF SourceInv, CloneInv, Grown, HEAD
  <1>7. Extends(store, store') /\ store'[n] = c /\ n \in Nat /\ n # 0 /\ DOMAIN store' = 1..n
    BY <1>2 DEF Grown
  <1>8. \A r \in RefNames : refs[r] # 0 => refs'[r] # 0 /\ refs[r] \in store'[refs'[r]].anc
    BY <1>4, <1>7, RefFacts DEF Extends, RefNames
  <1>9. remote.branch # 0 => remote'.branch # 0 /\ remote.branch \in store'[remote'.branch].anc
    <2>1. CASE name = "branch"
      BY <1>1, <1>2, <1>7, <2>1 DEF SourceInv, CloneInv, RefsOK, RefNames
    <2>2. CASE name = "default"
      BY <1>1, <1>7, <2>2, RefFacts DEF SourceInv, CloneInv, RefsOK, RefNames, Extends
    <2> QED
      BY <2>1, <2>2 DEF RefNames
  <1> QED
    BY <1>3, <1>6, <1>7, <1>8, <1>9 DEF Sound

\* A local commit on the branch that HEAD names.
LEMMA SoundLocalCommit ==
    ASSUME SourceInv, NEW name \in RefNames, NEW c,
           Grown(store, store', c), OfFileSet(store', Len(store) + 1),
           refs[name] # 0 => refs[name] \in c.anc,
           refs' = [refs EXCEPT ![name] = Len(store) + 1],
           UNCHANGED <<track, remote, head>>,
           DOMAIN wt' = Paths, DOMAIN index' = Paths
    PROVE  Sound
  <1> DEFINE n == Len(store) + 1
  <1>1. FileSetInv'
    BY GrownFileSet
  <1>2. Extends(store, store') /\ store'[n] = c /\ n \in Nat /\ n # 0 /\ DOMAIN store' = 1..n /\ StoreOK(store')
    BY DEF Grown
  <1>3. RefsOK(remote)' /\ RefsOK(track)'
    BY DEF SourceInv, CloneInv, RefsOK, RefNames, Grown
  <1>4. RefsOK(refs)'
    BY DEF SourceInv, CloneInv, RefsOK, RefNames, Grown
  <1>5. HEAD' # 0
    BY <1>2 DEF SourceInv, CloneInv, RefsOK, HEAD
  <1>6. CloneInv'
    BY <1>2, <1>3, <1>4, <1>5 DEF SourceInv, CloneInv
  <1>7. ASSUME NEW r \in RefNames, refs[r] # 0
        PROVE  refs'[r] # 0 /\ refs[r] \in store'[refs'[r]].anc
    <2>1. CASE r = name
      BY <1>2, <1>7, <2>1 DEF SourceInv, CloneInv, RefsOK
    <2>2. CASE r # name
      BY <1>2, <1>7, <2>2, RefFacts DEF Extends, RefNames
    <2> QED
      BY <2>1, <2>2
  <1>8. remote.branch # 0 => remote'.branch # 0 /\ remote.branch \in store'[remote'.branch].anc
    BY <1>2, RefFacts DEF Extends
  <1> QED
    BY <1>1, <1>2, <1>6, <1>7, <1>8 DEF Sound

\* A step that leaves the clone's refs and the remote as they are; a fetch
\* may move the tracking refs.
LEMMA SoundStill ==
    ASSUME SourceInv, UNCHANGED <<store, refs, remote, head>>, track' \in {track, remote},
           DOMAIN wt' = Paths, DOMAIN index' = Paths
    PROVE  Sound
  <1>1. RefsOK(track') /\ RefsOK(remote')
    BY DEF SourceInv, CloneInv
  <1>2. refs.branch \in {0} \cup DOMAIN store /\ refs.default \in DOMAIN store /\ DOMAIN refs = RefNames
    BY RefFacts DEF SourceInv, CloneInv, RefsOK
  <1>3. \A r \in RefNames : refs[r] # 0 => refs[r] \in store[refs[r]].anc
    BY <1>2, RefFacts DEF RefNames
  <1>4. remote.branch # 0 => remote.branch \in store[remote.branch].anc
    BY RefFacts
  <1>5. head \in RefNames /\ refs[head] # 0
    BY DEF SourceInv, CloneInv, HEAD
  <1> QED
    BY <1>1, <1>2, <1>3, <1>4, <1>5, SoundMove

\* git merge adds a commit to the branch that is checked out, or leaves a
\* conflict in the working tree.
LEMMA SoundJoin ==
    ASSUME SourceInv, NEW by \in {"user", "refresh"}, JoinClean(by) \/ JoinClash,
           UNCHANGED <<track, remote, head>>
    PROVE  Sound
  <1> DEFINE tree == Joined
             c == Commit(store, <<HEAD, Theirs>>, tree, by)
  <1>1. StoreOK(store) /\ HEAD \in DOMAIN store /\ Theirs \in DOMAIN store /\ head \in RefNames
    BY RefFacts DEF SourceInv, CloneInv, Theirs
  <1>2. DOMAIN Joined = Paths
    BY DEF Joined, MergeTree
  <1>3. CASE JoinClash
    <2>1. UNCHANGED <<store, refs>> /\ DOMAIN wt' = Paths /\ index' = Joined
      BY <1>3 DEF JoinClash
    <2> QED
      BY <1>2, <2>1, SoundStill
  <1>4. CASE JoinClean(by)
    <2>1. /\ store' = Append(store, c)
          /\ refs' = [refs EXCEPT ![head] = Len(store) + 1]
          /\ wt' = Moved(HeadTree, tree, wt)
          /\ index' = tree
      BY <1>4 DEF JoinClean
    <2>2. DOMAIN wt' = Paths /\ DOMAIN index' = Paths
      BY <1>2, <2>1 DEF Moved
    <2> HIDE DEF tree
    <2>3. Grown(store, store', c) /\ CommitIs(c, <<HEAD, Theirs>>, tree, by) /\ HEAD \in c.anc
      BY <1>1, <1>2, <2>1, TwoParents DEF tree
    <2> HIDE DEF c
    <2>4. OfFileSet(store', Len(store) + 1)
      BY <2>3 DEF OfFileSet, Grown, CommitIs
    <2>5. refs[head] # 0 => refs[head] \in c.anc
      BY <2>3 DEF HEAD
    <2> QED
      BY <1>1, <2>1, <2>2, <2>3, <2>4, <2>5, SoundLocalCommit
  <1> QED
    BY <1>3, <1>4

\* The acts of the user and of the session's ears-manager.
LEMMA SoundUser ==
    ASSUME SourceInv,
           \/ EarsPut \/ EarsUpdateBase \/ EarsProjectInit \/ HandEdit \/ UserStages
           \/ UserDiscards \/ UserMerges \/ UserCommits \/ UserSwitches \/ UserMovesRefs
    PROVE  Sound
  <1>0. DOMAIN wt = Paths /\ DOMAIN index = Paths
    BY DEF SourceInv, CloneInv
  <1>1. CASE EarsPut \/ EarsUpdateBase \/ EarsProjectInit \/ HandEdit
    <2>1. UNCHANGED <<store, refs, remote, head, track, index>>
      BY <1>1 DEF EarsPut, EarsUpdateBase, EarsProjectInit, HandEdit, WorkOnly, Undisturbed, hostVars
    <2>2. DOMAIN wt' = Paths
      BY <1>0, <1>1 DEF EarsPut, EarsUpdateBase, EarsProjectInit, HandEdit
    <2> QED
      BY <1>0, <2>1, <2>2, SoundStill
  <1>2. CASE UserStages
    <2>1. UNCHANGED <<store, refs, remote, head, track, wt>>
      BY <1>2 DEF UserStages, Undisturbed, hostVars
    <2>2. DOMAIN index' = Paths
      BY <1>0, <1>2 DEF UserStages
    <2> QED
      BY <1>0, <2>1, <2>2, SoundStill
  <1>3. CASE UserDiscards
    <2>1. UNCHANGED <<store, refs, remote, head, track>>
      BY <1>3 DEF UserDiscards, Undisturbed, hostVars
    <2>2. DOMAIN wt' = Paths /\ DOMAIN index' = Paths
      BY <1>3, RefFacts DEF UserDiscards
    <2> QED
      BY <2>1, <2>2, SoundStill
  <1>4. CASE UserCommits
    <2> DEFINE parents == IF merging = 0 THEN <<HEAD>> ELSE <<HEAD, merging>>
               c == Commit(store, parents, index, "user")
    <2>1. /\ store' = Append(store, c) /\ refs' = [refs EXCEPT ![head] = Len(store) + 1]
          /\ UNCHANGED <<track, remote, head, wt, index>>
      BY <1>4 DEF UserCommits, Undisturbed, hostVars
    <2>2. StoreOK(store) /\ HEAD \in DOMAIN store
      BY RefFacts DEF SourceInv, CloneInv
    <2>3. Grown(store, store', c) /\ c.by = "user" /\ HEAD \in c.anc
      <3>1. CASE merging = 0
        <4>1. Grown(store, store', c) /\ CommitIs(c, <<HEAD>>, index, "user") /\ HEAD \in c.anc
          BY <1>0, <2>1, <2>2, <3>1, OneParent
        <4> QED
          BY <4>1 DEF CommitIs
      <3>2. CASE merging # 0
        <4>1. merging \in DOMAIN store
          BY <3>2, RefFacts DEF SourceInv, MergeInv
        <4>2. Grown(store, store', c) /\ CommitIs(c, <<HEAD, merging>>, index, "user") /\ HEAD \in c.anc
          BY <1>0, <2>1, <2>2, <3>2, <4>1, TwoParents
        <4> QED
          BY <4>2 DEF CommitIs
      <3> QED
        BY <3>1, <3>2
    <2> HIDE DEF c
    <2>4. OfFileSet(store', Len(store) + 1)
      BY <2>3 DEF OfFileSet, Grown
    <2> QED
      BY <1>0, <2>1, <2>3, <2>4, SoundLocalCommit DEF SourceInv, CloneInv, HEAD
  <1>5. CASE UserSwitches
    <2>1. PICK other \in {"branch", "default"} \ {head} :
            /\ refs[other] # 0 /\ head' = other
            /\ wt' = Moved(HeadTree, store[refs[other]].tree, wt)
            /\ index' = Moved(HeadTree, store[refs[other]].tree, index)
      BY <1>5 DEF UserSwitches
    <2>2. UNCHANGED <<store, refs, remote, track>>
      BY <1>5 DEF UserSwitches, Undisturbed, hostVars
    <2>3. DOMAIN wt' = Paths /\ DOMAIN index' = Paths
      BY <2>1 DEF Moved
    <2>4. head' \in RefNames /\ refs'[head'] # 0
      BY <2>1, <2>2 DEF RefNames
    <2>5. RefsOK(track') /\ RefsOK(remote') /\ DOMAIN refs' = RefNames
      BY <2>2 DEF SourceInv, CloneInv, RefsOK
    <2>6. \A r \in RefNames : refs[r] # 0 => refs'[r] # 0 /\ refs[r] \in store[refs'[r]].anc
      BY <2>2, RefFacts DEF RefNames
    <2> QED
      BY <2>2, <2>3, <2>4, <2>5, <2>6, RefFacts, SoundMove
  <1>6. CASE UserMovesRefs
    <2>1. UNCHANGED <<store, remote, head, wt, index>>
      BY <1>6 DEF UserMovesRefs, hostVars
    <2>2. \/ track' = remote /\ refs' = refs
          \/ track' = remote /\ IsAncestor(store, refs.default, remote.default)
             /\ refs' = [refs EXCEPT !.default = remote.default]
          \/ track' = track /\ refs.branch = 0 /\ refs' = [refs EXCEPT !.branch = refs.default]
      BY <1>6 DEF UserMovesRefs
    <2>3. DOMAIN refs' = RefNames /\ refs'.branch \in {0} \cup DOMAIN store /\ refs'.default \in DOMAIN store
      BY <2>2, RefFacts DEF RefNames
    <2>4. \A r \in RefNames : refs[r] # 0 => refs'[r] # 0 /\ refs[r] \in store[refs'[r]].anc
      BY <2>2, RefFacts DEF RefNames, IsAncestor
    <2>5. head' \in RefNames /\ refs'[head'] # 0
      BY <2>1, <2>4 DEF SourceInv, CloneInv, HEAD
    <2>6. RefsOK(track') /\ RefsOK(remote')
      BY <2>1, <2>2 DEF SourceInv, CloneInv
    <2> QED
      BY <1>0, <2>1, <2>3, <2>4, <2>5, <2>6, RefFacts, SoundMove
  <1>7. CASE UserMerges
    BY <1>7, SoundJoin DEF UserMerges, Undisturbed, hostVars
  <1> QED
    BY <1>1, <1>2, <1>3, <1>4, <1>5, <1>6, <1>7

\* The acts of colleagues and reviewers.
LEMMA SoundRemote ==
    ASSUME SourceInv, DefaultMoves \/ ColleaguePushes \/ Land \/ Reland \/ ClosePull
    PROVE  Sound
  <1>0. DOMAIN wt = Paths /\ DOMAIN index = Paths
    BY DEF SourceInv, CloneInv
  <1>1. CASE DefaultMoves
    <2> DEFINE old == store[remote.default].tree
               code == [old EXCEPT !.oth = Len(store) + 1]
               spec == [old EXCEPT !.art = [kind |-> "file", blob |-> 3], !.cfg = 4]
               reverted == [old EXCEPT !.man = NoManifest]
    <2>1. \/ RemoteGets("default", <<remote.default>>, code)
          \/ RemoteGets("default", <<remote.default>>, spec)
          \/ RemoteGets("default", <<remote.default>>, reverted)
      BY <1>1 DEF DefaultMoves
    <2>2. DOMAIN code = Paths /\ DOMAIN spec = Paths /\ DOMAIN reverted = Paths
      BY RefFacts
    <2>3. PICK tree : RemoteGets("default", <<remote.default>>, tree) /\ DOMAIN tree = Paths
      <3> HIDE DEF code, spec, reverted
      <3> QED
        BY <2>1, <2>2
    <2>4. remote["default"] # 0
      BY DEF SourceInv, CloneInv, RefsOK
    <2> QED
      BY <2>3, <2>4, SoundRemoteGets DEF RefNames
  <1>2. CASE ColleaguePushes
    <2>1. PICK tree : RemoteGets("branch", <<remote.branch>>, tree) /\ DOMAIN tree = Paths
      BY <1>2, RefFacts DEF ColleaguePushes
    <2>2. remote["branch"] # 0
      BY <1>2 DEF ColleaguePushes
    <2> QED
      BY <2>1, <2>2, SoundRemoteGets DEF RefNames
  <1>3. CASE Land
    <2> DEFINE base == store[MergeBase(store, remote.branch, remote.default)].tree
               merged == MergeTree(base, store[remote.default].tree, store[remote.branch].tree)
    <2>1. \/ RemoteGets("default", <<remote.default, remote.branch>>, merged)
          \/ RemoteGets("default", <<remote.default>>, merged)
      BY <1>3 DEF Land
    <2>2. DOMAIN merged = Paths
      BY DEF MergeTree
    <2>3. PICK tree : /\ DOMAIN tree = Paths
                      /\ \/ RemoteGets("default", <<remote.default, remote.branch>>, tree)
                         \/ RemoteGets("default", <<remote.default>>, tree)
      <3> HIDE DEF merged
      <3> QED
        BY <2>1, <2>2
    <2>4. remote.branch # 0
      BY <1>3, Zenon DEF Land
    <2>5. remote["default"] # 0 /\ remote.branch \in DOMAIN store
      BY <2>4, RefFacts DEF SourceInv, CloneInv, RefsOK
    <2>6. CASE RemoteGets("default", <<remote.default>>, tree)
      BY <2>3, <2>5, <2>6, SoundRemoteGets DEF RefNames
    <2>7. CASE RemoteGets("default", <<remote.default, remote.branch>>, tree)
      BY <2>3, <2>5, <2>7, SoundRemoteGets DEF RefNames
    <2> QED
      BY <2>3, <2>6, <2>7
  <1>4. CASE Reland
    <2> DEFINE again == [store[remote.default].tree EXCEPT !.man = store[remote.branch].tree.man]
               one == Commit(store, <<remote.default>>, again, "remote")
               fixed == Append(store, one)
               d == remote.default
               e == Len(fixed)
               two == Commit(fixed, <<d, e>>, again, "remote")
    <2>1. /\ store' = Append(fixed, two)
          /\ remote' = [remote EXCEPT !.default = Len(store) + 2]
          /\ UNCHANGED <<refs, track, head, wt, index>>
      BY <1>4 DEF Reland, cloneVars
    <2>2. StoreOK(store) /\ d \in DOMAIN store /\ DOMAIN again = Paths
      BY RefFacts DEF SourceInv, CloneInv
    <2> HIDE DEF again
    <2>3. Grown(store, fixed, one) /\ CommitIs(one, <<d>>, again, "remote")
      BY <2>2, OneParent
    <2> HIDE DEF one, fixed
    <2>4. StoreOK(fixed) /\ d \in DOMAIN fixed /\ e \in DOMAIN fixed /\ e = Len(store) + 1
      BY <2>2, <2>3 DEF Grown, Extends
    <2> HIDE DEF e, d
    <2>5. Grown(fixed, store', two) /\ CommitIs(two, <<d, e>>, again, "remote")
      BY <2>1, <2>2, <2>4, TwoParents
    <2> HIDE DEF two
    <2> DEFINE n == Len(store) + 2
    <2>6. /\ StoreOK(store') /\ Extends(store, store') /\ Len(store) \in Nat /\ Len(store') = n
          /\ DOMAIN store = 1..Len(store) /\ DOMAIN store' = 1..n
      BY <2>3, <2>5 DEF Grown, Extends
    <2>7. FileSetInv'
      <3>1. OfFileSet(fixed, Len(store) + 1) /\ OfFileSet(store', Len(fixed) + 1)
        BY <2>3, <2>5 DEF OfFileSet, Grown, CommitIs
      <3>2. \A i \in DOMAIN fixed : OfFileSet(fixed, i)
        <4>1. Extends(store, fixed) /\ DOMAIN fixed = DOMAIN store \cup {Len(store) + 1}
          BY <2>3 DEF Grown
        <4>2. \A i \in DOMAIN store : OfFileSet(store, i)
          BY DEF SourceInv, FileSetInv
        <4> QED
          BY <2>2, <3>1, <4>1, <4>2, FileSetKept
      <3>3. \A i \in DOMAIN store' : OfFileSet(store', i)
        <4>1. Extends(fixed, store') /\ DOMAIN store' = DOMAIN fixed \cup {Len(fixed) + 1}
          BY <2>5 DEF Grown
        <4> QED
          BY <2>4, <3>1, <3>2, <4>1, FileSetKept
      <3> QED
        BY <3>3 DEF FileSetInv
    <2>8. RefsOK(remote)' /\ RefsOK(refs)' /\ RefsOK(track)'
      BY <2>1, <2>6 DEF SourceInv, CloneInv, RefsOK, RefNames
    <2>9. CloneInv'
      BY <2>1, <2>6, <2>8 DEF SourceInv, CloneInv, HEAD
    <2>10. \A r \in RefNames : refs[r] # 0 => refs'[r] # 0 /\ refs[r] \in store'[refs'[r]].anc
      BY <2>1, <2>6, RefFacts DEF Extends, RefNames
    <2>11. remote.branch # 0 => remote'.branch # 0 /\ remote.branch \in store'[remote'.branch].anc
      BY <2>1, <2>6, RefFacts DEF Extends, RefsOK, SourceInv, CloneInv
    <2> QED
      BY <2>6, <2>7, <2>9, <2>10, <2>11 DEF Sound
  <1>5. CASE ClosePull
    <2>1. UNCHANGED <<store, refs, remote, head, track, wt, index>>
      BY <1>5 DEF ClosePull, cloneVars
    <2> QED
      BY <1>0, <2>1, SoundStill
  <1> QED
    BY <1>1, <1>2, <1>3, <1>4, <1>5

\* Whatever others do, the clone and the host stay sound.
LEMMA SoundOthers ==
    ASSUME SourceInv, Others
    PROVE  Sound
  BY SoundUser, SoundRemote DEF Others

\* The steps of a call that touch neither the clone nor the host, but for
\* the tracking refs that a fetch moves.
QuietStep ==
  \/ StartCommit \/ StartPublish \/ StartRefresh \/ StartRepoState
  \/ StartBranchInit \/ StartBranchResume \/ StartApprovedMerge
  \/ Fetch
  \/ deriveFileSet \/ RecordContent \/ digestCheck \/ stageContent
  \/ compareWithHead \/ findPullRequest \/ checkBase \/ renderBody
  \/ checkClean \/ readHeads \/ mergedAsChecked \/ mergeFailure \/ failedMergeHead \/ abortedHead
  \/ fastForwardDefault \/ branchInit
  \/ approvedMerge \/ FindMerged

\* They leave everything of the clone and the host in place.
LEMMA QuietEffect ==
    ASSUME QuietStep
    PROVE  /\ UNCHANGED <<store, refs, head, wt, index, merging, unmerged, remote, pulls>>
           /\ track' \in {track, remote}
           /\ approved' = approved \/ FindMerged
  <1>1. CASE \/ StartCommit \/ StartPublish \/ StartRefresh \/ StartRepoState
             \/ StartBranchInit \/ StartBranchResume \/ StartApprovedMerge
    <2>1. UnchangedButCall
      BY <1>1 DEF StartCommit, StartPublish, StartRefresh, StartRepoState, StartBranchInit,
                  StartBranchResume, StartApprovedMerge
    <2> QED
      BY <2>1 DEF UnchangedButCall, cloneVars, hostVars
  <1>2. CASE Fetch
    BY <1>2 DEF Fetch, cloneVars, hostVars
  <1>3. CASE \/ deriveFileSet \/ RecordContent \/ digestCheck \/ stageContent
    <2>1. UnchangedButCall
      BY <1>3 DEF deriveFileSet, RecordContent, digestCheck, stageContent
    <2> QED
      BY <2>1 DEF UnchangedButCall, cloneVars, hostVars
  <1>4. CASE \/ compareWithHead \/ findPullRequest \/ checkBase \/ renderBody
    <2>1. UnchangedButCall
      BY <1>4 DEF compareWithHead, findPullRequest, checkBase, renderBody
    <2> QED
      BY <2>1 DEF UnchangedButCall, cloneVars, hostVars
  <1>5. CASE \/ checkClean \/ readHeads \/ mergedAsChecked \/ mergeFailure \/ failedMergeHead \/ abortedHead
             \/ fastForwardDefault \/ branchInit \/ approvedMerge
    <2>1. UnchangedButCall
      BY <1>5 DEF checkClean, readHeads, mergedAsChecked, mergeFailure, failedMergeHead, abortedHead,
                  fastForwardDefault, branchInit, approvedMerge
    <2> QED
      BY <2>1 DEF UnchangedButCall, cloneVars, hostVars
  <1>6. CASE FindMerged
    BY <1>6 DEF FindMerged, cloneVars, hostVars
  <1> QED
    BY <1>1, <1>2, <1>3, <1>4, <1>5, <1>6 DEF QuietStep

\* The commit of the SCM changes nothing outside the file set: it keeps
\* every path it did not choose, and the artifact was seen as a regular
\* file when it was staged.
LEMMA SoundWriteCommit ==
    ASSUME SourceInv, writeCommit
    PROVE  Sound
  <1> DEFINE parent == store[call.head].tree
             tree == [p \in Paths |-> IF p \in call.paths THEN call.seen[p] ELSE parent[p]]
             c == Commit(store, <<call.head>>, tree, "commit")
             n == Len(store) + 1
  <1>0. /\ DOMAIN wt = Paths /\ DOMAIN index = Paths /\ StoreOK(store)
        /\ call.op = "commit" /\ call.pc = "write" /\ call.head \in DOMAIN store
        /\ "oth" \notin call.paths /\ ("art" \in call.paths => call.seen.art.kind = "file")
    BY DEF writeCommit, At, SourceInv, CallInv, CloneInv
  <1>1. UNCHANGED <<track, remote, head, wt>>
    BY DEF writeCommit
  <1>2. CASE ~BranchUnmoved
    <2>1. UNCHANGED <<store, refs, index>>
      BY <1>2 DEF writeCommit
    <2> QED
      BY <1>0, <1>1, <2>1, SoundStill
  <1>3. CASE BranchUnmoved
    <2>1. store' = Append(store, c) /\ refs' = [refs EXCEPT !.branch = n]
      BY <1>3 DEF writeCommit
    <2>2. index' = index \/ index' = [p \in Paths |-> IF p \in call.paths
                                                      THEN store'[refs'[head]].tree[p] ELSE index[p]]
      BY <1>3 DEF writeCommit
    <2>3. DOMAIN index' = Paths
      BY <1>0, <2>2
    <2>4. DOMAIN tree = Paths /\ tree["oth"] = parent["oth"]
          /\ (tree["art"] # parent["art"] => tree["art"] = call.seen["art"] /\ "art" \in call.paths)
      BY <1>0 DEF Paths
    <2>5. tree.oth = parent.oth /\ (tree.art # parent.art => tree.art.kind = "file")
      BY <1>0, <2>4
    <2> HIDE DEF tree
    <2>6. Grown(store, store', c) /\ CommitIs(c, <<call.head>>, tree, "commit") /\ call.head \in c.anc
      BY <1>0, <2>1, <2>4, OneParent
    <2> HIDE DEF c
    <2>7. OfFileSet(store', n)
      <3>1. store'[n] = c /\ store'[call.head] = store[call.head]
        BY <1>0, <2>6 DEF Grown, Extends
      <3>2. c.parents # <<>> /\ c.parents[1] = call.head /\ c.tree = tree
        BY <2>6 DEF CommitIs
      <3> QED
        BY <2>5, <3>1, <3>2 DEF OfFileSet
    <2>8. refs["branch"] # 0 => refs["branch"] \in c.anc
      BY <1>3, <2>6 DEF BranchUnmoved
    <2> QED
      BY <1>0, <1>1, <2>1, <2>3, <2>6, <2>7, <2>8, SoundLocalCommit DEF RefNames
  <1> QED
    BY <1>2, <1>3

\* A push only adds commits to the branch of the remote.
LEMMA SoundPush ==
    ASSUME SourceInv, push
    PROVE  Sound
  <1>1. UNCHANGED <<store, refs, head, wt, index>>
    BY DEF push, cloneVars
  <1>2. DOMAIN wt = Paths /\ DOMAIN index = Paths /\ refs.branch # 0
    BY DEF push, At, SourceInv, CallInv, CloneInv
  <1>3. \/ UNCHANGED <<remote, track>>
        \/ /\ remote.branch = 0 \/ IsAncestor(store, remote.branch, refs.branch)
           /\ remote' = [remote EXCEPT !.branch = refs.branch]
           /\ track' = track \/ track' = [track EXCEPT !.branch = refs.branch]
    BY DEF push
  <1>4. CASE UNCHANGED <<remote, track>>
    BY <1>1, <1>2, <1>4, SoundStill
  <1>5. CASE /\ remote.branch = 0 \/ IsAncestor(store, remote.branch, refs.branch)
             /\ remote' = [remote EXCEPT !.branch = refs.branch]
             /\ track' = track \/ track' = [track EXCEPT !.branch = refs.branch]
    <2>1. RefsOK(track') /\ RefsOK(remote')
      BY <1>5 DEF SourceInv, CloneInv, RefsOK, RefNames
    <2>2. \A r \in RefNames : refs[r] # 0 => refs'[r] # 0 /\ refs[r] \in store[refs'[r]].anc
      BY <1>1, RefFacts DEF RefNames
    <2>3. remote.branch # 0 => remote'.branch # 0 /\ remote.branch \in store[remote'.branch].anc
      BY <1>2, <1>5 DEF IsAncestor, SourceInv, CloneInv, RefsOK, RefNames
    <2>4. head' \in RefNames /\ refs'[head'] # 0 /\ DOMAIN refs' = RefNames
      BY <1>1 DEF SourceInv, CloneInv, HEAD, RefsOK
    <2> QED
      BY <1>1, <1>2, <2>1, <2>2, <2>3, <2>4, RefFacts, SoundMove
  <1> QED
    BY <1>3, <1>4, <1>5

\* git merge and git merge --abort lose no commit.
LEMMA SoundMerge ==
    ASSUME SourceInv, merge \/ abortMerge
    PROVE  Sound
  <1>0. DOMAIN wt = Paths /\ DOMAIN index = Paths /\ DOMAIN HeadTree = Paths
    BY RefFacts DEF SourceInv, CloneInv
  <1>1. UNCHANGED <<track, remote, head>>
    BY DEF merge, abortMerge, hostVars
  <1>2. CASE merge
    <2>1. UNCHANGED <<store, refs, wt, index>> \/ JoinClean("refresh") \/ JoinClash
      BY <1>2 DEF merge, MergeFails
    <2> QED
      BY <1>0, <1>1, <2>1, SoundStill, SoundJoin
  <1>3. CASE abortMerge
    <2>1. UNCHANGED <<store, refs>> /\ DOMAIN wt' = Paths /\ DOMAIN index' = Paths
      BY <1>0, <1>3 DEF abortMerge
    <2> QED
      BY <1>1, <2>1, SoundStill
  <1> QED
    BY <1>2, <1>3

\* The fast-forward moves the default branch, or what is checked out, to a
\* descendant.
LEMMA SoundForward ==
    ASSUME SourceInv, fastForward
    PROVE  Sound
  <1> DEFINE to == store[track.default].tree
  <1>0. /\ DOMAIN wt = Paths /\ DOMAIN index = Paths
        /\ call.pc = "forward" /\ call.target \in DOMAIN store
        /\ ~call.here => IsAncestor(store, call.local, call.target)
    BY DEF fastForward, SourceInv, CloneInv, CallInv
  <1>1. UNCHANGED <<store, track, head, remote>>
    BY DEF fastForward, hostVars
  <1>2. \/ UNCHANGED <<refs, wt, index>>
        \/ /\ ~call.here /\ refs.default = call.local
           /\ refs' = [refs EXCEPT !.default = call.target]
           /\ UNCHANGED <<wt, index>>
        \/ /\ IsAncestor(store, HEAD, track.default)
           /\ refs' = [refs EXCEPT ![head] = track.default]
           /\ wt' = Moved(HeadTree, to, wt) /\ index' = Moved(HeadTree, to, index)
    BY DEF fastForward, SwapDefault
  <1>3. DOMAIN wt' = Paths /\ DOMAIN index' = Paths
    BY <1>0, <1>2 DEF Moved
  <1>4. RefsOK(track') /\ RefsOK(remote')
    BY <1>1 DEF SourceInv, CloneInv
  <1>5. remote.branch # 0 => remote'.branch # 0 /\ remote.branch \in store[remote'.branch].anc
    BY <1>1, RefFacts
  <1>6. /\ DOMAIN refs' = RefNames /\ refs'.branch \in {0} \cup DOMAIN store /\ refs'.default \in DOMAIN store
        /\ \A r \in RefNames : refs[r] # 0 => refs'[r] # 0 /\ refs[r] \in store[refs'[r]].anc
    <2>0. /\ DOMAIN refs = RefNames /\ refs.branch \in {0} \cup DOMAIN store /\ refs.default \in DOMAIN store
          /\ 0 \notin DOMAIN store
      BY RefFacts
    <2>1. CASE UNCHANGED <<refs, wt, index>>
      BY <2>0, <2>1, RefFacts DEF RefNames
    <2>2. CASE /\ ~call.here /\ refs.default = call.local
               /\ refs' = [refs EXCEPT !.default = call.target]
      BY <1>0, <2>0, <2>2, RefFacts DEF RefNames, IsAncestor
    <2>3. CASE /\ IsAncestor(store, HEAD, track.default)
               /\ refs' = [refs EXCEPT ![head] = track.default]
      <3>1. head = "branch" \/ head = "default"
        BY RefFacts DEF RefNames
      <3> QED
        BY <2>0, <2>3, <3>1, RefFacts DEF RefNames, IsAncestor, HEAD
    <2> QED
      BY <1>2, <2>1, <2>2, <2>3
  <1>7. head' \in RefNames /\ refs'[head'] # 0
    BY <1>1, <1>6 DEF SourceInv, CloneInv, HEAD
  <1> QED
    BY <1>1, <1>3, <1>4, <1>5, <1>6, <1>7, SoundMove

\* Cutting the branch and switching to it lose nothing.
LEMMA SoundSwitch ==
    ASSUME SourceInv, cutBranch \/ branchResume
    PROVE  Sound
  <1>0. DOMAIN wt = Paths /\ DOMAIN index = Paths
    BY DEF SourceInv, CloneInv
  <1>1. UNCHANGED <<store, track, remote>>
    BY DEF cutBranch, branchResume, hostVars
  <1>2. \/ UNCHANGED <<refs, head, wt, index>>
        \/ \E to : /\ refs.branch = 0 /\ refs' = [refs EXCEPT !.branch = refs.default]
                   /\ head' = "branch"
                   /\ wt' = Moved(HeadTree, to, wt) /\ index' = Moved(HeadTree, to, index)
        \/ \E to : /\ refs.branch # 0 /\ refs' = refs /\ head' = "branch"
                   /\ wt' = Moved(HeadTree, to, wt) /\ index' = Moved(HeadTree, to, index)
    <2>1. CASE cutBranch
      BY <2>1 DEF cutBranch
    <2>2. CASE branchResume
      <3>1. refs.branch # 0
        BY <2>2 DEF branchResume, At, SourceInv, CallInv
      <3> QED
        BY <2>2, <3>1 DEF branchResume
    <2> QED
      BY <2>1, <2>2
  <1>3. DOMAIN wt' = Paths /\ DOMAIN index' = Paths
    BY <1>0, <1>2 DEF Moved
  <1>4. RefsOK(track') /\ RefsOK(remote')
    BY <1>1 DEF SourceInv, CloneInv
  <1>5. remote.branch # 0 => remote'.branch # 0 /\ remote.branch \in store[remote'.branch].anc
    BY <1>1, RefFacts
  <1>6. refs' = refs \/ (refs.branch = 0 /\ refs' = [refs EXCEPT !.branch = refs.default])
    BY <1>2
  <1>7. /\ DOMAIN refs' = RefNames /\ refs'.branch \in {0} \cup DOMAIN store /\ refs'.default \in DOMAIN store
        /\ \A r \in RefNames : refs[r] # 0 => refs'[r] # 0 /\ refs[r] \in store[refs'[r]].anc
    BY <1>6, RefFacts DEF RefNames
  <1>8. head' \in RefNames /\ refs'[head'] # 0
    <2>1. 0 \notin DOMAIN store /\ refs.default \in DOMAIN store /\ DOMAIN refs = RefNames
      BY RefFacts
    <2>2. CASE UNCHANGED <<refs, head>>
      BY <2>2 DEF SourceInv, CloneInv, HEAD
    <2>3. CASE head' = "branch" /\ (refs'.branch = refs.default \/ (refs.branch # 0 /\ refs' = refs))
      BY <2>1, <2>3 DEF RefNames
    <2> QED
      BY <1>2, <2>1, <2>2, <2>3 DEF RefNames
  <1> QED
    BY <1>1, <1>3, <1>4, <1>5, <1>7, <1>8, SoundMove

\* Every step keeps the clone and the host sound.
LEMMA SoundNext ==
    ASSUME SourceInv, [Next]_vars
    PROVE  Sound
  <1>0. DOMAIN wt = Paths /\ DOMAIN index = Paths
    BY DEF SourceInv, CloneInv
  <1>1. CASE QuietStep
    BY <1>0, <1>1, QuietEffect, SoundStill
  <1>2. CASE requestPullRequest
    <2>1. UNCHANGED <<store, refs, remote, head, track, wt, index>>
      BY <1>2 DEF requestPullRequest, cloneVars
    <2> QED
      BY <1>0, <2>1, SoundStill
  <1>3. CASE UNCHANGED vars
    BY <1>0, <1>3, SoundStill DEF vars
  <1>4. CASE Others
    BY <1>4, SoundOthers
  <1> QED
    BY <1>1, <1>2, <1>3, <1>4, SoundWriteCommit, SoundPush, SoundMerge, SoundForward, SoundSwitch
       DEF Next, Server, QuietStep

----------------------------------------------------------------------------
(* The pull requests *)

\* A step keeps the pull requests well formed and single, never reopens or
\* moves a merged one, and only the request of a publish opens one.
PullsKept ==
  /\ PullInv'
  /\ \A i \in DOMAIN pulls :
       /\ i \in DOMAIN pulls'
       /\ pulls[i].state = "merged" => pulls'[i].state = "merged" /\ pulls'[i].merge = pulls[i].merge
  /\ requestPullRequest \/ (DOMAIN pulls' = DOMAIN pulls /\ (pulls = <<>> => pulls' = <<>>))

\* Pull requests whose elements were replaced by proper ones.
LEMMA PullsReplaced ==
    ASSUME SourceInv, NEW new, pulls' = [i \in DOMAIN pulls |-> new[i]],
           \A i \in DOMAIN pulls :
             /\ PullOK(new[i])
             /\ pulls[i].state = "merged" => new[i].state = "merged" /\ new[i].merge = pulls[i].merge
    PROVE  PullsKept
  <1>1. IsSeq(pulls) /\ Len(pulls) <= 1
    BY DEF SourceInv, PullInv
  <1>2. pulls' = [i \in DOMAIN pulls |-> pulls'[i]]
    OBVIOUS
  <1>3. IsSeq(pulls') /\ Len(pulls') = Len(pulls) /\ DOMAIN pulls' = DOMAIN pulls
    BY <1>1, <1>2, ReplacedSeq
  <1>4. \A i \in DOMAIN pulls' : pulls'[i] = new[i]
    BY <1>3
  <1>5. PullInv'
    BY <1>1, <1>3, <1>4 DEF PullInv, PullOK
  <1>6. pulls = <<>> => pulls' = <<>>
    BY <1>1, <1>3, SeqFacts
  <1> QED
    BY <1>3, <1>4, <1>5, <1>6 DEF PullsKept

\* Pull requests that stay as they are.
LEMMA PullsStay ==
    ASSUME SourceInv, pulls' = pulls
    PROVE  PullsKept
  BY DEF SourceInv, PullInv, PullOK, PullsKept

\* publish opens a pull request only where it found none, and none can have
\* been opened since.
LEMMA PullsRequested ==
    ASSUME SourceInv, requestPullRequest
    PROVE  PullsKept
  <1>1. /\ IsSeq(pulls) /\ Len(pulls) <= 1 /\ \A i \in DOMAIN pulls : PullOK(pulls[i])
        /\ IF call.pull = 0 THEN pulls = <<>> ELSE call.pull \in DOMAIN pulls
    BY DEF SourceInv, PullInv, CallInv, requestPullRequest, At
  <1>2. pulls' = pulls \/ pulls' = Requested
    BY DEF requestPullRequest
  <1>3. CASE pulls' = pulls
    BY <1>3, PullsStay
  <1>4. CASE pulls' = Requested /\ call.pull = 0
    <2> DEFINE e == [state |-> "open", text |-> call.text, merge |-> 0]
    <2>1. pulls = <<>> /\ pulls' = Append(pulls, e)
      BY <1>1, <1>4 DEF Requested
    <2>2. PullOK(e)
      BY DEF PullOK
    <2> HIDE DEF e
    <2>3. IsSeq(pulls') /\ Len(pulls') = Len(pulls) + 1
      BY <1>1, <2>1, AppendFacts
    <2>4. DOMAIN pulls' = 1..(Len(pulls) + 1) /\ pulls'[Len(pulls) + 1] = e
      BY <1>1, <2>1, AppendFacts
    <2>5. Len(pulls) = 0 /\ DOMAIN pulls = {}
      BY <2>1
    <2>6. PullInv'
      BY <2>2, <2>3, <2>4, <2>5 DEF PullInv, PullOK
    <2> QED
      BY <2>5, <2>6 DEF PullsKept
  <1>5. CASE pulls' = Requested /\ call.pull # 0
    <2> DEFINE new == [i \in DOMAIN pulls |->
                         IF i = call.pull THEN [pulls[i] EXCEPT !.text = call.text] ELSE pulls[i]]
    <2>1. pulls' = [pulls EXCEPT ![call.pull].text = call.text] /\ call.pull \in DOMAIN pulls
      BY <1>1, <1>5 DEF Requested
    <2>2. pulls' = [i \in DOMAIN pulls |-> new[i]]
      BY <1>1, <2>1 DEF IsSeq
    <2>3. \A i \in DOMAIN pulls :
            /\ PullOK(new[i])
            /\ pulls[i].state = "merged" => new[i].state = "merged" /\ new[i].merge = pulls[i].merge
      BY <1>1 DEF PullOK
    <2> HIDE DEF new
    <2> QED
      BY <2>2, <2>3, PullsReplaced
  <1> QED
    BY <1>2, <1>3, <1>4, <1>5

\* A landing marks the open pull request merged, a reviewer closes it.
LEMMA PullsOfOthers ==
    ASSUME SourceInv, Land \/ ClosePull
    PROVE  PullsKept
  <1>1. IsSeq(pulls) /\ \A i \in DOMAIN pulls : PullOK(pulls[i])
    BY DEF SourceInv, PullInv
  <1>2. Len(store) + 1 # 0
    BY RefFacts
  <1>3. CASE Land
    <2> DEFINE n == Len(store) + 1
               new == [i \in DOMAIN pulls |->
                         IF pulls[i].state = "open"
                         THEN [pulls[i] EXCEPT !.state = "merged", !.merge = n] ELSE pulls[i]]
    <2>1. pulls' = [i \in DOMAIN pulls |-> new[i]]
      BY <1>3, Zenon DEF Land
    <2> HIDE DEF n
    <2>2. n # 0
      BY <1>2 DEF n
    <2>3. \A i \in DOMAIN pulls :
            /\ PullOK(new[i])
            /\ pulls[i].state = "merged" => new[i].state = "merged" /\ new[i].merge = pulls[i].merge
      BY <1>1, <2>2 DEF PullOK
    <2> HIDE DEF new
    <2> QED
      BY <2>1, <2>3, PullsReplaced
  <1>4. CASE ClosePull
    <2>1. PICK k \in OpenOnly : pulls' = [pulls EXCEPT ![k].state = "closed"]
      BY <1>4 DEF ClosePull
    <2> DEFINE new == [i \in DOMAIN pulls |->
                         IF i = k THEN [pulls[i] EXCEPT !.state = "closed"] ELSE pulls[i]]
    <2>2. k \in DOMAIN pulls /\ pulls[k].state = "open"
      BY DEF OpenOnly
    <2>3. pulls' = [i \in DOMAIN pulls |-> new[i]]
      BY <1>1, <2>1, <2>2 DEF IsSeq
    <2>4. \A i \in DOMAIN pulls :
            /\ PullOK(new[i])
            /\ pulls[i].state = "merged" => new[i].state = "merged" /\ new[i].merge = pulls[i].merge
      BY <1>1, <2>2 DEF PullOK
    <2> HIDE DEF new
    <2> QED
      BY <2>3, <2>4, PullsReplaced
  <1> QED
    BY <1>3, <1>4

\* Every step keeps the pull requests.
LEMMA PullsNext ==
    ASSUME SourceInv, [Next]_vars
    PROVE  PullsKept
  <1>1. CASE QuietStep
    BY <1>1, QuietEffect, PullsStay
  <1>2. CASE writeCommit \/ push \/ merge \/ abortMerge \/ fastForward \/ cutBranch \/ branchResume
    <2>1. pulls' = pulls
      BY <1>2 DEF writeCommit, push, merge, abortMerge, fastForward, cutBranch, branchResume, hostVars
    <2> QED
      BY <2>1, PullsStay
  <1>3. CASE Others /\ ~Land /\ ~ClosePull
    <2>1. pulls' = pulls
      BY <1>3 DEF Others, EarsPut, EarsUpdateBase, EarsProjectInit, HandEdit, UserStages, UserDiscards,
                  UserMerges, UserCommits, UserSwitches, UserMovesRefs, DefaultMoves, ColleaguePushes, Reland,
                  WorkOnly, Undisturbed, hostVars
    <2> QED
      BY <2>1, PullsStay
  <1>4. CASE UNCHANGED vars
    BY <1>4, PullsStay DEF vars
  <1> QED
    BY <1>1, <1>2, <1>3, <1>4, PullsRequested, PullsOfOthers DEF Next, Server, QuietStep, Others

----------------------------------------------------------------------------
(* The merge in progress *)

\* Every step keeps it: a merge that conflicts names a commit, and what ends
\* a merge or adds entries to the index only takes unmerged paths away.
LEMMA MergeNext ==
    ASSUME SourceInv, [Next]_vars
    PROVE  MergeInv'
  <1>0. /\ merging \in 0..Len(store) /\ unmerged \subseteq Paths
        /\ unmerged # {} => merging # 0
    BY DEF SourceInv, MergeInv
  <1>1. Len(store) \in Nat /\ Len(store') \in Nat /\ Len(store) <= Len(store')
    <2>1. IsSeq(store) /\ IsSeq(store') /\ Extends(store, store')
      BY SoundNext DEF Sound, SourceInv, CloneInv, StoreOK
    <2> DEFINE m == Len(store)
               n == Len(store')
    <2>2. /\ m \in Nat /\ DOMAIN store = 1..m
          /\ n \in Nat /\ DOMAIN store' = 1..n
      BY <2>1, SeqFacts
    <2>3. 1..m \subseteq 1..n
      BY <2>1, <2>2 DEF Extends
    <2> HIDE DEF m, n
    <2>4. m <= n
      BY <2>2, <2>3
    <2> QED
      BY <2>2, <2>4 DEF m, n
  <1>2. merging \in 0..Len(store')
    BY <1>0, <1>1
  <1>3. ASSUME JoinClash PROVE MergeInv'
    <2>1. merging' = Theirs /\ unmerged' = Clashing /\ store' = store
      BY <1>3 DEF JoinClash
    <2>2. Theirs \in 1..Len(store)
      BY DEF Theirs, SourceInv, CloneInv, RefsOK
    <2> QED
      BY <1>1, <2>1, <2>2 DEF MergeInv, Clashing, Conflicts
  <1>4. ASSUME merging' = 0, unmerged' = {} PROVE MergeInv'
    BY <1>1, <1>4 DEF MergeInv
  <1>5. ASSUME merging' = merging, unmerged' \subseteq unmerged PROVE MergeInv'
    BY <1>0, <1>2, <1>5 DEF MergeInv
  <1>6. CASE QuietStep
    BY <1>5, <1>6, QuietEffect
  <1>7. CASE writeCommit \/ push \/ requestPullRequest \/ fastForward \/ cutBranch \/ branchResume
    <2>1. merging' = merging /\ unmerged' \subseteq unmerged
      BY <1>7 DEF writeCommit, push, requestPullRequest, fastForward, cutBranch, branchResume, cloneVars
    <2> QED
      BY <1>5, <2>1
  <1>8. CASE merge
    <2>1. UNCHANGED <<merging, unmerged>> \/ JoinClash
      BY <1>8 DEF merge, MergeFails, JoinClean
    <2> QED
      BY <1>3, <1>5, <2>1
  <1>9. CASE abortMerge
    BY <1>4, <1>5, <1>9 DEF abortMerge
  <1>10. CASE UserMerges
    <2>1. UNCHANGED <<merging, unmerged>> \/ JoinClash
      BY <1>10 DEF UserMerges, JoinClean
    <2> QED
      BY <1>3, <1>5, <2>1
  <1>11. CASE UserDiscards \/ UserCommits
    BY <1>4, <1>11 DEF UserDiscards, UserCommits
  <1>12. CASE Others /\ ~UserMerges /\ ~UserDiscards /\ ~UserCommits
    <2>1. merging' = merging /\ unmerged' \subseteq unmerged
      BY <1>12 DEF Others, EarsPut, EarsUpdateBase, EarsProjectInit, HandEdit, UserStages, UserSwitches,
                   UserMovesRefs, DefaultMoves, ColleaguePushes, Land, Reland, ClosePull, WorkOnly,
                   RemoteGets, cloneVars
    <2> QED
      BY <1>5, <2>1
  <1>13. CASE UNCHANGED vars
    BY <1>5, <1>13 DEF vars
  <1> QED
    BY <1>6, <1>7, <1>8, <1>9, <1>10, <1>11, <1>12, <1>13 DEF Next, Server, QuietStep

----------------------------------------------------------------------------
(* What approved_merge has answered *)

\* A merge that added the manifest stays one.
LEMMA AddingMergeStays ==
    ASSUME SourceInv, Sound, NEW c, AddingMerge(c)
    PROVE  AddingMerge(c)'
  <1>1. c \in DOMAIN store /\ CommitOK(store, c) /\ DOMAIN store = 1..Len(store)
    BY SeqFacts DEF AddingMerge, SourceInv, CloneInv, StoreOK
  <1>2. c \in DOMAIN store' /\ store'[c] = store[c]
    BY <1>1 DEF Sound, Extends
  <1>3. store[c].parents # <<>> => store'[store[c].parents[1]] = store[store[c].parents[1]]
    <2>1. store[c].parents # <<>> => 1 \in DOMAIN store[c].parents
      BY <1>1, SeqFacts DEF CommitOK
    <2>2. store[c].parents # <<>> => store[c].parents[1] \in DOMAIN store
      BY <1>1, <2>1 DEF CommitOK
    <2> QED
      BY <2>2 DEF Sound, Extends
  <1> QED
    BY <1>2, <1>3 DEF AddingMerge, AddingCommits

\* An answer is the commit of the one merged pull request, and stays so.
LEMMA ApprovedNext ==
    ASSUME SourceInv, [Next]_vars
    PROVE  ApprovedInv'
  <1>1. Sound /\ PullsKept
    BY SoundNext, PullsNext
  <1>2. \A c \in approved : /\ AddingMerge(c)'
                            /\ \E i \in DOMAIN pulls' : pulls'[i].state = "merged" /\ pulls'[i].merge = c
    <2> SUFFICES ASSUME NEW c \in approved
                 PROVE  /\ AddingMerge(c)'
                        /\ \E i \in DOMAIN pulls' : pulls'[i].state = "merged" /\ pulls'[i].merge = c
      OBVIOUS
    <2>1. AddingMerge(c)
      BY DEF SourceInv, ApprovedInv
    <2>2. AddingMerge(c)'
      BY <1>1, <2>1, AddingMergeStays
    <2>3. PICK i \in DOMAIN pulls : pulls[i].state = "merged" /\ pulls[i].merge = c
      BY DEF SourceInv, ApprovedInv
    <2>4. i \in DOMAIN pulls' /\ pulls'[i].state = "merged" /\ pulls'[i].merge = c
      BY <1>1, <2>3 DEF PullsKept
    <2> QED
      BY <2>2, <2>4
  <1>3. CASE approved' = approved
    BY <1>2, <1>3 DEF ApprovedInv
  <1>4. CASE FindMerged
    <2>1. approved' = approved \/ (HostConfirms(call.head) /\ approved' = approved \cup {call.head})
      BY <1>4 DEF FindMerged
    <2>2. CASE HostConfirms(call.head) /\ approved' = approved \cup {call.head}
      <3>1. Merged # {}
        BY <2>2, FS_EmptySet DEF HostConfirms
      <3>2. PICK i \in Merged : pulls[i].merge = call.head
        BY <2>2, <3>1 DEF HostConfirms
      <3>3. i \in DOMAIN pulls' /\ pulls'[i].state = "merged" /\ pulls'[i].merge = call.head
        BY <1>1, <3>2 DEF Merged, PullsKept
      <3>4. AddingMerge(call.head)
        BY <1>4 DEF FindMerged, At, SourceInv, CallInv
      <3>5. ASSUME NEW c \in approved' PROVE AddingMerge(c)'
        <4>1. CASE c \in approved
          BY <1>2, <4>1
        <4>2. CASE c = call.head
          BY <1>1, <3>4, <4>2, AddingMergeStays
        <4> QED
          BY <2>2, <4>1, <4>2
      <3> QED
        BY <1>2, <2>2, <3>3, <3>5 DEF ApprovedInv
    <2> QED
      BY <1>3, <2>1, <2>2
  <1>5. approved' = approved \/ FindMerged
    <2>1. CASE QuietStep
      BY <2>1, QuietEffect
    <2>2. CASE writeCommit \/ push \/ requestPullRequest \/ merge \/ abortMerge \/ fastForward \/ cutBranch \/ branchResume
      BY <2>2 DEF writeCommit, push, requestPullRequest, merge, abortMerge, fastForward, cutBranch, branchResume
    <2>3. CASE Others
      BY <2>3 DEF Others, EarsPut, EarsUpdateBase, EarsProjectInit, HandEdit, UserStages, UserDiscards,
                  UserMerges, UserCommits, UserSwitches, UserMovesRefs, DefaultMoves, ColleaguePushes, Land, Reland,
                  ClosePull, WorkOnly, Undisturbed, RemoteGets
    <2> QED
      BY <2>1, <2>2, <2>3 DEF Next, Server, QuietStep, vars
  <1> QED
    BY <1>3, <1>4, <1>5

----------------------------------------------------------------------------
(* The running call and its result *)

CallStep == CallInv' /\ ResultInv'

\* The operations that fetch.
LEMMA FetchingOps ==
    DOMAIN AfterFetch = {"publish", "refresh", "repo_state", "branch_init", "approved_merge"}
  BY DEF AfterFetch

\* No call is running.
LEMMA CallIdle ==
    ASSUME call' = Idle
    PROVE  CallInv'
  BY DEF Idle, CallInv

\* Others and refused calls leave the running call as it is.
LEMMA CallKept ==
    ASSUME SourceInv, Sound, PullsKept, ~requestPullRequest, call' = call
    PROVE  CallInv'
  <1>1. CallInv
    BY DEF SourceInv
  <1>2. Extends(store, store') /\ (refs.branch # 0 => refs'.branch # 0)
    BY DEF Sound, RefNames
  <1>3. DOMAIN pulls' = DOMAIN pulls /\ (pulls = <<>> => pulls' = <<>>)
    BY DEF PullsKept
  <1>4. call.pc = "confirm" => AddingMerge(call.head)'
    <2>1. call.pc = "confirm" => AddingMerge(call.head)
      BY <1>1 DEF CallInv
    <2>2. ASSUME NEW h, h = call.head, AddingMerge(h) PROVE AddingMerge(h)'
      BY <2>2, AddingMergeStays
    <2> QED
      BY <2>1, <2>2
  <1>5. call.pc = "forward" /\ ~call.here => IsAncestor(store', call.local, call.target)
    BY <1>1, <1>2 DEF CallInv, Extends, IsAncestor
  <1> QED
    BY <1>1, <1>2, <1>3, <1>4, <1>5 DEF CallInv, Extends

\* The result stays as it is.
LEMMA ResultKept ==
    ASSUME SourceInv, report' = report
    PROVE  ResultInv'
  BY DEF SourceInv, ResultInv, ResultIsHonest

\* A call that is refused at once changed nothing.
LEMMA RefuseStep ==
    ASSUME SourceInv, NEW op, NEW code, Refuse(op, code), Sound, PullsKept, ~requestPullRequest
    PROVE  CallStep
  <1>1. CallInv'
    BY CallKept DEF Refuse
  <1>2. ResultInv'
    BY DEF Refuse, ResultInv, ResultIsHonest
  <1> QED
    BY <1>1, <1>2 DEF CallStep

\* A call that ends says that it changed nothing only if it did not, or
\* read the host's answer as a refusal, and publish names what it pushed.
LEMMA EndStep ==
    ASSUME SourceInv, NEW code, NEW mutation \in {"none", "partial", "applied", "unknown"},
           NEW named, NEW doing, EndDoing(code, mutation, named, doing),
           mutation = "none" => call.did \cup doing \subseteq {"misread"},
           call.op = "publish" /\ mutation = "partial" => call.did \cup doing \subseteq named \cup {"misread"}
    PROVE  CallStep
  <1>1. CallInv'
    BY CallIdle DEF EndDoing
  <1>2. ResultInv'
    BY DEF EndDoing, ResultInv, ResultIsHonest
  <1> QED
    BY <1>1, <1>2 DEF CallStep

\* Before its first effect a call may fail with the mutation none.
LEMMA FailStep ==
    ASSUME SourceInv, NEW code, Fail(code), call.pc \notin {"request", "cut", "joined"}
    PROVE  CallStep
  <1>1. call.did = {}
    BY DEF SourceInv, CallInv
  <1>2. EndDoing(code, "none", {}, {})
    BY DEF Fail, End
  <1> QED
    BY <1>1, <1>2, EndStep

\* The first step of a call.
LEMMA CallStart ==
    ASSUME SourceInv, Sound, PullsKept,
           \/ StartCommit \/ StartPublish \/ StartRefresh \/ StartRepoState
           \/ StartBranchInit \/ StartBranchResume \/ StartApprovedMerge
    PROVE  CallStep
  <1>0. call.op = "none"
    BY DEF StartCommit, StartPublish, StartRefresh, StartRepoState, StartBranchInit,
           StartBranchResume, StartApprovedMerge, Begin
  <1>1. ~requestPullRequest
    BY <1>0 DEF requestPullRequest, At
  <1>2. /\ UNCHANGED <<store, refs, pulls>> /\ HEAD \in DOMAIN store
        /\ head = "branch" => refs.branch # 0
    <2>1. UNCHANGED <<store, refs, pulls>>
      BY QuietEffect DEF QuietStep
    <2> QED
      BY <2>1, RefFacts DEF HEAD
  <1>3. \/ \E op, code : Refuse(op, code)
        \/ Enter("commit", "derive", [Idle EXCEPT !.head = HEAD, !.show = wt.man])
        \/ head = "branch" /\ Enter("publish", "compare", [Idle EXCEPT !.show = wt.man])
        \/ Enter("refresh", "clean", [Idle EXCEPT !.show = wt.man])
        \/ Enter("repo_state", "fetch", Idle)
        \/ Enter("branch_init", "fetch", [Idle EXCEPT !.local = refs.default])
        \/ refs.branch # 0 /\ Enter("branch_resume", "switch", Idle)
        \/ Enter("approved_merge", "fetch", Idle)
    <2>1. CASE StartCommit
      BY <2>1 DEF StartCommit
    <2>2. CASE StartPublish
      BY <2>2 DEF StartPublish, resolveChangeSetBranch
    <2>3. CASE StartRefresh
      BY <2>3 DEF StartRefresh
    <2>4. CASE StartRepoState
      BY <2>4 DEF StartRepoState
    <2>5. CASE StartBranchInit
      BY <2>5 DEF StartBranchInit
    <2>6. CASE StartBranchResume
      BY <2>6 DEF StartBranchResume, resumeRefusal
    <2>7. CASE StartApprovedMerge
      BY <2>7 DEF StartApprovedMerge
    <2> QED
      BY <2>1, <2>2, <2>3, <2>4, <2>5, <2>6, <2>7
  <1>4. CASE \E op, code : Refuse(op, code)
    BY <1>1, <1>4, RefuseStep
  <1>5. CASE Enter("commit", "derive", [Idle EXCEPT !.head = HEAD, !.show = wt.man])
    <2>1. CallInv'
      BY <1>2, <1>5 DEF Enter, Idle, CallInv
    <2> QED
      BY <1>5, <2>1, ResultKept DEF Enter, CallStep
  <1>6. CASE head = "branch" /\ Enter("publish", "compare", [Idle EXCEPT !.show = wt.man])
    <2>1. CallInv'
      BY <1>2, <1>6 DEF Enter, Idle, CallInv
    <2> QED
      BY <1>6, <2>1, ResultKept DEF Enter, CallStep
  <1>7. CASE Enter("refresh", "clean", [Idle EXCEPT !.show = wt.man])
    <2>1. CallInv'
      BY <1>2, <1>7 DEF Enter, Idle, CallInv
    <2> QED
      BY <1>7, <2>1, ResultKept DEF Enter, CallStep
  <1>8. CASE \/ Enter("repo_state", "fetch", Idle)
             \/ Enter("branch_init", "fetch", [Idle EXCEPT !.local = refs.default])
             \/ Enter("approved_merge", "fetch", Idle)
    <2>1. /\ DOMAIN call' = DOMAIN Idle /\ call'.pc = "fetch" /\ report' = report
          /\ call'.op \in {"repo_state", "branch_init", "approved_merge"}
          /\ call'.paths = {} /\ call'.did = {}
      BY <1>8 DEF Enter, Idle
    <2>2. CallInv'
      BY <2>1, FetchingOps DEF CallInv
    <2> QED
      BY <2>1, <2>2, ResultKept DEF CallStep
  <1>9. CASE refs.branch # 0 /\ Enter("branch_resume", "switch", Idle)
    <2>1. CallInv'
      BY <1>2, <1>9 DEF Enter, Idle, CallInv
    <2> QED
      BY <1>9, <2>1, ResultKept DEF Enter, CallStep
  <1> QED
    BY <1>3, <1>4, <1>5, <1>6, <1>7, <1>8, <1>9

\* A fetch reads where the default branch of the remote stands.
LEMMA CallFetch ==
    ASSUME SourceInv, Fetch
    PROVE  CallStep
  <1>0. CallInv /\ call.pc = "fetch" /\ call.op \in DOMAIN AfterFetch /\ call.did = {}
    BY DEF SourceInv, CallInv, Fetch
  <1>1. remote.default \in DOMAIN store /\ track.default \in DOMAIN store
    BY RefFacts
  <1>2. UNCHANGED <<store, refs, pulls>>
    BY DEF Fetch, cloneVars, hostVars
  <1>3. \/ call' = [call EXCEPT !.pc = AfterFetch[call.op], !.target = remote.default] /\ report' = report
        \/ /\ call.op = "repo_state" /\ report' = report
           /\ call' = [call EXCEPT !.pc = "look", !.target = track.default]
        \/ \E code : Fail(code)
    BY DEF Fetch
  <1>4. CASE \E code : Fail(code)
    BY <1>0, <1>4, FailStep
  <1>5. CASE \/ call' = [call EXCEPT !.pc = AfterFetch[call.op], !.target = remote.default] /\ report' = report
             \/ /\ call.op = "repo_state" /\ report' = report
                /\ call' = [call EXCEPT !.pc = "look", !.target = track.default]
    <2>1. AfterFetch[call.op] \in {"find", "heads", "look", "decide", "log"}
      BY <1>0, FetchingOps DEF AfterFetch
    <2>2. /\ DOMAIN call' = DOMAIN Idle /\ report' = report
          /\ call'.pc \in {"find", "heads", "look", "decide", "log"}
          /\ call'.op = call.op /\ call'.target \in DOMAIN store
          /\ call'.paths = call.paths /\ call'.did = call.did /\ call'.head = call.head
          /\ call'.pull = call.pull
      BY <1>0, <1>1, <1>5, <2>1, CallFields DEF CallInv
    <2>3. CallInv'
      BY <1>0, <1>2, <2>2 DEF CallInv
    <2> QED
      BY <2>2, <2>3, ResultKept DEF CallStep
  <1> QED
    BY <1>3, <1>4, <1>5

\* commit: the paths it chooses are of the file set, and the content it
\* stages has a regular artifact.
LEMMA CallCommit ==
    ASSUME SourceInv, deriveFileSet \/ RecordContent \/ digestCheck \/ stageContent
    PROVE  CallStep
  <1>0. /\ CallInv /\ call.op = "commit" /\ call.pc \in {"derive", "record", "check", "stage"}
        /\ call.did = {}
    BY DEF SourceInv, CallInv, deriveFileSet, RecordContent, digestCheck, stageContent, At
  <1>1. UNCHANGED <<store, refs, pulls>>
    BY QuietEffect DEF QuietStep
  <1>2. CASE deriveFileSet
    <2> DEFINE parent == store[call.head].tree
               set == FileSet(setup.init, parent, wt, own(call.show), TRUE)
    <2>1. \/ \E code : Fail(code)
          \/ call' = [call EXCEPT !.pc = "record", !.paths = Changed(parent, wt, set)] /\ report' = report
      BY <1>2 DEF deriveFileSet
    <2>2. Changed(parent, wt, set) \subseteq Paths \ {"oth"}
      BY DEF Changed, FileSet, own, Paths
    <2>3. CASE \E code : Fail(code)
      BY <1>0, <2>3, FailStep
    <2>4. CASE call' = [call EXCEPT !.pc = "record", !.paths = Changed(parent, wt, set)] /\ report' = report
      <3> HIDE DEF set
      <3>1. /\ DOMAIN call' = DOMAIN Idle /\ call'.pc = "record" /\ call'.op = "commit"
            /\ call'.paths \subseteq Paths \ {"oth"} /\ call'.did = {} /\ call'.head = call.head
        BY <1>0, <2>2, <2>4, CallFields DEF CallInv
      <3>2. CallInv'
        BY <1>0, <1>1, <3>1 DEF CallInv
      <3> QED
        BY <2>4, <3>2, ResultKept DEF CallStep
    <2> QED
      BY <2>1, <2>3, <2>4
  <1>3. CASE RecordContent \/ digestCheck
    <2>1. \/ \E code : Fail(code)
          \/ call' = [call EXCEPT !.pc = "check", !.seen = wt] /\ report' = report
          \/ call' = [call EXCEPT !.pc = "stage"] /\ report' = report
      BY <1>3 DEF RecordContent, digestCheck, Goto
    <2>2. CASE \E code : Fail(code)
      BY <1>0, <2>2, FailStep
    <2>3. CASE \/ call' = [call EXCEPT !.pc = "check", !.seen = wt] /\ report' = report
               \/ call' = [call EXCEPT !.pc = "stage"] /\ report' = report
      <3>1. /\ DOMAIN call' = DOMAIN Idle /\ call'.pc \in {"check", "stage"} /\ call'.op = "commit"
            /\ call'.paths = call.paths /\ call'.did = {} /\ call'.head = call.head
        BY <1>0, <2>3, CallFields DEF CallInv
      <3>2. CallInv'
        BY <1>0, <1>1, <3>1 DEF CallInv
      <3> QED
        BY <2>3, <3>2, ResultKept DEF CallStep
    <2> QED
      BY <2>1, <2>2, <2>3
  <1>4. CASE stageContent
    <2>1. \/ \E code : Fail(code)
          \/ /\ \A p \in call.paths : StagedAsSeen(p)
             /\ call' = [call EXCEPT !.pc = "write", !.seen = wt] /\ report' = report
      BY <1>4 DEF stageContent
    <2>2. CASE \E code : Fail(code)
      BY <1>0, <2>2, FailStep
    <2>3. CASE /\ \A p \in call.paths : StagedAsSeen(p)
               /\ call' = [call EXCEPT !.pc = "write", !.seen = wt] /\ report' = report
      <3>1. /\ DOMAIN call' = DOMAIN Idle /\ call'.pc = "write" /\ call'.op = "commit"
            /\ call'.paths = call.paths /\ call'.did = {} /\ call'.head = call.head
            /\ call'.seen = wt
        BY <1>0, <2>3, CallFields DEF CallInv
      <3>2. "art" \in call.paths => wt.art.kind = "file"
        BY <2>3 DEF StagedAsSeen, Regular
      <3>3. CallInv'
        BY <1>0, <1>1, <3>1, <3>2 DEF CallInv
      <3> QED
        BY <2>3, <3>3, ResultKept DEF CallStep
    <2> QED
      BY <2>1, <2>2, <2>3
  <1> QED
    BY <1>2, <1>3, <1>4

\* commit ends with the commit written or with nothing changed.
LEMMA CallWriteCommit ==
    ASSUME SourceInv, writeCommit
    PROVE  CallStep
  <1>0. call.pc = "write"
    BY DEF writeCommit, At
  <1>1. Fail("GIT_FAILED") \/ EndDoing("OK", "applied", {"branch"}, {"branch"})
    BY DEF writeCommit
  <1> QED
    BY <1>0, <1>1, FailStep, EndStep

\* publish: it works on the pull request that exists, or there is none.
LEMMA CallPublish ==
    ASSUME SourceInv, compareWithHead \/ findPullRequest \/ checkBase \/ renderBody
    PROVE  CallStep
  <1>0. /\ CallInv /\ call.op = "publish" /\ call.pc \in {"compare", "find", "base", "render"}
        /\ call.did = {} /\ refs.branch # 0
    BY DEF SourceInv, CallInv, compareWithHead, findPullRequest, checkBase, renderBody, At
  <1>1. UNCHANGED <<store, refs, pulls>>
    BY QuietEffect DEF QuietStep
  <1>2. CASE compareWithHead
    <2>1. (\E code : Fail(code)) \/ (call' = [call EXCEPT !.pc = "fetch"] /\ report' = report)
      BY <1>2 DEF compareWithHead, Goto
    <2>2. CASE \E code : Fail(code)
      BY <1>0, <2>2, FailStep
    <2>3. CASE call' = [call EXCEPT !.pc = "fetch"] /\ report' = report
      <3>1. /\ DOMAIN call' = DOMAIN Idle /\ call'.pc = "fetch" /\ call'.op = "publish"
            /\ call'.paths = call.paths /\ call'.did = {} /\ call'.pull = call.pull
        BY <1>0, <2>3, CallFields DEF CallInv
      <3>2. call.pull = 0
        BY <1>0, <1>2 DEF CallInv, compareWithHead, At
      <3>3. CallInv'
        BY <1>0, <1>1, <3>1, <3>2, FetchingOps DEF CallInv
      <3> QED
        BY <2>3, <3>3, ResultKept DEF CallStep
    <2> QED
      BY <2>1, <2>2, <2>3
  <1>3. CASE findPullRequest
    <2>0. call.pc = "find" /\ IsSeq(pulls) /\ Len(pulls) <= 1
      BY <1>3 DEF findPullRequest, At, SourceInv, PullInv
    <2>1. Find = {} \/ Find = {1}
      <3>1. Len(pulls) \in Nat /\ Find = 1..Len(pulls)
        BY <2>0, SeqFacts DEF Find
      <3>2. Len(pulls) = 0 \/ Len(pulls) = 1
        BY <2>0, <3>1
      <3> QED
        BY <3>1, <3>2
    <2>2. Cardinality({}) = 0 /\ Cardinality({1}) = 1
      BY FS_EmptySet, FS_Singleton
    <2>3. \/ \E code : Fail(code)
          \/ Find = {} /\ call' = [call EXCEPT !.pc = "base"] /\ report' = report
          \/ \E i \in Find : /\ call' = [call EXCEPT !.pc = "base", !.pull = i, !.old = pulls[i].text]
                             /\ report' = report
      <3>1. CASE Find = {}
        <4>1. ~(Cardinality(Find) > 1) /\ Cardinality(Find) # 1
          BY <2>2, <3>1
        <4> QED
          BY <1>3, <3>1, <4>1 DEF findPullRequest, Goto
      <3>2. CASE Find = {1}
        <4> DEFINE i == CHOOSE j \in Find : TRUE
        <4>1. i \in Find
          BY <3>2
        <4>2. ~(Cardinality(Find) > 1) /\ Cardinality(Find) = 1 /\ Find # {}
          BY <2>2, <3>2
        <4>3. \/ \E code : Fail(code)
              \/ /\ call' = [call EXCEPT !.pc = "base", !.pull = i, !.old = pulls[i].text]
                 /\ report' = report
          BY <1>3, <4>2 DEF findPullRequest
        <4> HIDE DEF i
        <4> QED
          BY <4>1, <4>3
      <3> QED
        BY <2>1, <3>1, <3>2
    <2>4. CASE \E code : Fail(code)
      BY <1>0, <2>4, FailStep
    <2>5. CASE Find = {} /\ call' = [call EXCEPT !.pc = "base"] /\ report' = report
      <3>1. /\ DOMAIN call' = DOMAIN Idle /\ call'.pc = "base" /\ call'.op = "publish"
            /\ call'.paths = call.paths /\ call'.did = {} /\ call'.pull = call.pull
        BY <1>0, <2>5, CallFields DEF CallInv
      <3>2. call.pull = 0
        BY <1>0, <2>0 DEF CallInv
      <3>3. pulls = <<>>
        BY <2>0, <2>5, SeqFacts DEF Find
      <3>4. CallInv'
        BY <1>0, <1>1, <3>1, <3>2, <3>3 DEF CallInv
      <3> QED
        BY <2>5, <3>4, ResultKept DEF CallStep
    <2>6. CASE \E i \in Find : /\ call' = [call EXCEPT !.pc = "base", !.pull = i, !.old = pulls[i].text]
                               /\ report' = report
      <3>1. PICK i \in Find : /\ call' = [call EXCEPT !.pc = "base", !.pull = i, !.old = pulls[i].text]
                              /\ report' = report
        BY <2>6
      <3>2. /\ DOMAIN call' = DOMAIN Idle /\ call'.pc = "base" /\ call'.op = "publish"
            /\ call'.paths = call.paths /\ call'.did = {} /\ call'.pull = i
        BY <1>0, <3>1, CallFields DEF CallInv
      <3>3. i \in DOMAIN pulls /\ i # 0
        BY <2>0, SeqFacts DEF Find
      <3>4. CallInv'
        BY <1>0, <1>1, <3>2, <3>3 DEF CallInv
      <3> QED
        BY <3>1, <3>4, ResultKept DEF CallStep
    <2> QED
      BY <2>3, <2>4, <2>5, <2>6
  <1>4. CASE checkBase \/ renderBody
    <2>0. call.pc \in {"base", "render"}
      BY <1>4 DEF checkBase, renderBody, At
    <2>1. \/ \E code : Fail(code)
          \/ call' = [call EXCEPT !.pc = "render", !.head = HEAD] /\ report' = report
          \/ call' = [call EXCEPT !.pc = "push", !.text = [art |-> wt.art.blob, man |-> call.show]] /\ report' = report
      BY <1>4 DEF checkBase, renderBody
    <2>2. CASE \E code : Fail(code)
      BY <1>0, <2>2, FailStep
    <2>3. CASE \/ call' = [call EXCEPT !.pc = "render", !.head = HEAD] /\ report' = report
               \/ call' = [call EXCEPT !.pc = "push", !.text = [art |-> wt.art.blob, man |-> call.show]] /\ report' = report
      <3>1. /\ DOMAIN call' = DOMAIN Idle /\ call'.pc \in {"render", "push"} /\ call'.op = "publish"
            /\ call'.paths = call.paths /\ call'.did = {} /\ call'.pull = call.pull
        BY <1>0, <2>3, CallFields DEF CallInv
      <3>2. CallInv'
        BY <1>0, <1>1, <2>0, <3>1 DEF CallInv
      <3> QED
        BY <2>3, <3>2, ResultKept DEF CallStep
    <2> QED
      BY <2>1, <2>2, <2>3
  <1> QED
    BY <1>2, <1>3, <1>4

\* publish: a push that may have taken effect is not reported as none.
LEMMA CallPush ==
    ASSUME SourceInv, push
    PROVE  CallStep
  <1>0. CallInv /\ call.op = "publish" /\ call.pc = "push" /\ call.did = {}
    BY DEF SourceInv, CallInv, push, At
  <1>1. UNCHANGED <<store, refs, pulls>>
    BY DEF push, cloneVars
  <1>2. \/ \E code : Fail(code)
        \/ call' = [call EXCEPT !.pc = "request"] /\ report' = report
        \/ call' = [call EXCEPT !.pc = "request", !.pushed = TRUE, !.did = @ \cup {"remote"}] /\ report' = report
        \/ \E f \in FailedPushes : EndDoing(f.code, f.mutation, {}, IF f.applied THEN {"remote"} ELSE {})
    BY DEF push, Goto, End
  <1>3. CASE \E code : Fail(code)
    BY <1>0, <1>3, FailStep
  <1>4. CASE \/ call' = [call EXCEPT !.pc = "request"] /\ report' = report
             \/ /\ call' = [call EXCEPT !.pc = "request", !.pushed = TRUE, !.did = @ \cup {"remote"}]
                /\ report' = report
    <2>1. /\ DOMAIN call' = DOMAIN Idle /\ call'.pc = "request" /\ call'.op = "publish"
          /\ call'.paths = call.paths /\ call'.pull = call.pull
          /\ call'.did # {} => call'.pushed /\ call'.did = {"remote"}
      BY <1>0, <1>4, CallFields DEF CallInv
    <2>2. CallInv'
      BY <1>0, <1>1, <2>1 DEF CallInv
    <2> QED
      BY <1>4, <2>2, ResultKept DEF CallStep
  <1>5. CASE \E f \in FailedPushes : EndDoing(f.code, f.mutation, {}, IF f.applied THEN {"remote"} ELSE {})
    <2>1. PICK f \in FailedPushes : EndDoing(f.code, f.mutation, {}, IF f.applied THEN {"remote"} ELSE {})
      BY <1>5
    <2>2. f.mutation \in {"none", "unknown"} /\ (f.mutation = "none" => ~f.applied)
      <3>1. CASE f \in [code : {"PUSH_REJECTED_PROTECTED", "GIT_FAILED"}, mutation : {"none"}, applied : {FALSE}]
        BY <3>1
      <3>2. CASE \E c \in {"CREDENTIAL_UNAVAILABLE", "REMOTE_UNAVAILABLE"} :
                   f = [code |-> c, mutation |-> pushTransportFailure(c), applied |-> FALSE]
        BY <3>2 DEF pushTransportFailure
      <3>3. CASE f = [code |-> "REMOTE_UNAVAILABLE", mutation |-> pushTransportFailure("REMOTE_UNAVAILABLE"), applied |-> TRUE]
        BY <3>3 DEF pushTransportFailure
      <3>4. CASE f \in [code : {"GIT_FAILED"}, mutation : {"unknown"}, applied : BOOLEAN]
        BY <3>4
      <3> QED
        BY <3>1, <3>2, <3>3, <3>4 DEF FailedPushes
    <2> QED
      BY <1>0, <2>1, <2>2, EndStep
  <1> QED
    BY <1>2, <1>3, <1>4, <1>5

\* publish: what is reported none was not pushed, and requested only if the
\* answer was read as a refusal.
LEMMA CallRequest ==
    ASSUME SourceInv, requestPullRequest
    PROVE  CallStep
  <1> DEFINE named == IF call.pushed THEN {"remote"} ELSE {}
             Mutations == {"none", "partial", "applied", "unknown"}
  <1>0. CallInv /\ call.pc = "request" /\ (call.did # {} => call.pushed /\ call.did = {"remote"})
    BY DEF SourceInv, CallInv, requestPullRequest, At
  <1>1. \/ EndDoing("OK", IF call.pushed THEN "applied" ELSE "none", named, {})
        \/ EndDoing("OK", "applied", named \cup {"host"}, {"host"})
        \/ \E f \in FailedRequests :
             EndDoing("HOST_REQUEST_FAILED", afterPush(f.open), named, Effect(f))
    BY DEF requestPullRequest, End
  <1> HIDE DEF named
  <1>2. CASE EndDoing("OK", IF call.pushed THEN "applied" ELSE "none", named, {})
    <2>1. (IF call.pushed THEN "applied" ELSE "none") \in Mutations
      OBVIOUS
    <2>2. (IF call.pushed THEN "applied" ELSE "none") = "none" => call.did = {}
      BY <1>0
    <2> QED
      BY <1>2, <2>1, <2>2, EndStep
  <1>3. CASE EndDoing("OK", "applied", named \cup {"host"}, {"host"})
    BY <1>3, EndStep
  <1>4. CASE \E f \in FailedRequests :
               EndDoing("HOST_REQUEST_FAILED", afterPush(f.open), named, Effect(f))
    <2>1. PICK f \in FailedRequests :
            EndDoing("HOST_REQUEST_FAILED", afterPush(f.open), named, Effect(f))
      BY <1>4
    <2>2. f.open \in BOOLEAN /\ f.applied \in BOOLEAN
      BY DEF FailedRequests
    <2>3. /\ afterPush(f.open) \in Mutations
          /\ afterPush(f.open) = "none" => ~call.pushed
          /\ afterPush(f.open) = "partial" => call.pushed
      BY <2>2 DEF afterPush
    <2>4. afterPush(f.open) \in {"none", "partial"} => call.did \cup Effect(f) \subseteq named \cup {"misread"}
      BY <1>0, <2>2 DEF named, afterPush, Effect
    <2>5. ~call.pushed => named = {}
      BY DEF named
    <2> QED
      BY <2>1, <2>3, <2>4, <2>5, EndStep
  <1> QED
    BY <1>1, <1>2, <1>3, <1>4

\* refresh
LEMMA CallRefresh ==
    ASSUME SourceInv, Sound, PullsKept,
           \/ checkClean \/ readHeads \/ merge \/ mergedAsChecked
           \/ mergeFailure \/ failedMergeHead \/ abortMerge \/ abortedHead
    PROVE  CallStep
  <1> DEFINE Later == {"joined", "failed", "recheck", "abort", "aborted"}
  <1>0. /\ CallInv /\ call.op = "refresh" /\ call.pc \in {"clean", "heads", "merge"} \cup Later
        /\ call.pc # "joined" => call.did = {}
    BY DEF SourceInv, CallInv, checkClean, readHeads, merge, mergedAsChecked, mergeFailure, failedMergeHead,
           abortMerge, abortedHead, At
  <1>1. CASE checkClean \/ readHeads
    <2>0. UNCHANGED <<store, refs, pulls>> /\ call.did = {} /\ call.pc \in {"clean", "heads"}
      BY <1>0, <1>1, QuietEffect DEF QuietStep, checkClean, readHeads, At
    <2>1. \/ \E code : Fail(code)
          \/ EndDoing("OK", "none", {}, {})
          \/ call' = [call EXCEPT !.pc = "fetch"] /\ report' = report
          \/ call' = [call EXCEPT !.pc = "merge", !.head = HEAD] /\ report' = report
      BY <1>1 DEF checkClean, readHeads, Goto, End
    <2>2. CASE \E code : Fail(code)
      BY <2>0, <2>2, FailStep
    <2>3. CASE EndDoing("OK", "none", {}, {})
      BY <2>0, <2>3, EndStep
    <2>4. CASE \/ call' = [call EXCEPT !.pc = "fetch"] /\ report' = report
               \/ call' = [call EXCEPT !.pc = "merge", !.head = HEAD] /\ report' = report
      <3>1. /\ DOMAIN call' = DOMAIN Idle /\ call'.pc \in {"fetch", "merge"} /\ call'.op = "refresh"
            /\ call'.paths = call.paths /\ call'.did = {}
        BY <1>0, <2>0, <2>4, CallFields DEF CallInv
      <3>2. CallInv'
        BY <1>0, <2>0, <3>1, FetchingOps DEF CallInv
      <3> QED
        BY <2>4, <3>2, ResultKept DEF CallStep
    <2> QED
      BY <2>1, <2>2, <2>3, <2>4
  <1>2. ASSUME NEW pc \in Later, report' = report, DOMAIN call' = DOMAIN Idle, call'.pc = pc,
               call'.op = "refresh", call'.paths = call.paths, pc # "joined" => call'.did = {}
        PROVE  CallStep
    <2>1. CallInv'
      BY <1>0, <1>2 DEF CallInv
    <2> QED
      BY <1>2, <2>1, ResultKept DEF CallStep
  <1>3. CASE merge
    <2>1. /\ report' = report /\ call.did = {}
          /\ \/ \E refused : call' = [call EXCEPT !.pc = "failed", !.refused = refused]
             \/ call' = [call EXCEPT !.pc = "joined"]
             \/ call' = [call EXCEPT !.pc = "joined", !.did = {head}]
      BY <1>0, <1>3 DEF merge, MergeFails, At
    <2>2. /\ DOMAIN call' = DOMAIN Idle /\ call'.pc \in {"failed", "joined"} /\ call'.op = "refresh"
          /\ call'.paths = call.paths /\ (call'.pc # "joined" => call'.did = {})
      BY <1>0, <2>1, CallFields DEF CallInv
    <2> QED
      BY <1>2, <2>1, <2>2
  <1>4. CASE mergedAsChecked
    <2>1. \/ EndDoing("OK", "applied", {"branch"}, {})
          \/ EndDoing("GIT_FAILED", "unknown", {}, LeftBehind)
      BY <1>4 DEF mergedAsChecked, CannotTell, End
    <2> QED
      BY <2>1, EndStep
  <1>5. CASE mergeFailure \/ failedMergeHead \/ abortMerge \/ abortedHead
    <2>0. call.did = {} /\ call.pc \in Later \ {"joined"}
      BY <1>0, <1>5 DEF mergeFailure, failedMergeHead, abortMerge, abortedHead, At
    <2>1. \/ \E code : Fail(code)
          \/ EndDoing("GIT_FAILED", "unknown", {}, LeftBehind)
          \/ \E pc \in Later \ {"joined"} : call' = [call EXCEPT !.pc = pc] /\ report' = report
      <3>1. CASE mergeFailure
        BY <3>1 DEF mergeFailure, CannotTell, Goto
      <3>2. CASE failedMergeHead \/ abortedHead
        BY <3>2 DEF failedMergeHead, abortedHead, CannotTell
      <3>3. CASE abortMerge
        BY <3>3 DEF abortMerge, CannotTell, Goto
      <3> QED
        BY <1>5, <3>1, <3>2, <3>3
    <2>2. CASE \E code : Fail(code)
      BY <2>0, <2>2, FailStep
    <2>3. CASE EndDoing("GIT_FAILED", "unknown", {}, LeftBehind)
      BY <2>3, EndStep
    <2>4. ASSUME NEW pc \in Later \ {"joined"}, call' = [call EXCEPT !.pc = pc], report' = report
          PROVE  CallStep
      <3>1. /\ DOMAIN call' = DOMAIN Idle /\ call'.pc = pc /\ call'.op = "refresh"
            /\ call'.paths = call.paths /\ call'.did = {}
        BY <1>0, <2>0, <2>4, CallFields DEF CallInv
      <3> QED
        BY <1>2, <2>4, <3>1
    <2> QED
      BY <2>1, <2>2, <2>3, <2>4
  <1> QED
    BY <1>1, <1>3, <1>4, <1>5

\* repo_state and branch_init decide about the fast-forward.
LEMMA CallDecide ==
    ASSUME SourceInv, fastForwardDefault \/ branchInit
    PROVE  CallStep
  <1>0. CallInv /\ call.pc \in {"look", "decide"} /\ call.did = {} /\ call.op \in {"repo_state", "branch_init"}
        /\ call.target \in DOMAIN store
    BY DEF SourceInv, CallInv, fastForwardDefault, branchInit, At
  <1>1. UNCHANGED <<store, refs, pulls>>
    BY QuietEffect DEF QuietStep
  <1>2. CASE fastForwardDefault
    <2>1. \/ EndDoing("OK", "none", {}, {})
          \/ /\ IsAncestor(store, refs.default, call.target)
             /\ call' = [call EXCEPT !.pc = "forward", !.local = refs.default, !.here = head = "default"]
             /\ report' = report
      BY <1>2 DEF fastForwardDefault, Behind, End
    <2>2. CASE EndDoing("OK", "none", {}, {})
      BY <1>0, <2>2, EndStep
    <2>3. CASE /\ IsAncestor(store, refs.default, call.target)
               /\ call' = [call EXCEPT !.pc = "forward", !.local = refs.default, !.here = head = "default"]
               /\ report' = report
      <3>1. /\ DOMAIN call' = DOMAIN Idle /\ call'.pc = "forward" /\ call'.op = call.op
            /\ call'.paths = call.paths /\ call'.did = {} /\ call'.target = call.target
            /\ call'.local = refs.default
        BY <1>0, <2>3, CallFields DEF CallInv
      <3>2. CallInv'
        BY <1>0, <1>1, <2>3, <3>1 DEF CallInv
      <3> QED
        BY <2>3, <3>2, ResultKept DEF CallStep
    <2> QED
      BY <2>1, <2>2, <2>3
  <1>3. CASE branchInit
    <2>1. \/ \E code : Fail(code)
          \/ /\ branchInitRefusal = "OK"
             /\ call' = [call EXCEPT !.pc = IF call.local # call.target THEN "forward" ELSE "cut",
                                     !.here = head = "default"]
             /\ report' = report
      BY <1>3 DEF branchInit
    <2>2. CASE \E code : Fail(code)
      BY <1>0, <2>2, FailStep
    <2>3. CASE /\ branchInitRefusal = "OK"
               /\ call' = [call EXCEPT !.pc = IF call.local # call.target THEN "forward" ELSE "cut",
                                       !.here = head = "default"]
               /\ report' = report
      <3>1. call.local # call.target => IsAncestor(store, call.local, call.target)
        BY <2>3 DEF branchInitRefusal
      <3>2. /\ DOMAIN call' = DOMAIN Idle /\ call'.op = call.op
            /\ call'.pc = (IF call.local # call.target THEN "forward" ELSE "cut")
            /\ call'.paths = call.paths /\ call'.did = {} /\ call'.target = call.target
            /\ call'.local = call.local
        BY <1>0, <2>3, CallFields DEF CallInv
      <3>3. CallInv'
        BY <1>0, <1>1, <3>1, <3>2 DEF CallInv
      <3> QED
        BY <2>3, <3>3, ResultKept DEF CallStep
    <2> QED
      BY <2>1, <2>2, <2>3
  <1> QED
    BY <1>2, <1>3

\* The fast-forward: branch_init remembers that it moved the default
\* branch, so that a later failure is reported partial.
LEMMA CallForward ==
    ASSUME SourceInv, Sound, fastForward
    PROVE  CallStep
  <1>1. CallInv /\ call.pc = "forward" /\ call.did = {}
    BY DEF SourceInv, CallInv, fastForward
  <1>2. UNCHANGED <<store, pulls>> /\ (refs.branch # 0 => refs'.branch # 0)
    BY DEF fastForward, hostVars, Sound, RefNames
  <1>3. \/ \E code : ForwardFails(code)
        \/ Forwarded
        \/ EndDoing("GIT_FAILED", "unknown", {}, MovedRefs)
    BY DEF fastForward
  <1>4. \/ \E code : Fail(code)
        \/ EndDoing("OK", "none", {}, {})
        \/ EndDoing("OK", "applied", {"default"}, MovedRefs)
        \/ EndDoing("GIT_FAILED", "unknown", {}, MovedRefs)
        \/ /\ call' = [call EXCEPT !.pc = "cut", !.refs = {"default"}, !.did = MovedRefs]
           /\ report' = report
    BY <1>3 DEF ForwardFails, Forwarded, End
  <1>5. CASE \E code : Fail(code)
    BY <1>1, <1>5, FailStep
  <1>6. CASE EndDoing("OK", "none", {}, {})
    BY <1>1, <1>6, EndStep
  <1>7. CASE \/ EndDoing("OK", "applied", {"default"}, MovedRefs)
             \/ EndDoing("GIT_FAILED", "unknown", {}, MovedRefs)
    BY <1>7, EndStep
  <1>8. CASE /\ call' = [call EXCEPT !.pc = "cut", !.refs = {"default"}, !.did = MovedRefs]
             /\ report' = report
    <2>1. /\ DOMAIN call' = DOMAIN Idle /\ call'.op = call.op /\ call'.pc = "cut"
          /\ call'.paths = call.paths /\ call'.refs = {"default"} /\ call'.head = call.head
      BY <1>1, <1>8, CallFields DEF CallInv
    <2>2. CallInv'
      BY <1>1, <1>2, <2>1 DEF CallInv
    <2> QED
      BY <1>8, <2>2, ResultKept DEF CallStep
  <1> QED
    BY <1>4, <1>5, <1>6, <1>7, <1>8

\* branch_init and branch_resume end.
LEMMA CallSwitch ==
    ASSUME SourceInv, cutBranch \/ branchResume
    PROVE  CallStep
  <1>1. CASE cutBranch
    <2>0. call.did # {} => call.refs # {}
      BY <1>1 DEF cutBranch, At, SourceInv, CallInv
    <2>1. \/ \E code : EndDoing(code, partialIf, call.refs, {})
          \/ \E named : EndDoing("OK", "applied", named, {"branch"})
      BY <1>1 DEF cutBranch, End
    <2>2. CASE \E code : EndDoing(code, partialIf, call.refs, {})
      <3>1. /\ partialIf \in {"none", "partial", "applied", "unknown"}
            /\ partialIf = "none" => call.did = {}
            /\ call.op # "publish"
        BY <1>1, <2>0 DEF partialIf, cutBranch, At
      <3> QED
        BY <2>2, <3>1, EndStep
    <2>3. CASE \E named : EndDoing("OK", "applied", named, {"branch"})
      BY <2>3, EndStep
    <2> QED
      BY <2>1, <2>2, <2>3
  <1>2. CASE branchResume
    <2>1. \/ \E code : Fail(code)
          \/ EndDoing("GIT_FAILED", "unknown", {}, {})
          \/ \E doing : EndDoing("OK", "applied", {}, doing)
      BY <1>2 DEF branchResume, Fail, End
    <2>2. CASE \E code : Fail(code)
      <3>1. call.pc = "switch"
        BY <1>2 DEF branchResume, At
      <3> QED
        BY <2>2, <3>1, FailStep
    <2>3. CASE \E doing : EndDoing("OK", "applied", {}, doing)
      BY <2>3, EndStep
    <2>4. CASE EndDoing("GIT_FAILED", "unknown", {}, {})
      BY <2>4, EndStep
    <2> QED
      BY <2>1, <2>2, <2>3, <2>4
  <1> QED
    BY <1>1, <1>2

\* approved_merge: the commit it asks the host about is a merge that added
\* the manifest.
LEMMA CallApproved ==
    ASSUME SourceInv, approvedMerge \/ FindMerged
    PROVE  CallStep
  <1>0. CallInv /\ call.op = "approved_merge" /\ call.pc \in {"log", "confirm"} /\ call.did = {}
    BY DEF SourceInv, CallInv, approvedMerge, FindMerged, At
  <1>1. UNCHANGED <<store, refs, pulls>>
    BY QuietEffect DEF QuietStep
  <1>2. CASE approvedMerge
    <2> DEFINE adding == AddingCommits(store, call.target)
               commit == CHOOSE c \in adding : TRUE
    <2>1. \/ \E code : Fail(code)
          \/ /\ Cardinality(adding) = 1 /\ ~(Len(store[commit].parents) < 2)
             /\ call' = [call EXCEPT !.pc = "confirm", !.head = commit] /\ report' = report
      BY <1>2 DEF approvedMerge
    <2>2. CASE \E code : Fail(code)
      BY <1>0, <2>2, FailStep
    <2>3. CASE /\ Cardinality(adding) = 1 /\ ~(Len(store[commit].parents) < 2)
               /\ call' = [call EXCEPT !.pc = "confirm", !.head = commit] /\ report' = report
      <3>1. adding # {}
        BY <2>3, FS_EmptySet
      <3>2. PICK h \in adding : /\ ~(Len(store[h].parents) < 2)
                                /\ call' = [call EXCEPT !.pc = "confirm", !.head = h]
        BY <2>3, <3>1
      <3>3. call.target \in DOMAIN store /\ CommitOK(store, call.target)
        BY <1>0, <1>2 DEF CallInv, approvedMerge, At, SourceInv, CloneInv, StoreOK
      <3>4. h \in store[call.target].line /\ h \in DOMAIN store
        BY <3>2, <3>3 DEF AddingCommits, CommitOK
      <3>5. CommitOK(store, h)
        BY <3>4 DEF SourceInv, CloneInv, StoreOK
      <3>6. AddingMerge(h)
        <4>1. Len(store[h].parents) = 2
          <5> DEFINE l == Len(store[h].parents)
          <5>1. ~(l < 2) /\ l \in 0..2
            BY <3>2, <3>5 DEF CommitOK
          <5> HIDE DEF l
          <5>2. l = 2
            BY <5>1
          <5> QED
            BY <5>2 DEF l
        <4>2. h \in AddingCommits(store, h)
          BY <3>2, <3>5 DEF AddingCommits, CommitOK
        <4> QED
          BY <3>4, <4>1, <4>2 DEF AddingMerge
      <3>7. /\ DOMAIN call' = DOMAIN Idle /\ call'.pc = "confirm" /\ call'.op = "approved_merge"
            /\ call'.paths = call.paths /\ call'.did = {} /\ call'.head = h
        BY <1>0, <3>2, CallFields DEF CallInv
      <3>8. AddingMerge(call.head)'
        BY <1>1, <3>6, <3>7 DEF AddingMerge
      <3>9. CallInv'
        BY <1>0, <1>1, <3>7, <3>8 DEF CallInv
      <3> QED
        BY <2>3, <3>9, ResultKept DEF CallStep
    <2> QED
      BY <2>1, <2>2, <2>3
  <1>3. CASE FindMerged
    <2>1. \/ \E code : Fail(code)
          \/ EndDoing("OK", "none", {}, {})
      BY <1>3 DEF FindMerged, End
    <2> QED
      BY <1>0, <2>1, FailStep, EndStep
  <1> QED
    BY <1>2, <1>3

\* Every step keeps what the running call relies on and what results say.
LEMMA CallNext ==
    ASSUME SourceInv, [Next]_vars
    PROVE  CallStep
  <1>1. Sound /\ PullsKept
    BY SoundNext, PullsNext
  <1>2. CASE Others \/ UNCHANGED vars
    <2>1. call' = call /\ report' = report
      BY <1>2 DEF vars, Others, EarsPut, EarsUpdateBase, EarsProjectInit, HandEdit, UserStages,
                  UserDiscards, UserMerges, UserCommits, UserSwitches, UserMovesRefs, DefaultMoves,
                  ColleaguePushes, Land, Reland, ClosePull, WorkOnly, Undisturbed, RemoteGets
    <2>2. ~requestPullRequest
      <3>1. requestPullRequest => call.op = "publish" /\ call' = Idle
        BY DEF requestPullRequest, At, End, EndDoing
      <3>2. Idle.op = "none"
        BY DEF Idle
      <3> QED
        BY <2>1, <3>1, <3>2
    <2>3. CallInv'
      BY <1>1, <2>1, <2>2, CallKept
    <2> QED
      BY <2>1, <2>3, ResultKept DEF CallStep
  <1>3. CASE Server
    BY <1>1, <1>3, CallStart, CallFetch, CallCommit, CallWriteCommit, CallPublish, CallPush, CallRequest,
       CallRefresh, CallDecide, CallForward, CallSwitch, CallApproved
       DEF Server
  <1> QED
    BY <1>2, <1>3 DEF Next
----------------------------------------------------------------------------
(* The starting points *)

Good(s) == StoreOK(s) /\ \A i \in DOMAIN s : OfFileSet(s, i)

\* A good store and a proper commit make a good store.
LEMMA GoodGrows ==
    ASSUME NEW s, Good(s), NEW t, NEW c, Grown(s, t, c), OfFileSet(t, Len(s) + 1)
    PROVE  Good(t)
  <1>1. StoreOK(s) /\ StoreOK(t) /\ Extends(s, t) /\ DOMAIN t = DOMAIN s \cup {Len(s) + 1}
    BY DEF Good, Grown
  <1> QED
    BY <1>1, FileSetKept DEF Good

\* The trees of the starting points are whole and differ in the file set
\* only.
LEMMA StartTrees ==
    /\ DOMAIN Plain = Paths /\ DOMAIN Bare = Paths /\ DOMAIN Drafted = Paths /\ DOMAIN Put = Paths
    /\ DOMAIN [Put EXCEPT !.man.base = 3] = Paths
    /\ Drafted.oth = Plain.oth /\ Drafted.art = Plain.art
    /\ Put.oth = Plain.oth /\ Put.art.kind = "file"
    /\ [Put EXCEPT !.man.base = 3].oth = Drafted.oth /\ [Put EXCEPT !.man.base = 3].art.kind = "file"
  BY DEF Plain, Bare, Drafted, Put, Tree, Paths, NoManifest

\* A store of one commit without parents.
LEMMA RootStore ==
    ASSUME NEW tree, DOMAIN tree = Paths, NEW s, s = <<Commit(<<>>, <<>>, tree, "remote")>>
    PROVE  Good(s) /\ Len(s) = 1 /\ DOMAIN s = 1..1 /\ s[1].tree = tree
  <1> DEFINE none == <<>>
             c == Commit(none, none, tree, "remote")
  <1>1. IsSeq(none) /\ DOMAIN none = {} /\ Len(none) = 0
    BY DEF IsSeq
  <1>2. StoreOK(none) /\ ParentsOK(none, none) /\ Good(none)
    BY <1>1 DEF StoreOK, ParentsOK, Good
  <1>3. s = Append(none, c)
    OBVIOUS
  <1>4. c.by = "remote" /\ c.tree = tree
    BY CommitFields
  <1> HIDE DEF c, none
  <1>5. Grown(none, s, c)
    BY <1>2, <1>3, NewCommit DEF c
  <1>6. OfFileSet(s, Len(none) + 1)
    BY <1>4, <1>5 DEF OfFileSet, Grown
  <1> QED
    BY <1>1, <1>2, <1>4, <1>5, <1>6, GoodGrows DEF Grown, StoreOK

\* The stores of the starting points.
LEMMA StartStores ==
    ASSUME NEW world, NEW s, s = InitialStore(world)
    PROVE  Good(s) /\ Len(s) \in Nat /\ Len(s) >= (IF world = "landed" THEN 3 ELSE 1)
  <1> DEFINE first == IF world = "init" THEN Bare ELSE Plain
             root == <<Commit(<<>>, <<>>, first, "remote")>>
             Second(tree) == Extend(root, <<1>>, tree, "commit")
             one == Second(Drafted)
             merged == Extend(one, <<1, 2>>, Drafted, "remote")
             joined == Extend(merged, <<2, 3>>, Drafted, "refresh")
             put == [Put EXCEPT !.man.base = 3]
  <1>1. Good(root) /\ Len(root) = 1 /\ DOMAIN root = 1..1 /\ root[1].tree = first
    BY StartTrees, RootStore
  <1>2. \/ world = "review" /\ s = Extend(root, <<1>>, Put, "commit")
        \/ world = "landed" /\ s = Extend(joined, <<4>>, put, "commit")
        \/ world # "landed" /\ s = root
    BY DEF InitialStore
  <1>3. ASSUME NEW t, NEW tree, DOMAIN tree = Paths, t = Second(tree),
               tree.oth = Plain.oth, tree.art # Plain.art => tree.art.kind = "file", world # "init"
        PROVE  Good(t) /\ Len(t) = 2 /\ DOMAIN t = 1..2 /\ t[2].tree = tree
    <2> DEFINE c == Commit(root, <<1>>, tree, "commit")
    <2> HIDE DEF root
    <2>1. StoreOK(root) /\ 1 \in DOMAIN root /\ t = Append(root, c)
      BY <1>1, <1>3 DEF Good, Extend
    <2>2. Grown(root, t, c) /\ CommitIs(c, <<1>>, tree, "commit")
      BY <1>3, <2>1, OneParent
    <2> HIDE DEF c
    <2>3. t[2] = c /\ t[1] = root[1] /\ Len(t) = 2 /\ DOMAIN t = 1..2
      BY <1>1, <2>2 DEF Grown, Extends
    <2>4. OfFileSet(t, Len(root) + 1)
      <3>1. t[2].parents = <<1>> /\ t[2].tree = tree /\ t[1].tree = Plain
        BY <1>1, <1>3, <2>2, <2>3 DEF CommitIs
      <3> QED
        BY <1>1, <1>3, <3>1 DEF OfFileSet
    <2> QED
      BY <1>1, <2>2, <2>3, <2>4, GoodGrows DEF CommitIs
  <1>4. CASE world = "review" /\ s = Extend(root, <<1>>, Put, "commit")
    <2> HIDE DEF root
    <2> QED
      BY <1>3, <1>4, StartTrees
  <1>5. CASE world # "landed" /\ s = root
    BY <1>1, <1>5
  <1>6. CASE world = "landed" /\ s = Extend(joined, <<4>>, put, "commit")
    <2> HIDE DEF root
    <2>1. Good(one) /\ Len(one) = 2 /\ DOMAIN one = 1..2 /\ one[2].tree = Drafted
      BY <1>3, <1>6, StartTrees
    <2> HIDE DEF one
    <2>2. Good(merged) /\ Len(merged) = 3 /\ DOMAIN merged = 1..3
      <3> DEFINE c == Commit(one, <<1, 2>>, Drafted, "remote")
      <3>1. merged = Append(one, c) /\ StoreOK(one) /\ 1 \in DOMAIN one /\ 2 \in DOMAIN one
        BY <2>1 DEF Extend, Good
      <3>2. Grown(one, merged, c) /\ CommitIs(c, <<1, 2>>, Drafted, "remote")
        BY <3>1, StartTrees, TwoParents
      <3> HIDE DEF c, merged
      <3>3. merged[3] = c /\ Len(merged) = 3 /\ DOMAIN merged = 1..3
        BY <2>1, <3>2 DEF Grown
      <3>4. OfFileSet(merged, Len(one) + 1)
        BY <2>1, <3>2, <3>3 DEF OfFileSet, CommitIs
      <3> QED
        BY <2>1, <3>2, <3>3, <3>4, GoodGrows
    <2> HIDE DEF merged
    <2>3. Good(joined) /\ Len(joined) = 4 /\ DOMAIN joined = 1..4 /\ joined[4].tree = Drafted
      <3> DEFINE c == Commit(merged, <<2, 3>>, Drafted, "refresh")
      <3>1. joined = Append(merged, c) /\ StoreOK(merged) /\ 2 \in DOMAIN merged /\ 3 \in DOMAIN merged
        BY <2>2 DEF Extend, Good
      <3>2. Grown(merged, joined, c) /\ CommitIs(c, <<2, 3>>, Drafted, "refresh")
        BY <3>1, StartTrees, TwoParents
      <3> HIDE DEF c, joined
      <3>3. joined[4] = c /\ Len(joined) = 4 /\ DOMAIN joined = 1..4
        BY <2>2, <3>2 DEF Grown
      <3>4. OfFileSet(joined, Len(merged) + 1)
        BY <2>2, <3>2, <3>3 DEF OfFileSet, CommitIs
      <3> QED
        BY <2>2, <3>2, <3>3, <3>4, GoodGrows DEF CommitIs
    <2> HIDE DEF joined
    <2> DEFINE c == Commit(joined, <<4>>, put, "commit")
    <2>4. s = Append(joined, c) /\ StoreOK(joined) /\ 4 \in DOMAIN joined
      BY <1>6, <2>3 DEF Extend, Good
    <2>5. DOMAIN put = Paths /\ put.oth = Drafted.oth /\ put.art.kind = "file"
      BY StartTrees
    <2> HIDE DEF put
    <2>6. Grown(joined, s, c) /\ CommitIs(c, <<4>>, put, "commit")
      BY <2>4, <2>5, OneParent
    <2> HIDE DEF c
    <2>7. s[5] = c /\ s[4] = joined[4] /\ Len(s) = 5
      BY <2>3, <2>6 DEF Grown, Extends
    <2>8. OfFileSet(s, Len(joined) + 1)
      <3>1. s[5].parents = <<4>> /\ s[5].tree = put /\ s[4].tree = Drafted
        BY <2>3, <2>6, <2>7 DEF CommitIs
      <3> QED
        BY <2>3, <2>5, <3>1 DEF OfFileSet
    <2>9. Good(s)
      BY <2>3, <2>6, <2>8, GoodGrows
    <2> QED
      BY <1>6, <2>7, <2>9
  <1> QED
    BY <1>2, <1>4, <1>5, <1>6

\* The invariant holds at every starting point.
LEMMA InitSound == Init => SourceInv
  <1> SUFFICES ASSUME Init PROVE SourceInv
    OBVIOUS
  <1> DEFINE last == Len(store)
             base == IF setup.world = "landed" THEN 3 ELSE 1
  <1>1. Good(store) /\ Len(store) \in Nat /\ Len(store) >= base
    BY StartStores DEF Init
  <1>2. DOMAIN store = 1..Len(store) /\ \A i \in DOMAIN store : CommitOK(store, i)
    BY <1>1, SeqFacts DEF Good, StoreOK
  <1>3. /\ refs = [branch |-> IF setup.world = "init" THEN 0 ELSE last, default |-> base]
        /\ track = [branch |-> IF setup.world \in {"review", "landed"} THEN last ELSE 0, default |-> base]
        /\ remote = track
        /\ head = IF setup.world = "init" THEN "default" ELSE "branch"
        /\ wt = IF setup.world = "drafting" THEN Drafted ELSE store[last].tree
        /\ index = store[last].tree
    BY DEF Init
  <1>4. /\ call = Idle /\ approved = {} /\ report.mutation = "none" /\ report.did = {}
        /\ pulls = IF setup.world \in {"review", "landed"}
                   THEN <<[state |-> "open", text |-> [art |-> 2, man |-> store[last].tree.man], merge |-> 0]>>
                   ELSE <<>>
    BY DEF Init
  <1>5. CloneInv
    <2>1. RefsOK(refs) /\ RefsOK(track) /\ RefsOK(remote)
      BY <1>1, <1>3 DEF RefsOK, RefNames
    <2>2. head \in RefNames /\ HEAD # 0
      BY <1>1, <1>3 DEF RefNames, HEAD
    <2>3. DOMAIN store[last].tree = Paths
      BY <1>1, <1>2 DEF CommitOK
    <2>4. DOMAIN wt = Paths /\ DOMAIN index = Paths
      BY <1>3, <2>3, StartTrees
    <2> QED
      BY <1>1, <2>1, <2>2, <2>4 DEF CloneInv, Good
  <1>6. PullInv
    <2> DEFINE p == [state |-> "open", text |-> [art |-> 2, man |-> store[last].tree.man], merge |-> 0]
    <2>1. PullOK(p)
      BY DEF PullOK
    <2> HIDE DEF p
    <2>2. pulls = <<>> \/ pulls = <<p>>
      BY <1>4 DEF p
    <2>3. CASE pulls = <<>>
      BY <2>3 DEF PullInv, IsSeq
    <2>4. CASE pulls = <<p>>
      BY <2>1, <2>4 DEF PullInv, IsSeq
    <2> QED
      BY <2>2, <2>3, <2>4
  <1>7. CallInv
    BY <1>4 DEF Idle, CallInv
  <1>8. MergeInv
    <2>1. merging = 0 /\ unmerged = {}
      BY DEF Init
    <2> QED
      BY <1>1, <2>1 DEF MergeInv
  <1> QED
    BY <1>1, <1>4, <1>5, <1>6, <1>7, <1>8 DEF SourceInv, ApprovedInv, FileSetInv, ResultInv, ResultIsHonest, Good

----------------------------------------------------------------------------
(* The invariant and what follows from it *)

\* Every step keeps the invariant.
LEMMA SourceStep == SourceInv /\ [Next]_vars => SourceInv'
  <1> SUFFICES ASSUME SourceInv, [Next]_vars PROVE SourceInv'
    OBVIOUS
  <1>1. CloneInv' /\ FileSetInv'
    BY SoundNext DEF Sound
  <1>2. PullInv'
    BY PullsNext DEF PullsKept
  <1>3. ApprovedInv'
    BY ApprovedNext
  <1>4. CallInv' /\ ResultInv'
    BY CallNext DEF CallStep
  <1>5. MergeInv'
    BY MergeNext
  <1> QED
    BY <1>1, <1>2, <1>3, <1>4, <1>5 DEF SourceInv

\* The inductive invariant: whatever the server, the user, colleagues and
\* the host do, and whatever fails, the store, the refs, the pull requests
\* and the running call are as the calls expect them.
THEOREM SourceSound == Spec => []SourceInv
  BY InitSound, SourceStep, PTL DEF Spec

\* The state is of the types that TypeOK names.
LEMMA SourceTypes == SourceInv => TypeOK
  <1> SUFFICES ASSUME SourceInv PROVE TypeOK
    OBVIOUS
  <1>1. RefsOK(refs) /\ RefsOK(track) /\ RefsOK(remote) /\ DOMAIN wt = Paths /\ DOMAIN index = Paths
    BY DEF SourceInv, CloneInv
  <1>2. HEAD \in DOMAIN store /\ head \in RefNames
    BY RefFacts
  <1>3. ASSUME NEW i \in DOMAIN store
        PROVE  /\ Len(store[i].parents) \in 0..2
               /\ \A k \in DOMAIN store[i].parents : store[i].parents[k] \in store[i].anc \ {i}
    <2>1. CommitOK(store, i) /\ i \in Nat
      BY RefFacts DEF SourceInv, CloneInv, StoreOK
    <2>2. Len(store[i].parents) \in 0..2
      BY <2>1 DEF CommitOK
    <2>3. ASSUME NEW k \in DOMAIN store[i].parents PROVE store[i].parents[k] \in store[i].anc \ {i}
      <3> DEFINE a == store[i].parents[k]
      <3>1. a \in 1..Len(store) /\ a < i /\ a \in store[i].anc
        BY <2>1 DEF CommitOK
      <3> HIDE DEF a
      <3>2. a # i
        BY <2>1, <3>1
      <3> QED
        BY <3>1, <3>2 DEF a
    <2> QED
      BY <2>2, <2>3
  <1>4. \A i \in DOMAIN pulls :
          pulls[i].state \in {"open", "merged", "closed"} /\ (pulls[i].state = "merged" <=> pulls[i].merge # 0)
    BY DEF SourceInv, PullInv, PullOK
  <1>5. report.mutation \in {"none", "partial", "applied", "unknown"} /\ call.paths \subseteq Paths
    BY DEF SourceInv, ResultInv, CallInv
  <1>6. approved \subseteq DOMAIN store
    BY DEF SourceInv, ApprovedInv, AddingMerge
  <1>7. merging \in 0..Len(store) /\ unmerged \subseteq Paths /\ (unmerged # {} => merging # 0)
    BY DEF SourceInv, MergeInv
  <1> QED
    BY <1>1, <1>2, <1>3, <1>4, <1>5, <1>6, <1>7 DEF TypeOK, RefsOK, RefNames

\* publish looks for the pull request in any state before it opens one, and
\* only publish opens them, so however often it is repeated, after lost
\* answers, closed and merged requests, there is never a second one.
THEOREM OnePublished == Spec => []PublishedOnce
  <1>1. SourceInv => PublishedOnce
    BY SourceTypes DEF PublishedOnce, OnePullRequest, SourceInv, PullInv
  <1> QED
    BY <1>1, SourceSound, PTL

\* A call that answers with the mutation none has changed no ref and no
\* remote branch and left no merge, whatever step of it failed, and a pull
\* request only if it read the host's answer as a refusal; a partial publish
\* names what it pushed.
THEOREM HonestResult == Spec => []ResultIsHonest
  <1>1. SourceInv => ResultIsHonest
    BY DEF SourceInv, ResultInv
  <1> QED
    BY <1>1, SourceSound, PTL

\* What approved_merge has answered is one commit.
LEMMA OneApproved == SourceInv => Cardinality(approved) <= 1
  <1> SUFFICES ASSUME SourceInv PROVE Cardinality(approved) <= 1
    OBVIOUS
  <1>1. CASE approved = {}
    BY <1>1, FS_EmptySet
  <1>2. ASSUME NEW c \in approved PROVE Cardinality(approved) <= 1
    <2>1. IsSeq(pulls) /\ Len(pulls) <= 1
      BY DEF SourceInv, PullInv
    <2>2. DOMAIN pulls = 1..Len(pulls) /\ Len(pulls) \in Nat
      BY <2>1, SeqFacts
    <2>3. \A i, j \in DOMAIN pulls : i = j
      BY <2>1, <2>2
    <2>4. \A d \in approved : \E i \in DOMAIN pulls : pulls[i].merge = d
      BY DEF SourceInv, ApprovedInv
    <2>5. \A d \in approved : d = c
      BY <2>3, <2>4
    <2>6. approved = {c}
      BY <2>5
    <2> QED
      BY <2>6, FS_Singleton
  <1> QED
    BY <1>1, <1>2

\* A commit of the SCM changes files of the file set only, and
\* approved_merge answers for good with the one merge commit that brought
\* the manifest to the default branch and that the host records for the
\* reviewed pull request.
THEOREM DraftedAndReviewed == Spec => []ReviewedIsDrafted
  <1>1. SourceInv => CommitIsOfFileSet
    BY DEF SourceInv, FileSetInv, OfFileSet, CommitIsOfFileSet
  <1>2. SourceInv => ApprovedIsReviewed
    BY OneApproved DEF SourceInv, ApprovedInv, AddingMerge, ApprovedIsReviewed
  <1>3. SourceInv => ReviewedIsDrafted
    BY <1>1, <1>2 DEF ReviewedIsDrafted
  <1> QED
    BY <1>3, SourceSound, PTL

\* git moves a file of the working tree only if it is as HEAD has it.
LEMMA MovedIsClean ==
    ASSUME NEW from, NEW to, NEW p \in Paths,
           Overwritten(from, to, index, wt) = {}, Moved(from, to, wt)[p] # wt[p]
    PROVE  wt[p] = from[p]
  BY DEF Overwritten, Moved

\* The steps of a call that move the working tree.
LEMMA MovesOfCalls ==
    ASSUME merge \/ fastForward \/ cutBranch \/ branchResume, NEW p \in Paths, wt'[p] # wt[p]
    PROVE  wt[p] = HeadTree[p]
  <1> DEFINE MovesTo(to) == Overwritten(HeadTree, to, index, wt) = {} /\ wt' = Moved(HeadTree, to, wt)
  <1>1. CASE \E to : MovesTo(to)
    BY <1>1, MovedIsClean
  <1>2. CASE ~MergeOverwrites /\ JoinClash
    <2>1. /\ Overwritten(HeadTree, Joined, index, wt) = {}
          /\ \A q \in Clashing : wt[q] = HeadTree[q]
      BY <1>2 DEF MergeOverwrites
    <2>2. wt'[p] = IF p \in Clashing THEN Marked[p] ELSE Moved(HeadTree, Joined, wt)[p]
      BY <1>2 DEF JoinClash
    <2> QED
      BY <2>1, <2>2, MovedIsClean
  <1>3. CASE merge
    <2>1. \/ wt' = wt
          \/ ~MergeOverwrites /\ JoinClash
          \/ ~MergeOverwrites /\ wt' = Moved(HeadTree, Joined, wt)
      BY <1>3 DEF merge, MergeFails, JoinClean
    <2> QED
      BY <1>1, <1>2, <2>1 DEF MergeOverwrites
  <1>4. CASE fastForward
    BY <1>1, <1>4 DEF fastForward
  <1>5. CASE cutBranch
    BY <1>1, <1>5 DEF cutBranch
  <1>6. CASE branchResume
    BY <1>1, <1>6 DEF branchResume
  <1> QED
    BY <1>3, <1>4, <1>5, <1>6

\* The abort puts back unmerged paths, and paths whose content is staged.
LEMMA AbortIsNarrow ==
    ASSUME abortMerge, NEW p \in Paths, wt'[p] # wt[p]
    PROVE  Aborting(p)
  <1>1. /\ At("refresh", "abort") /\ ~AbortFails
        /\ wt' = [q \in Paths |-> IF q \in Restored THEN HeadTree[q] ELSE wt[q]]
    BY DEF abortMerge
  <1>2. p \in Restored
    BY <1>1
  <1> QED
    BY <1>1, <1>2 DEF Aborting, AbortFails, Restored

\* A step of a call overwrites an edit only where it puts a merge back.
LEMMA EditsNext ==
    ASSUME SourceInv, Next, call' # call, NEW p \in Paths, wt'[p] # wt[p]
    PROVE  wt[p] = HeadTree[p] \/ Aborting(p)
  <1>1. ~Others
    BY DEF Others, EarsPut, EarsUpdateBase, EarsProjectInit, HandEdit, UserStages,
           UserDiscards, UserMerges, UserCommits, UserSwitches, UserMovesRefs, DefaultMoves, ColleaguePushes,
           Land, Reland, ClosePull, WorkOnly, Undisturbed, RemoteGets
  <1>2. ~QuietStep
    BY QuietEffect
  <1>3. ~(writeCommit \/ push \/ requestPullRequest)
    BY DEF writeCommit, push, requestPullRequest, cloneVars
  <1>4. merge \/ abortMerge \/ fastForward \/ cutBranch \/ branchResume
    BY <1>1, <1>2, <1>3 DEF Next, Server, QuietStep
  <1> QED
    BY <1>4, MovesOfCalls, AbortIsNarrow

\* No step takes a commit off a branch of the clone or of the remote, and
\* no step of a call replaces a file that differs from HEAD, whatever was
\* committed, edited or switched between the check and the step, but for the
\* unmerged and the staged files that the abort of a merge puts back.
THEOREM LosesNothing == Spec => NothingIsLost
  <1> DEFINE Kept == /\ \A r \in {"branch", "default"} : refs[r] # 0 => refs[r] \in store'[refs'[r]].anc
                     /\ remote.branch # 0 => remote.branch \in store'[remote'.branch].anc
             Edits == call' # call => \A p \in Paths : wt'[p] # wt[p] => wt[p] = HeadTree[p] \/ Aborting(p)
  <1>1. SourceInv /\ [Next]_vars => [Kept]_vars
    BY SoundNext DEF Sound, RefNames
  <1>2. SourceInv /\ [Next]_vars => [Edits]_vars
    BY EditsNext
  <1> QED
    BY <1>1, <1>2, SourceSound, PTL DEF Spec, NothingIsLost, HistoryIsKept, EditsAreKept
============================================================================
