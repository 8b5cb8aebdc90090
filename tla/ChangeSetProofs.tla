-------------------------- MODULE ChangeSetProofs --------------------------
(***************************************************************************)
(* The promises of ChangeSet, proved for every set of processes and slugs, *)
(* every number of change sets, and every number of commands, failures and *)
(* acts of others.                                                         *)
(***************************************************************************)
EXTENDS ChangeSet, WellFoundedInduction, FiniteSetTheorems, TLAPS

----------------------------------------------------------------------------
(* The commits *)

IsSeq(s) == s \in Seq({s[n] : n \in DOMAIN s})

\* What Append leaves and what it adds.
LEMMA AppendFacts ==
    ASSUME NEW s, IsSeq(s), NEW e, NEW t, t = Append(s, e)
    PROVE  /\ IsSeq(t)
           /\ Len(s) \in Nat /\ Len(t) = Len(s) + 1
           /\ t[Len(s) + 1] = e
           /\ \A n \in 1..Len(s) : t[n] = s[n]
  <1> DEFINE S == {s[n] : n \in DOMAIN s} \cup {e}
  <1>1. s \in Seq(S)
    BY DEF IsSeq
  <1>2. /\ t \in Seq(S) /\ Len(s) \in Nat
        /\ Len(t) = Len(s) + 1 /\ DOMAIN t = 1..(Len(s) + 1)
        /\ t[Len(s) + 1] = e
        /\ \A n \in 1..Len(s) : t[n] = s[n]
    BY <1>1
  <1>3. t \in Seq({t[n] : n \in DOMAIN t})
    BY <1>2
  <1> QED
    BY <1>2, <1>3 DEF IsSeq

Commits == 1..Len(store)

(* A tree with manifests whose bases are among the first k commits.        *)
TreeOK(t, k) == t \in [config : BOOLEAN, sets : [Numbers -> [base : 1..k, by : Procs, text : {1, 2}] \cup {None}]]

CommitOK(s, k) ==
  /\ TreeOK(s[k].tree, Len(s))
  /\ k \in s[k].anc /\ s[k].anc \subseteq 1..k
  /\ \A a \in s[k].anc : s[a].anc \subseteq s[k].anc

StoreOK(s) == IsSeq(s) /\ Len(s) \in Nat \ {0} /\ \A k \in 1..Len(s) : CommitOK(s, k)

(* A step leaves the commits that exist as they are.                       *)
Later == /\ StoreOK(store') /\ Len(store) \in Nat \ {0} /\ Len(store') \in Nat /\ Len(store) <= Len(store')
         /\ \A k \in Commits : store'[k] = store[k]

(* x is a commit that a step adds.                                         *)
Added(x, parents, tree) ==
  /\ x = Len(store) + 1 /\ Len(store') = x
  /\ store'[x].tree = tree
  /\ \A a : a \in store'[x].anc <=> a = x \/ \E k \in parents : a \in store[k].anc

\* A tree stays well formed when there are more commits.
LEMMA TreeStays ==
    ASSUME NEW t, NEW j \in Nat, NEW k \in Nat, TreeOK(t, j), j <= k
    PROVE  TreeOK(t, k)
  <1>1. 1..j \subseteq 1..k
    OBVIOUS
  <1> QED
    BY <1>1 DEF TreeOK

\* Nothing happens to the commits.
LEMMA LaterStill ==
    ASSUME StoreOK(store), store' = store
    PROVE  Later
  BY DEF Later, StoreOK

\* A commit is added on top of others.
LEMMA LaterGrown ==
    ASSUME StoreOK(store), NEW parents \in SUBSET Commits, NEW tree, TreeOK(tree, Len(store)),
           store' = Append(store, NewCommit(parents, tree)),
           NEW x, x = Len(store) + 1
    PROVE  Later /\ Added(x, parents, tree)
  <1> DEFINE c == NewCommit(parents, tree)
  <1>1. /\ IsSeq(store') /\ Len(store) \in Nat \ {0} /\ Len(store') = x /\ store'[x] = c
        /\ \A n \in Commits : store'[n] = store[n]
    <2>1. IsSeq(store) /\ Len(store) \in Nat \ {0}
      BY DEF StoreOK
    <2>2. store' = Append(store, c)
      OBVIOUS
    <2> HIDE DEF c
    <2>3. IsSeq(store')
      BY <2>1, <2>2, AppendFacts
    <2>4. Len(store') = x
      BY <2>1, <2>2, AppendFacts
    <2>5. store'[x] = c
      BY <2>1, <2>2, AppendFacts
    <2>6. \A n \in 1..Len(store) : store'[n] = store[n]
      BY <2>1, <2>2, AppendFacts
    <2> QED
      BY <2>1, <2>3, <2>4, <2>5, <2>6 DEF Commits
  <1>2. c.tree = tree /\ \A a : a \in c.anc <=> a = x \/ \E k \in parents : a \in store[k].anc
    BY DEF NewCommit
  <1> HIDE DEF c
  <1>3. ASSUME NEW k \in Commits PROVE CommitOK(store', k)
    <2>1. CommitOK(store, k) /\ store'[k] = store[k] /\ k \in 1..x
      BY <1>1 DEF StoreOK, Commits
    <2>2. TreeOK(store[k].tree, x)
      BY <1>1, <2>1, TreeStays DEF CommitOK
    <2>3. \A a \in store[k].anc : a \in Commits
      BY <1>1, <2>1 DEF CommitOK, Commits
    <2>4. \A a \in store[k].anc : store'[a] = store[a]
      BY <1>1, <2>3
    <2> QED
      BY <1>1, <2>1, <2>2, <2>4 DEF CommitOK
  <1>4. CommitOK(store', x)
    <2>1. TreeOK(tree, x)
      BY <1>1, TreeStays
    <2>2. ASSUME NEW a \in c.anc PROVE a \in 1..x /\ store'[a].anc \subseteq c.anc
      <3>1. CASE a = x
        BY <1>1, <3>1
      <3>2. CASE a # x
        <4>1. PICK k \in parents : a \in store[k].anc
          BY <1>2, <3>2
        <4>2. CommitOK(store, k) /\ k \in Commits
          BY DEF StoreOK, Commits
        <4>3. a \in 1..k /\ store[a].anc \subseteq store[k].anc /\ a \in Commits
          BY <4>1, <4>2, <1>1 DEF CommitOK, Commits
        <4>4. store'[a] = store[a] /\ a \in 1..x
          BY <1>1, <4>3 DEF Commits
        <4> QED
          BY <1>2, <4>1, <4>3, <4>4
      <3> QED
        BY <3>1, <3>2
    <2>3. store'[x] = c /\ x \in c.anc
      BY <1>1, <1>2
    <2> QED
      BY <1>1, <1>2, <2>1, <2>2, <2>3 DEF CommitOK
  <1>5. StoreOK(store')
    <2>1. \A k \in 1..x : k \in Commits \/ k = x
      BY <1>1 DEF Commits
    <2>2. \A k \in 1..x : CommitOK(store', k)
      BY <1>3, <1>4, <2>1
    <2> QED
      BY <1>1, <2>2 DEF StoreOK
  <1> QED
    <2>1. Len(store) <= Len(store')
      BY <1>1
    <2>2. Later
      <3>1. StoreOK(store')
        BY <1>5
      <3>2. Len(store) \in Nat \ {0}
        BY <1>1
      <3>3. Len(store') \in Nat
        BY <1>1
      <3>4. \A k \in Commits : store'[k] = store[k]
        BY <1>1
      <3> QED
        BY <3>1, <3>2, <3>3, <3>4, <2>1 DEF Later
    <2> QED
      BY <1>1, <1>2, <2>2 DEF Added

----------------------------------------------------------------------------
(* Types *)

NameOK(b) == b = Main \/ b.n \in Numbers
RefsIn(refs, k) == Main \in DOMAIN refs /\ \A b \in DOMAIN refs : refs[b] \in 1..k /\ NameOK(b)

CloneOK(c) ==
  /\ RefsIn(local[c], Len(store)) /\ RefsIn(track[c], Len(store))
  /\ head[c] \in DOMAIN local[c]
  /\ TreeOK(wt[c], Len(store))
ClonesOK ==
  /\ DOMAIN local = Clones /\ DOMAIN track = Clones /\ DOMAIN head = Clones /\ DOMAIN wt = Clones
  /\ \A c \in Clones : CloneOK(c)

HostOK == RefsIn(remote, Len(store)) /\ DOMAIN pulls \subseteq DOMAIN remote \ {Main}

(* A create that cuts a branch knows a number that its base does not hold, *)
(* and a branch that is not the one it came from.                          *)
CutOK(s, r) ==
  /\ r.n \in Numbers /\ r.name.n \in Numbers /\ r.name # r.original
  /\ r.base \in 1..Len(s) /\ s[r.base].tree.sets[r.n] = None

RunOK(s, r, a) ==
  /\ DOMAIN r = DOMAIN Idle
  /\ r.pc \in {"idle", "cut", "reload", "write", "restore"}
  /\ r.pc = "idle" => r = Idle
  /\ r.pc # "idle" => a = NoAnswer
  /\ r.cut \in BOOLEAN /\ r.made \in BOOLEAN
  /\ r.pc \in {"cut", "reload", "restore"} => r.cut
  /\ r.pc = "cut" => ~r.made
  /\ r.cut => CutOK(s, r)
  /\ r.made => r.cut
  /\ r.pc = "write" => TreeOK(r.new, Len(s))
RunsOK ==
  /\ DOMAIN proc = Procs /\ DOMAIN answer = Procs
  /\ \A p \in Procs : RunOK(store, proc[p], answer[p])

Bounds == [calls : 0..setup.bounds.calls, moves : 0..setup.bounds.moves, faults : 0..setup.bounds.faults]

TypeInv ==
  /\ setup \in Setups /\ left \in Bounds
  /\ StoreOK(store) /\ ClonesOK /\ HostOK /\ RunsOK

\* The setup gives every process a clone.
LEMMA CloneOfProc ==
    ASSUME setup \in Setups, NEW p \in Procs
    PROVE  cloneOf(p) \in Clones
  BY ChangeSetAssumption DEF cloneOf, Clones

\* A bounded set of numbers has a greatest one.
LEMMA MaxExists ==
    ASSUME NEW m \in Nat, NEW S, S \subseteq 0..m, S # {}
    PROVE  Max(S) \in S /\ \A x \in S : x <= Max(S)
  <1>0. \A x \in S : x \in Nat
    <2>1. \A x \in S : x \in 0..m
      OBVIOUS
    <2>2. \A x \in 0..m : x \in Nat
      OBVIOUS
    <2> QED
      BY <2>1, <2>2
  <1> DEFINE T == {m - x : x \in S}
  <1>1. T \subseteq Nat /\ T # {}
    <2>1. \A x \in S : x \in 0..m /\ m - x \in Nat
      OBVIOUS
    <2> QED
      BY <2>1
  <1>2. PICK y \in T : \A z \in T : y <= z
    <2> DEFINE R == OpToRel(<, Nat)
    <2>1. \A a, b \in Nat : a < b => <<a, b>> \in R
      BY DEF OpToRel
    <2>2. IsWellFoundedOn(R, Nat)
      BY NatLessThanWellFounded
    <2> HIDE DEF T, R
    <2>3. \E y \in T : \A z \in T : <<z, y>> \notin R
      BY <1>1, <2>2, WFMin
    <2>4. PICK y \in T : \A z \in T : <<z, y>> \notin R
      BY <2>3
    <2>5. \A z \in T : ~(z < y) /\ z \in Nat /\ y \in Nat
      BY <1>1, <2>1, <2>4
    <2>6. \A z \in T : y <= z
      BY <2>5
    <2> QED
      BY <2>6
  <1>3. PICK x \in S : y = m - x
    BY <1>2
  <1>4. \A z \in S : x >= z
    <2> SUFFICES ASSUME NEW z \in S PROVE x >= z
      OBVIOUS
    <2>1. m - z \in T
      OBVIOUS
    <2>2. m - x <= m - z
      BY <1>2, <1>3, <2>1
    <2>3. x \in Nat /\ z \in Nat
      BY <1>0
    <2> QED
      BY <2>2, <2>3
  <1>5. Max(S) \in S /\ \A z \in S : Max(S) >= z
    BY <1>4 DEF Max
  <1>6. \A z \in S : z \in Nat /\ Max(S) \in Nat
    BY <1>0, <1>5
  <1> QED
    BY <1>5, <1>6

\* The numbers that a clone knows.
LEMMA KnownNumbers ==
    ASSUME NEW c \in Clones, CloneOK(c), StoreOK(store)
    PROVE  /\ changeSetNumbers(c) \subseteq Numbers
           /\ \A k \in defaultBranchRefs(c), n \in Numbers :
                n \notin changeSetNumbers(c) => TreeOf(k).sets[n] = None
           /\ \A b \in DOMAIN local[c] : b # Main => b.n \in changeSetNumbers(c)
           /\ local[c][Main] \in defaultBranchRefs(c) /\ track[c][Main] \in defaultBranchRefs(c)
           /\ defaultBranchRefs(c) \subseteq {local[c][Main], track[c][Main]}
  <1>1. Main \in DOMAIN local[c] /\ Main \in DOMAIN track[c]
    BY DEF CloneOK, RefsIn
  <1>2. /\ local[c][Main] \in defaultBranchRefs(c) /\ track[c][Main] \in defaultBranchRefs(c)
        /\ defaultBranchRefs(c) \subseteq {local[c][Main], track[c][Main]}
    BY <1>1 DEF defaultBranchRefs
  <1> DEFINE D == UNION {Numbered(TreeOf(k)) : k \in defaultBranchRefs(c)}
             B == {b.n : b \in (DOMAIN local[c] \cup DOMAIN track[c]) \ {Main}}
  <1>3. changeSetNumbers(c) = Numbered(wt[c]) \cup D \cup B
    BY DEF changeSetNumbers
  <1>4. \A b \in DOMAIN local[c] : b # Main => b.n \in B
    OBVIOUS
  <1>5. B \subseteq Numbers
    BY DEF CloneOK, RefsIn, NameOK
  <1>6. \A k \in defaultBranchRefs(c) : Numbered(TreeOf(k)) \subseteq D
    BY Zenon
  <1>7. D \subseteq Numbers /\ Numbered(wt[c]) \subseteq Numbers
    BY DEF Numbered
  <1> HIDE DEF D, B
  <1>8. \A k \in defaultBranchRefs(c), n \in Numbers : n \notin changeSetNumbers(c) => TreeOf(k).sets[n] = None
    BY <1>3, <1>6 DEF Numbered
  <1> QED
    BY <1>2, <1>3, <1>4, <1>5, <1>7, <1>8

\* The highest of them.
LEMMA HighestNumber ==
    ASSUME NEW c \in Clones, CloneOK(c), StoreOK(store)
    PROVE  /\ highestChangeSetNumber(c) \in 0..MaxNumber
           /\ \A n \in changeSetNumbers(c) : n <= highestChangeSetNumber(c)
  <1> DEFINE S == changeSetNumbers(c) \cup {0}
  <1>1. MaxNumber \in Nat
    BY ChangeSetAssumption
  <1>2. S \subseteq 0..MaxNumber /\ S # {}
    BY <1>1, KnownNumbers DEF Numbers
  <1>3. Max(S) \in S /\ \A x \in S : x <= Max(S)
    <2> HIDE DEF S
    <2> QED
      BY <1>1, <1>2, MaxExists
  <1> QED
    BY <1>2, <1>3 DEF highestChangeSetNumber

\* What a create that is not refused may rely upon.
LEMMA PlanAllows ==
    ASSUME NEW c, planRefusal(c) = "OK"
    PROVE  /\ onInitBranch(c) => isAncestor(local[c][Main], HeadCommit(c))
           /\ ~onInitBranch(c) => ~Dirty(c) /\ ~(highestChangeSetNumber(c) >= MaxNumber)
  BY DEF planRefusal

----------------------------------------------------------------------------
(* How the parts of a step keep the types *)

(* The step sets what the process p runs and answered.                     *)
Runs(p, r, a) == proc' = [proc EXCEPT ![p] = r] /\ answer' = [answer EXCEPT ![p] = a]
Still == UNCHANGED <<store, local, track, head, wt, remote, pulls>>

(* The step changes no clone but c.                                        *)
OnlyClone(c) ==
  /\ DOMAIN local' = Clones /\ DOMAIN track' = Clones /\ DOMAIN head' = Clones /\ DOMAIN wt' = Clones
  /\ \A d \in Clones \ {c} :
       local'[d] = local[d] /\ track'[d] = track[d] /\ head'[d] = head[d] /\ wt'[d] = wt[d]

\* An idle process is well formed.
LEMMA IdleOK ==
    ASSUME NEW s, NEW a
    PROVE  RunOK(s, Idle, a) /\ Idle.pc = "idle" /\ ~Idle.cut
  BY DEF RunOK, Idle

\* A command stays well formed when commits are added.
LEMMA RunStays ==
    ASSUME Later, NEW r, NEW a, RunOK(store, r, a)
    PROVE  RunOK(store', r, a)
  <1>1. r.cut => CutOK(store', r)
    <2>1. r.cut => CutOK(store, r)
      BY DEF RunOK
    <2>2. CutOK(store, r) => CutOK(store', r)
      BY DEF CutOK, Later, Commits
    <2> QED
      BY <2>1, <2>2
  <1>2. r.pc = "write" => TreeOK(r.new, Len(store'))
    <2>1. r.pc = "write" => TreeOK(r.new, Len(store))
      BY DEF RunOK
    <2>2. Len(store) \in Nat /\ Len(store') \in Nat /\ Len(store) <= Len(store')
      BY DEF Later
    <2> QED
      BY <2>1, <2>2, TreeStays
  <1> QED
    BY <1>1, <1>2 DEF RunOK

\* A step in which no command moves.
LEMMA RunsStay ==
    ASSUME TypeInv, Later, UNCHANGED <<proc, answer>>
    PROVE  RunsOK'
  <1>1. \A p \in Procs : RunOK(store', proc[p], answer[p])
    BY RunStays DEF TypeInv, RunsOK
  <1> QED
    BY <1>1 DEF TypeInv, RunsOK

\* A step of one command.
LEMMA RunsMove ==
    ASSUME TypeInv, Later, NEW p \in Procs, NEW r, NEW a, Runs(p, r, a), RunOK(store', r, a)
    PROVE  RunsOK'
  <1>1. \A q \in Procs : RunOK(store', proc[q], answer[q])
    BY RunStays DEF TypeInv, RunsOK
  <1>2. DOMAIN proc' = Procs /\ DOMAIN answer' = Procs
    BY DEF TypeInv, RunsOK, Runs
  <1>3. ASSUME NEW q \in Procs PROVE RunOK(store', proc'[q], answer'[q])
    <2>1. CASE q = p
      <3>1. proc'[q] = r /\ answer'[q] = a
        BY <2>1 DEF TypeInv, RunsOK, Runs
      <3> QED
        BY <3>1
    <2>2. CASE q # p
      <3>1. proc'[q] = proc[q] /\ answer'[q] = answer[q]
        BY <2>2 DEF TypeInv, RunsOK, Runs
      <3> QED
        BY <1>1, <3>1
    <2> QED
      BY <2>1, <2>2
  <1> QED
    BY <1>2, <1>3 DEF RunsOK

\* The references of a clone stay well formed when commits are added.
LEMMA RefsStay ==
    ASSUME NEW refs, NEW j \in Nat, NEW k \in Nat, RefsIn(refs, j), j <= k
    PROVE  RefsIn(refs, k)
  BY DEF RefsIn

\* A step that changes one clone at most.
LEMMA ClonesMove ==
    ASSUME TypeInv, Later, NEW c \in Clones, OnlyClone(c), CloneOK(c)'
    PROVE  ClonesOK'
  <1>1. Len(store) \in Nat /\ Len(store') \in Nat /\ Len(store) <= Len(store')
    BY DEF Later
  <1>2. ASSUME NEW d \in Clones, d # c PROVE CloneOK(d)'
    <2>1. CloneOK(d)
      BY DEF TypeInv, ClonesOK
    <2>2. local'[d] = local[d] /\ track'[d] = track[d] /\ head'[d] = head[d] /\ wt'[d] = wt[d]
      BY <1>2 DEF OnlyClone
    <2>3. RefsIn(local[d], Len(store')) /\ RefsIn(track[d], Len(store')) /\ TreeOK(wt[d], Len(store'))
      BY <1>1, <2>1, RefsStay, TreeStays DEF CloneOK
    <2> QED
      BY <2>1, <2>2, <2>3 DEF CloneOK
  <1>3. \A d \in Clones : CloneOK(d)'
    BY <1>2
  <1> QED
    BY <1>3 DEF ClonesOK, OnlyClone

\* A step that leaves the clones as they are.
LEMMA ClonesStay ==
    ASSUME TypeInv, Later, UNCHANGED <<local, track, head, wt>>
    PROVE  ClonesOK'
  <1>1. Len(store) \in Nat /\ Len(store') \in Nat /\ Len(store) <= Len(store')
    BY DEF Later
  <1>2. ASSUME NEW d \in Clones PROVE CloneOK(d)'
    <2>1. CloneOK(d)
      BY DEF TypeInv, ClonesOK
    <2>3. RefsIn(local[d], Len(store')) /\ RefsIn(track[d], Len(store')) /\ TreeOK(wt[d], Len(store'))
      BY <1>1, <2>1, RefsStay, TreeStays DEF CloneOK
    <2> QED
      BY <2>1, <2>3 DEF CloneOK
  <1> QED
    BY <1>2 DEF ClonesOK, TypeInv

\* A step that leaves the remote as it is.
LEMMA HostStays ==
    ASSUME TypeInv, Later, UNCHANGED <<remote, pulls>>
    PROVE  HostOK'
  <1>1. Len(store) \in Nat /\ Len(store') \in Nat /\ Len(store) <= Len(store')
    BY DEF Later
  <1>2. RefsIn(remote, Len(store'))
    BY <1>1, RefsStay DEF TypeInv, HostOK
  <1> QED
    BY <1>2 DEF HostOK, TypeInv

\* A step of a command that changes no repository.
LEMMA TypesStill ==
    ASSUME TypeInv, Still, setup' = setup, left' \in Bounds,
           NEW p \in Procs, NEW r, NEW a, Runs(p, r, a), RunOK(store, r, a)
    PROVE  TypeInv'
  <1>1. Later
    BY LaterStill DEF TypeInv, Still
  <1>2. RunsOK'
    BY <1>1, RunsMove DEF Still
  <1>3. ClonesOK' /\ HostOK'
    BY <1>1, ClonesStay, HostStays DEF Still
  <1> QED
    BY <1>1, <1>2, <1>3 DEF TypeInv, Still, Bounds, Later

\* A manifest is put into a tree.
LEMMA WithOK ==
    ASSUME NEW t, NEW k, TreeOK(t, k), NEW n \in Numbers,
           NEW m, m \in [base : 1..k, by : Procs, text : {1, 2}] \cup {None}
    PROVE  /\ TreeOK(With(t, n, m), k)
           /\ With(t, n, m).sets[n] = m
           /\ \A i \in Numbers : i # n => With(t, n, m).sets[i] = t.sets[i]
           /\ With(t, n, m).config = t.config
  BY DEF TreeOK, With

\* The counters of what is left only go down.
LEMMA LeftDown ==
    ASSUME TypeInv, setup' = setup,
           \/ left' = left
           \/ left.calls > 0 /\ left' = [left EXCEPT !.calls = @ - 1]
           \/ left.moves > 0 /\ left' = [left EXCEPT !.moves = @ - 1]
           \/ left.faults > 0 /\ left' = [left EXCEPT !.faults = @ - 1]
    PROVE  left' \in Bounds
  <1>1. setup.bounds \in [calls : Nat, moves : Nat, faults : Nat] /\ left \in Bounds
    BY ChangeSetAssumption DEF TypeInv
  <1> QED
    BY <1>1 DEF Bounds

----------------------------------------------------------------------------
(* The steps of a command: what each does to the clone, and what the       *)
(* command is afterwards.                                                  *)

(* A planned create knows the branch it came from and the base.            *)
Planned(c, r) == r.pc = "cut" /\ r.cut /\ r.base = local[c][Main] /\ ~Dirty(c)

(* A command has read the clone and holds what it is going to write.       *)
Holds(c, r) == r.pc = "write" /\ r.seen = HeadCommit(c)

(* The first change set of the initialization branch.                      *)
FirstSet(p, c, r) ==
  /\ Holds(c, r) /\ ~r.cut /\ head[c] = InitBranch /\ Numbered(wt[c]) = {}
  /\ isAncestor(local[c][Main], HeadCommit(c))
  /\ r.new = With(wt[c], 1, NewManifest(p, local[c][Main]))

\* What is known of the clone of a process.
LEMMA CloneFacts ==
    ASSUME TypeInv, NEW p \in Procs, NEW c, c = cloneOf(p)
    PROVE  /\ c \in Clones /\ CloneOK(c) /\ RunOK(store, proc[p], answer[p])
           /\ local[c][Main] \in Commits /\ HeadCommit(c) \in Commits /\ track[c][Main] \in Commits
           /\ Len(store) \in Nat \ {0} /\ MaxNumber \in Nat \ {0}
  <1>1. c \in Clones /\ CloneOK(c) /\ RunOK(store, proc[p], answer[p])
    BY CloneOfProc DEF TypeInv, ClonesOK, RunsOK
  <1>2. local[c][Main] \in Commits /\ HeadCommit(c) \in Commits /\ track[c][Main] \in Commits
    BY <1>1 DEF CloneOK, RefsIn, HeadCommit, Commits
  <1> QED
    BY <1>1, <1>2, ChangeSetAssumption DEF TypeInv, StoreOK

\* create is planned.
LEMMA PlanSteps ==
    ASSUME TypeInv, NEW p \in Procs, NEW slug, planChangeSetBranch(p, slug), NEW c, c = cloneOf(p)
    PROVE  /\ Still /\ setup' = setup /\ left' \in Bounds /\ proc[p].pc = "idle"
           /\ \E r, a : /\ Runs(p, r, a) /\ RunOK(store, r, a)
                        /\ r = Idle \/ (a = NoAnswer /\ (FirstSet(p, c, r) \/ (Planned(c, r) /\ r.name.slug = slug)))
  <1> DEFINE base == local[c][Main]
             n == IF onInitBranch(c) THEN 1 ELSE highestChangeSetNumber(c) + 1
             plan == [Idle EXCEPT !.op = "create", !.n = n, !.base = base, !.original = head[c]]
             first == Seeing([plan EXCEPT !.pc = "write", !.name = InitBranch,
                                          !.new = With(wt[c], n, NewManifest(p, base))], c)
             cut == [plan EXCEPT !.pc = "cut", !.name = Branch(n, slug), !.cut = TRUE]
  <1>1. Still /\ setup' = setup /\ proc[p].pc = "idle"
    BY DEF planChangeSetBranch, Begin, Still, gitVars, hostVars
  <1>2. left' \in Bounds
    BY <1>1, LeftDown DEF planChangeSetBranch, Begin
  <1>3. /\ c \in Clones /\ CloneOK(c) /\ StoreOK(store) /\ base \in Commits
        /\ MaxNumber \in Nat \ {0} /\ HeadCommit(c) \in Commits
    BY CloneFacts DEF TypeInv
  <1>4. \/ Runs(p, Idle, [op |-> "create", code |-> planRefusal(c), mutation |-> "none"])
        \/ planRefusal(c) = "OK" /\ onInitBranch(c) /\ Runs(p, first, NoAnswer)
        \/ planRefusal(c) = "OK" /\ ~onInitBranch(c) /\ Runs(p, cut, NoAnswer)
    BY DEF planChangeSetBranch, Answer, Goto, Runs
  <1>5. CASE Runs(p, Idle, [op |-> "create", code |-> planRefusal(c), mutation |-> "none"])
    BY <1>1, <1>2, <1>5, IdleOK
  <1>6. CASE planRefusal(c) = "OK" /\ onInitBranch(c) /\ Runs(p, first, NoAnswer)
    <2>1. isAncestor(base, HeadCommit(c)) /\ head[c] = InitBranch /\ Numbered(wt[c]) = {} /\ n = 1
      BY <1>6, PlanAllows DEF onInitBranch
    <2>2. /\ first.pc = "write" /\ ~first.cut /\ first.seen = HeadCommit(c) /\ first.made = FALSE
          /\ first.new = With(wt[c], 1, NewManifest(p, base)) /\ DOMAIN first = DOMAIN Idle
          /\ first.cut = FALSE
      BY <2>1 DEF Seeing, Idle
    <2>3. TreeOK(With(wt[c], 1, NewManifest(p, base)), Len(store))
      <3>1. NewManifest(p, base) \in [base : 1..Len(store), by : Procs, text : {1, 2}] \cup {None}
        BY <1>3 DEF NewManifest, Commits
      <3>2. TreeOK(wt[c], Len(store)) /\ 1 \in Numbers
        BY <1>3 DEF CloneOK, Numbers
      <3> QED
        BY <3>1, <3>2, WithOK
    <2> HIDE DEF first, n
    <2>4. RunOK(store, first, NoAnswer)
      BY <2>2, <2>3 DEF RunOK
    <2>5. FirstSet(p, c, first)
      BY <2>1, <2>2 DEF FirstSet, Holds
    <2> QED
      BY <1>1, <1>2, <1>6, <2>4, <2>5
  <1>7. CASE planRefusal(c) = "OK" /\ ~onInitBranch(c) /\ Runs(p, cut, NoAnswer)
    <2>1. ~Dirty(c) /\ n = highestChangeSetNumber(c) + 1 /\ ~(highestChangeSetNumber(c) >= MaxNumber)
      BY <1>7, PlanAllows
    <2>2. highestChangeSetNumber(c) \in 0..MaxNumber /\ \A i \in changeSetNumbers(c) : i <= highestChangeSetNumber(c)
      BY <1>3, HighestNumber
    <2>3. n \in Numbers /\ n \notin changeSetNumbers(c)
      BY <1>3, <2>1, <2>2 DEF Numbers
    <2> HIDE DEF n
    <2>4. TreeOf(base).sets[n] = None
      BY <1>3, <2>3, KnownNumbers
    <2>5. Branch(n, slug) # head[c] /\ Branch(n, slug).n = n /\ Branch(n, slug).slug = slug
      <3>1. Branch(n, slug).n = n /\ Branch(n, slug).slug = slug /\ Main.n = 0
        BY DEF Branch, Main
      <3>2. head[c] \in DOMAIN local[c]
        BY <1>3 DEF CloneOK
      <3>3. head[c] # Main => head[c].n \in changeSetNumbers(c)
        BY <1>3, <3>2, KnownNumbers
      <3>4. n # 0
        BY <1>3, <2>3 DEF Numbers
      <3> QED
        BY <2>3, <3>1, <3>3, <3>4
    <2>6. /\ cut.pc = "cut" /\ cut.cut = TRUE /\ cut.made = FALSE /\ DOMAIN cut = DOMAIN Idle
          /\ cut.n = n /\ cut.name = Branch(n, slug) /\ cut.original = head[c] /\ cut.base = base
      BY DEF Idle
    <2> HIDE DEF cut
    <2>7. CutOK(store, cut)
      BY <1>3, <2>3, <2>4, <2>5, <2>6 DEF CutOK, TreeOf, Commits
    <2>8. RunOK(store, cut, NoAnswer)
      BY <2>6, <2>7 DEF RunOK
    <2>9. Planned(c, cut) /\ cut.name.slug = slug
      BY <2>1, <2>5, <2>6 DEF Planned
    <2> QED
      BY <1>1, <1>2, <1>7, <2>8, <2>9
  <1> QED
    BY <1>4, <1>5, <1>6, <1>7

(* A create goes on with what it has planned.                              *)
SameCreate(r, s) ==
  /\ DOMAIN s = DOMAIN r /\ s.cut = r.cut /\ s.n = r.n /\ s.name = r.name
  /\ s.base = r.base /\ s.original = r.original

(* The branch of a create is made and checked out.                         *)
Cuts(c, r) ==
  /\ r.name \notin DOMAIN local[c] \cup DOMAIN track[c] /\ ~Refused(c, r.base)
  /\ local' = [local EXCEPT ![c] = Put(@, r.name, r.base)]
  /\ head' = [head EXCEPT ![c] = r.name]
  /\ wt' = [wt EXCEPT ![c] = Switched(c, r.base)]

\* The branch is cut, or not.
LEMMA CutSteps ==
    ASSUME TypeInv, NEW p \in Procs, cutChangeSetBranch(p), NEW c, c = cloneOf(p)
    PROVE  /\ UNCHANGED <<store, track, remote, pulls, setup>> /\ left' \in Bounds /\ proc[p].pc = "cut"
           /\ \E r, a : /\ Runs(p, r, a) /\ RunOK(store, r, a)
                        /\ \/ r = Idle /\ UNCHANGED <<local, head, wt>>
                           \/ /\ SameCreate(proc[p], r) /\ a = NoAnswer
                              /\ \/ r.pc = "restore" /\ UNCHANGED <<local, head, wt>>
                                 \/ r.pc \in {"reload", "restore"} /\ Cuts(c, proc[p])
  <1> DEFINE r == proc[p]
             none == [op |-> "create", code |-> "change_set.branch_exists", mutation |-> "none"]
             refused == [r EXCEPT !.pc = "restore", !.code = "change_set.uncommitted_changes"]
             made == [r EXCEPT !.pc = "reload", !.made = TRUE]
             failed(m) == [r EXCEPT !.pc = "restore", !.made = m, !.code = "git.write_failed"]
  <1>1. UNCHANGED <<store, track, remote, pulls, setup>> /\ r.pc = "cut"
    BY DEF cutChangeSetBranch, hostVars
  <1>2. left' \in Bounds
    BY <1>1, LeftDown DEF cutChangeSetBranch, Fail
  <1>3. /\ RunOK(store, r, answer[p]) /\ r.cut = TRUE /\ CutOK(store, r) /\ DOMAIN r = DOMAIN Idle
        /\ r.made = FALSE
    BY <1>1, CloneFacts DEF RunOK
  <1>4. \/ Runs(p, Idle, none) /\ UNCHANGED <<local, head, wt>>
        \/ Runs(p, refused, NoAnswer) /\ UNCHANGED <<local, head, wt>>
        \/ Runs(p, made, NoAnswer) /\ Cuts(c, r)
        \/ \E m \in {FALSE, ~Refused(c, r.base)} :
             /\ Runs(p, failed(m), NoAnswer)
             /\ \/ m /\ Cuts(c, r)
                \/ ~m /\ UNCHANGED <<local, head, wt>>
    BY DEF cutChangeSetBranch, Answer, Goto, Runs, Cuts
  <1>5. CASE Runs(p, Idle, none) /\ UNCHANGED <<local, head, wt>>
    BY <1>1, <1>2, <1>5, IdleOK
  <1>6. CASE Runs(p, refused, NoAnswer) /\ UNCHANGED <<local, head, wt>>
    <2>1. refused.pc = "restore" /\ SameCreate(r, refused) /\ refused.made = FALSE
      BY <1>3 DEF SameCreate, Idle
    <2> HIDE DEF refused
    <2>2. RunOK(store, refused, NoAnswer)
      BY <1>3, <2>1 DEF RunOK, SameCreate, CutOK
    <2> QED
      BY <1>1, <1>2, <1>6, <2>1, <2>2
  <1>7. CASE Runs(p, made, NoAnswer) /\ Cuts(c, r)
    <2>1. made.pc = "reload" /\ SameCreate(r, made) /\ made.made = TRUE
      BY <1>3 DEF SameCreate, Idle
    <2> HIDE DEF made
    <2>2. RunOK(store, made, NoAnswer)
      BY <1>3, <2>1 DEF RunOK, SameCreate, CutOK
    <2> QED
      BY <1>1, <1>2, <1>7, <2>1, <2>2
  <1>8. ASSUME NEW m \in {FALSE, ~Refused(c, r.base)}, Runs(p, failed(m), NoAnswer),
               \/ m /\ Cuts(c, r)
               \/ ~m /\ UNCHANGED <<local, head, wt>>
        PROVE  \E s, a : /\ Runs(p, s, a) /\ RunOK(store, s, a)
                         /\ SameCreate(proc[p], s) /\ a = NoAnswer
                         /\ s.pc = "restore" /\ (UNCHANGED <<local, head, wt>> \/ Cuts(c, proc[p]))
    <2>1. failed(m).pc = "restore" /\ SameCreate(r, failed(m)) /\ failed(m).made = m /\ m \in BOOLEAN
      BY <1>3 DEF SameCreate, Idle
    <2> HIDE DEF failed
    <2>2. RunOK(store, failed(m), NoAnswer)
      BY <1>3, <2>1 DEF RunOK, SameCreate, CutOK
    <2> QED
      BY <1>8, <2>1, <2>2
  <1> HIDE DEF failed, made, refused, none
  <1> QED
    BY <1>1, <1>2, <1>4, <1>5, <1>6, <1>7, <1>8

\* The project is read again on the new branch.
LEMMA ReloadSteps ==
    ASSUME TypeInv, NEW p \in Procs, reload(p), NEW c, c = cloneOf(p)
    PROVE  /\ Still /\ setup' = setup /\ left' = left /\ proc[p].pc = "reload"
           /\ \E r : /\ Runs(p, r, NoAnswer) /\ RunOK(store, r, NoAnswer)
                     /\ SameCreate(proc[p], r)
                     /\ \/ r.pc = "restore"
                        \/ /\ Holds(c, r) /\ HeadCommit(c) = r.base
                           /\ r.new = With(wt[c], r.n, NewManifest(p, r.base))
  <1> DEFINE r == proc[p]
             back(code) == [r EXCEPT !.pc = "restore", !.code = code]
             new == With(wt[c], r.n, NewManifest(p, r.base))
             go == Seeing([r EXCEPT !.pc = "write", !.new = new], c)
  <1>1. Still /\ setup' = setup /\ left' = left /\ r.pc = "reload"
    BY DEF reload, Still, gitVars, hostVars
  <1>2. /\ c \in Clones /\ CloneOK(c) /\ RunOK(store, r, answer[p]) /\ r.cut = TRUE /\ CutOK(store, r)
        /\ DOMAIN r = DOMAIN Idle /\ r.made \in BOOLEAN
    BY <1>1, CloneFacts DEF RunOK
  <1>3. \/ \E code : Runs(p, back(code), NoAnswer)
        \/ HeadCommit(c) = r.base /\ Runs(p, go, NoAnswer)
    BY DEF reload, Goto, Runs
  <1>4. ASSUME NEW code, Runs(p, back(code), NoAnswer)
        PROVE  \E s : Runs(p, s, NoAnswer) /\ RunOK(store, s, NoAnswer) /\ SameCreate(r, s) /\ s.pc = "restore"
    <2>1. back(code).pc = "restore" /\ SameCreate(r, back(code)) /\ back(code).made = r.made
      BY <1>2 DEF SameCreate, Idle
    <2> HIDE DEF back
    <2>2. RunOK(store, back(code), NoAnswer)
      BY <1>2, <2>1 DEF RunOK, SameCreate, CutOK
    <2> QED
      BY <1>4, <2>1, <2>2
  <1>5. CASE HeadCommit(c) = r.base /\ Runs(p, go, NoAnswer)
    <2>1. go.pc = "write" /\ SameCreate(r, go) /\ go.made = r.made /\ go.seen = HeadCommit(c) /\ go.new = new
      BY <1>2 DEF SameCreate, Idle, Seeing
    <2>2. TreeOK(new, Len(store))
      <3>1. NewManifest(p, r.base) \in [base : 1..Len(store), by : Procs, text : {1, 2}] \cup {None}
        BY <1>2 DEF NewManifest, CutOK
      <3>2. TreeOK(wt[c], Len(store)) /\ r.n \in Numbers
        BY <1>2 DEF CloneOK, CutOK
      <3> QED
        BY <3>1, <3>2, WithOK
    <2>3. new = With(wt[c], go.n, NewManifest(p, go.base)) /\ go.base = r.base
      BY <2>1 DEF SameCreate
    <2> HIDE DEF go, new
    <2>4. RunOK(store, go, NoAnswer)
      BY <1>2, <2>1, <2>2 DEF RunOK, SameCreate, CutOK
    <2>5. Holds(c, go)
      BY <2>1 DEF Holds
    <2> QED
      BY <1>1, <1>5, <2>1, <2>3, <2>4, <2>5
  <1> HIDE DEF back, go, new
  <1> QED
    BY <1>1, <1>3, <1>4, <1>5

(* A create that failed checks out the branch it came from ...             *)
GoesBack(c, r) ==
  /\ head[c] = r.name /\ r.original \in DOMAIN local[c] /\ ~Refused(c, local[c][r.original])
  /\ head' = [head EXCEPT ![c] = r.original]
  /\ wt' = [wt EXCEPT ![c] = Switched(c, local[c][r.original])]

(* ... and deletes its own, where it can.                                  *)
Deletes(c, r) ==
  /\ head'[c] = r.original /\ StillAtBase(r, local[c])
  /\ local' = [local EXCEPT ![c] = Without(@, r.name)]

KeepsRefs == DOMAIN local' = Clones /\ \A d \in Clones : local'[d] = local[d]

\* What a create has done is taken back, or not.
LEMMA RestoreSteps ==
    ASSUME TypeInv, NEW p \in Procs, restoreOriginalBranch(p), NEW c, c = cloneOf(p)
    PROVE  /\ UNCHANGED <<store, track, remote, pulls, setup>> /\ left' \in Bounds /\ proc[p].pc = "restore"
           /\ UNCHANGED <<head, wt>> \/ GoesBack(c, proc[p])
           /\ KeepsRefs \/ Deletes(c, proc[p])
           /\ \E a : /\ Runs(p, Idle, a)
                     /\ a.mutation = "none" =>
                          head'[c] = proc[p].original /\ proc[p].name \notin DOMAIN local'[c]
  <1> DEFINE r == proc[p]
             can == r.original \in DOMAIN local[c] /\ ~Refused(c, local[c][r.original])
             onNew == head[c] = r.name
             done == [op |-> "create", code |-> r.code, mutation |-> "none"]
             lost == [op |-> "create", code |-> "git.write_unknown", mutation |-> "unknown"]
  <1>1. UNCHANGED <<store, track, remote, pulls, setup>> /\ r.pc = "restore"
    BY DEF restoreOriginalBranch, hostVars
  <1>2. left' \in Bounds
    BY <1>1, LeftDown DEF restoreOriginalBranch, Fail
  <1>3. c \in Clones /\ DOMAIN local = Clones /\ DOMAIN head = Clones
    BY CloneFacts DEF TypeInv, ClonesOK
  <1>4. PICK switches \in {onNew /\ can, FALSE} :
          LET back == switches \/ head[c] = r.original
              refs == IF back /\ StillAtBase(r, local[c]) THEN Without(local[c], r.name) ELSE local[c]
          IN /\ head' = IF switches THEN [head EXCEPT ![c] = r.original] ELSE head
             /\ wt' = IF switches THEN [wt EXCEPT ![c] = Switched(c, local[c][r.original])] ELSE wt
             /\ local' = [local EXCEPT ![c] = refs]
             /\ IF Restored(c, r, back, refs) THEN Answer(p, "create", r.code, "none")
                ELSE Answer(p, "create", "git.write_unknown", "unknown")
    BY DEF restoreOriginalBranch
  <1> DEFINE back == switches \/ head[c] = r.original
             refs == IF back /\ StillAtBase(r, local[c]) THEN Without(local[c], r.name) ELSE local[c]
  <1>5. /\ head' = IF switches THEN [head EXCEPT ![c] = r.original] ELSE head
        /\ wt' = IF switches THEN [wt EXCEPT ![c] = Switched(c, local[c][r.original])] ELSE wt
        /\ local' = [local EXCEPT ![c] = refs]
        /\ IF back /\ r.name \notin DOMAIN refs THEN Runs(p, Idle, done) ELSE Runs(p, Idle, lost)
    BY <1>4 DEF Restored, Answer, Runs
  <1>6. switches => onNew /\ can
    BY <1>4
  <1>8. back => head'[c] = r.original
    <2>1. CASE switches
      BY <1>3, <1>5, <2>1
    <2>2. CASE ~switches
      BY <1>5, <2>2
    <2> QED
      BY <2>1, <2>2
  <1>9. UNCHANGED <<head, wt>> \/ GoesBack(c, r)
    BY <1>5, <1>6 DEF GoesBack
  <1>10. KeepsRefs \/ Deletes(c, r)
    <2>1. CASE back /\ StillAtBase(r, local[c])
      BY <1>5, <1>8, <2>1 DEF Deletes
    <2>2. CASE ~(back /\ StillAtBase(r, local[c]))
      BY <1>3, <1>5, <2>2 DEF KeepsRefs
    <2> QED
      BY <2>1, <2>2
  <1>11. local'[c] = refs
    BY <1>3, <1>5
  <1>12. \E a : Runs(p, Idle, a) /\ (a.mutation = "none" => head'[c] = r.original /\ r.name \notin DOMAIN local'[c])
    <2>1. CASE back /\ r.name \notin DOMAIN refs
      <3>1. Runs(p, Idle, done) /\ head'[c] = r.original /\ r.name \notin DOMAIN local'[c]
        BY <1>5, <1>8, <1>11, <2>1
      <3> HIDE DEF done, refs, back
      <3> QED
        BY <3>1
    <2>2. CASE ~(back /\ r.name \notin DOMAIN refs)
      <3>1. Runs(p, Idle, lost) /\ lost.mutation # "none"
        BY <1>5, <2>2
      <3> HIDE DEF lost, refs, back
      <3> QED
        BY <3>1
    <2> QED
      BY <2>1, <2>2
  <1> HIDE DEF done, lost, refs, back, can, onNew
  <1> QED
    BY <1>1, <1>2, <1>9, <1>10, <1>12

----------------------------------------------------------------------------
(* What a command is going to write *)

(* Manifest i of a tree that a command has made from the working tree: it  *)
(* is absent, it has the base it had, it has a free number and the base of *)
(* another one, or its base is a commit of the branch, one whose default   *)
(* branch does not hold the number.                                        *)
Edited(c, t, i) ==
  \/ t.sets[i] = None
  \/ wt[c].sets[i] # None /\ t.sets[i].base = wt[c].sets[i].base
  \/ \E n \in Numbers :
       /\ wt[c].sets[n] # None /\ t.sets[i].base = wt[c].sets[n].base
       /\ t.sets[i].base \in Known(c) /\ i \notin changeSetNumbers(c)
  \/ /\ t.sets[i].base \in Known(c) /\ isAncestor(t.sets[i].base, HeadCommit(c))
     /\ (commitOnDefaultBranch(c, t.sets[i].base) /\ head[c] # InitBranch)
          => TreeOf(t.sets[i].base).sets[i] = None

Writes(c, r) == Holds(c, r) /\ \A i \in Numbers : Edited(c, r.new, i)

\* What a clone knows.
LEMMA KnownFacts ==
    ASSUME NEW c \in Clones, CloneOK(c), StoreOK(store)
    PROVE  /\ Known(c) \subseteq Commits
           /\ \A b \in DOMAIN local[c] : local[c][b] \in Commits /\ store[local[c][b]].anc \subseteq Known(c)
           /\ \A b \in DOMAIN track[c] : track[c][b] \in Commits /\ store[track[c][b]].anc \subseteq Known(c)
           /\ \A k \in Known(c) :
                \/ \E b \in DOMAIN local[c] : k \in store[local[c][b]].anc
                \/ \E b \in DOMAIN track[c] : k \in store[track[c][b]].anc
           /\ HeadCommit(c) \in Commits /\ store[HeadCommit(c)].anc \subseteq Known(c)
  <1>1. \A k \in Known(c) : \/ \E b \in DOMAIN local[c] : k \in store[local[c][b]].anc
                            \/ \E b \in DOMAIN track[c] : k \in store[track[c][b]].anc
    BY DEF Known
  <1>2. /\ \A b \in DOMAIN local[c] : store[local[c][b]].anc \subseteq Known(c)
        /\ \A b \in DOMAIN track[c] : store[track[c][b]].anc \subseteq Known(c)
    BY Zenon DEF Known
  <1>3. /\ \A b \in DOMAIN local[c] : local[c][b] \in Commits
        /\ \A b \in DOMAIN track[c] : track[c][b] \in Commits
    BY DEF CloneOK, RefsIn, Commits
  <1>4. \A k \in Commits : store[k].anc \subseteq Commits
    BY DEF StoreOK, CommitOK, Commits
  <1>5. Known(c) \subseteq Commits
    BY <1>1, <1>3, <1>4
  <1>6. HeadCommit(c) \in Commits /\ store[HeadCommit(c)].anc \subseteq Known(c)
    BY <1>2, <1>3 DEF CloneOK, HeadCommit
  <1> QED
    BY <1>1, <1>2, <1>3, <1>5, <1>6

\* The history of a commit.
LEMMA Ancestors ==
    ASSUME StoreOK(store), NEW k \in Commits
    PROVE  /\ isAncestor(k, k) /\ store[k].anc \subseteq Commits
           /\ \A a : isAncestor(a, k) => a \in Commits /\ a <= k /\ store[a].anc \subseteq store[k].anc
           /\ TreeOK(TreeOf(k), Len(store)) /\ k \in Nat
  <1>1. CommitOK(store, k) /\ Len(store) \in Nat
    BY DEF StoreOK, Commits
  <1>2. \A a \in store[k].anc : a \in Commits /\ a <= k
    BY <1>1 DEF CommitOK, Commits
  <1> QED
    BY <1>1, <1>2 DEF CommitOK, TreeOf, isAncestor, Commits

\* A new manifest in the working tree.
LEMMA NewEdits ==
    ASSUME TypeInv, NEW p \in Procs, NEW c, c = cloneOf(p), NEW r, Holds(c, r), NEW n \in Numbers,
           NEW k \in Known(c), r.new = With(wt[c], n, NewManifest(p, k)),
           isAncestor(k, HeadCommit(c)),
           (commitOnDefaultBranch(c, k) /\ head[c] # InitBranch) => TreeOf(k).sets[n] = None
    PROVE  Writes(c, r)
  <1> DEFINE t == With(wt[c], n, NewManifest(p, k))
  <1>1. c \in Clones /\ CloneOK(c) /\ Known(c) \subseteq Commits
    BY CloneFacts, KnownFacts DEF TypeInv
  <1>2. TreeOK(wt[c], Len(store)) /\ NewManifest(p, k) \in [base : 1..Len(store), by : Procs, text : {1, 2}] \cup {None}
    BY <1>1 DEF NewManifest, Commits, CloneOK
  <1>3. t.sets[n].base = k /\ \A i \in Numbers : i # n => t.sets[i] = wt[c].sets[i]
    BY <1>2, WithOK DEF NewManifest
  <1> HIDE DEF t
  <1>4. \A i \in Numbers : Edited(c, t, i)
    <2> TAKE i \in Numbers
    <2>1. CASE i = n
      BY <1>3, <2>1 DEF Edited
    <2>2. CASE i # n
      BY <1>3, <2>2 DEF Edited
    <2> QED
      BY <2>1, <2>2
  <1> QED
    BY <1>4 DEF Writes, t

\* The first change set of the initialization branch is such a manifest.
LEMMA FirstWrites ==
    ASSUME TypeInv, NEW p \in Procs, NEW c, c = cloneOf(p), NEW r, FirstSet(p, c, r)
    PROVE  Writes(c, r)
  <1>1. /\ c \in Clones /\ CloneOK(c) /\ StoreOK(store) /\ local[c][Main] \in Commits
        /\ MaxNumber \in Nat \ {0}
    BY CloneFacts DEF TypeInv
  <1>2. local[c][Main] \in Known(c)
    BY <1>1, KnownFacts, Ancestors DEF CloneOK, RefsIn, isAncestor
  <1>3. 1 \in Numbers
    BY <1>1 DEF Numbers
  <1>4. /\ Holds(c, r) /\ r.new = With(wt[c], 1, NewManifest(p, local[c][Main])) /\ head[c] = InitBranch
        /\ isAncestor(local[c][Main], HeadCommit(c))
    BY DEF FirstSet
  <1> QED
    BY <1>2, <1>3, <1>4, NewEdits

----------------------------------------------------------------------------
(* The steps of a command that change no repository *)

(* The command of p ends, goes on with its create, or starts to write.     *)
Quiet(p, c, r, a) ==
  /\ Runs(p, r, a) /\ RunOK(store, r, a)
  /\ \/ r = Idle /\ (a.code # "OK" /\ a.mutation = "none" => ~proc[p].made)
     \/ a = NoAnswer /\ Planned(c, r) /\ r.name.slug \in Slugs /\ ~proc[p].made
     \/ a = NoAnswer /\ SameCreate(proc[p], r) /\ proc[p].cut /\ r.pc = "restore"
     \/ /\ a = NoAnswer /\ Writes(c, r)
        /\ r.cut => SameCreate(proc[p], r) /\ proc[p].cut

QuietStep(p, c) ==
  /\ Still /\ setup' = setup /\ left' \in Bounds
  /\ \E r, a : Quiet(p, c, r, a)

\* create is planned.
LEMMA PlanQuiet ==
    ASSUME TypeInv, NEW p \in Procs, Create(p), NEW c, c = cloneOf(p)
    PROVE  QuietStep(p, c)
  <1> PICK slug \in Slugs : planChangeSetBranch(p, slug)
    BY DEF Create
  <1>1. Still /\ setup' = setup /\ left' \in Bounds /\ proc[p].pc = "idle"
    BY PlanSteps
  <1>2. PICK r, a : /\ Runs(p, r, a) /\ RunOK(store, r, a)
                    /\ r = Idle \/ (a = NoAnswer /\ (FirstSet(p, c, r) \/ (Planned(c, r) /\ r.name.slug = slug)))
    BY PlanSteps
  <1>3. proc[p].made = FALSE
    BY <1>1, CloneFacts DEF RunOK, Idle
  <1>4. Quiet(p, c, r, a)
    <2>1. CASE r = Idle
      BY <1>2, <1>3, <2>1 DEF Quiet
    <2>2. CASE a = NoAnswer /\ FirstSet(p, c, r)
      <3>1. Writes(c, r) /\ ~r.cut
        BY <2>2, FirstWrites DEF FirstSet
      <3> QED
        BY <1>2, <2>2, <3>1 DEF Quiet
    <2>3. CASE a = NoAnswer /\ Planned(c, r) /\ r.name.slug = slug
      BY <1>2, <1>3, <2>3 DEF Quiet
    <2> QED
      BY <1>2, <2>1, <2>2, <2>3
  <1> QED
    BY <1>1, <1>4 DEF QuietStep

\* The project is read again.
LEMMA ReloadQuiet ==
    ASSUME TypeInv, NEW p \in Procs, reload(p), NEW c, c = cloneOf(p)
    PROVE  QuietStep(p, c)
  <1>1. /\ Still /\ setup' = setup /\ left' = left /\ proc[p].pc = "reload"
        /\ \E r : /\ Runs(p, r, NoAnswer) /\ RunOK(store, r, NoAnswer)
                  /\ SameCreate(proc[p], r)
                  /\ \/ r.pc = "restore"
                     \/ /\ Holds(c, r) /\ HeadCommit(c) = r.base
                        /\ r.new = With(wt[c], r.n, NewManifest(p, r.base))
    BY ReloadSteps
  <1>2. PICK r : /\ Runs(p, r, NoAnswer) /\ RunOK(store, r, NoAnswer)
                 /\ SameCreate(proc[p], r)
                 /\ \/ r.pc = "restore"
                    \/ /\ Holds(c, r) /\ HeadCommit(c) = r.base
                       /\ r.new = With(wt[c], r.n, NewManifest(p, r.base))
    BY <1>1
  <1>3. /\ c \in Clones /\ CloneOK(c) /\ StoreOK(store) /\ proc[p].cut /\ HeadCommit(c) \in Commits
        /\ CutOK(store, proc[p])
    BY <1>1, CloneFacts DEF RunOK, TypeInv
  <1>4. left' \in Bounds
    BY <1>1 DEF TypeInv
  <1>5. CASE r.pc = "restore"
    <2>1. Quiet(p, c, r, NoAnswer)
      BY <1>2, <1>3, <1>5 DEF Quiet
    <2> QED
      BY <1>1, <1>4, <2>1 DEF QuietStep
  <1>6. CASE Holds(c, r) /\ HeadCommit(c) = r.base /\ r.new = With(wt[c], r.n, NewManifest(p, r.base))
    <2>1. r.base \in Known(c) /\ isAncestor(r.base, HeadCommit(c))
      BY <1>3, <1>6, KnownFacts, Ancestors DEF isAncestor
    <2>2. r.n \in Numbers /\ TreeOf(r.base).sets[r.n] = None
      BY <1>2, <1>3 DEF SameCreate, CutOK, TreeOf
    <2>3. Writes(c, r)
      BY <1>6, <2>1, <2>2, NewEdits
    <2>4. Quiet(p, c, r, NoAnswer)
      BY <1>2, <1>3, <2>3 DEF Quiet
    <2> QED
      BY <1>1, <1>4, <2>4 DEF QuietStep
  <1> QED
    BY <1>2, <1>5, <1>6

\* An update or a renumber is refused, or has something to write.
LEMMA SubmitQuiet ==
    ASSUME TypeInv, NEW p \in Procs, NEW op, NEW code, NEW new, Submit(p, op, code, new),
           NEW c, c = cloneOf(p),
           code = "OK" => TreeOK(new, Len(store)) /\ \A i \in Numbers : Edited(c, new, i)
    PROVE  QuietStep(p, c)
  <1> DEFINE r == Seeing([Idle EXCEPT !.pc = "write", !.op = op, !.new = new], c)
             a == [op |-> op, code |-> code, mutation |-> "none"]
  <1>1. Still /\ setup' = setup /\ proc[p].pc = "idle"
    BY DEF Submit, Begin, Still, gitVars, hostVars
  <1>2. left' \in Bounds
    BY <1>1, LeftDown DEF Submit, Begin
  <1>3. IF code # "OK" THEN Runs(p, Idle, a) ELSE Runs(p, r, NoAnswer)
    BY DEF Submit, Answer, Goto, Runs
  <1>4. proc[p].made = FALSE
    BY <1>1, CloneFacts DEF RunOK, Idle
  <1>5. CASE code # "OK"
    <2>1. Quiet(p, c, Idle, a)
      BY <1>3, <1>4, <1>5, IdleOK DEF Quiet
    <2> QED
      BY <1>1, <1>2, <2>1 DEF QuietStep
  <1>6. CASE code = "OK"
    <2>1. /\ r.pc = "write" /\ r.cut = FALSE /\ r.made = FALSE /\ r.new = new /\ r.seen = HeadCommit(c)
          /\ DOMAIN r = DOMAIN Idle
      BY DEF Seeing, Idle
    <2>2. Runs(p, r, NoAnswer)
      BY <1>3, <1>6
    <2> HIDE DEF r
    <2>3. RunOK(store, r, NoAnswer)
      BY <1>6, <2>1 DEF RunOK
    <2>4. Writes(c, r)
      BY <1>6, <2>1 DEF Writes, Holds
    <2>5. Quiet(p, c, r, NoAnswer)
      BY <2>1, <2>2, <2>3, <2>4 DEF Quiet
    <2> QED
      BY <1>1, <1>2, <2>5 DEF QuietStep
  <1> QED
    BY <1>5, <1>6

\* update.
LEMMA UpdateQuiet ==
    ASSUME TypeInv, NEW p \in Procs, Update(p), NEW c, c = cloneOf(p)
    PROVE  QuietStep(p, c)
  <1>1. /\ c \in Clones /\ CloneOK(c) /\ StoreOK(store) /\ HeadCommit(c) \in Commits
        /\ Known(c) \subseteq Commits /\ TreeOK(wt[c], Len(store))
    BY CloneFacts, KnownFacts DEF TypeInv, CloneOK
  <1>2. ASSUME NEW n \in Numbers, UpdateText(p, n) PROVE QuietStep(p, c)
    <2> DEFINE new == [wt[c] EXCEPT !.sets[n].text = 2]
    <2>1. Submit(p, "update", proposedRefusal(c, n, FALSE), new)
      BY <1>2 DEF UpdateText
    <2>2. ASSUME proposedRefusal(c, n, FALSE) = "OK"
          PROVE  TreeOK(new, Len(store)) /\ \A i \in Numbers : Edited(c, new, i)
      <3>1. wt[c].sets[n] # None
        BY <2>2 DEF proposedRefusal
      <3>2. TreeOK(new, Len(store))
        BY <1>1, <3>1 DEF TreeOK
      <3>3. new.sets[n].base = wt[c].sets[n].base /\ \A i \in Numbers : i # n => new.sets[i] = wt[c].sets[i]
        BY <1>1, <3>1 DEF TreeOK
      <3> HIDE DEF new
      <3>4. \A i \in Numbers : Edited(c, new, i)
        BY <3>1, <3>3 DEF Edited
      <3> QED
        BY <3>2, <3>4
    <2> HIDE DEF new
    <2> QED
      BY <2>1, <2>2, SubmitQuiet
  <1>3. ASSUME NEW n \in Numbers, NEW k, UpdateBase(p, n, k) PROVE QuietStep(p, c)
    <2> DEFINE new == [wt[c] EXCEPT !.sets[n].base = k]
    <2>1. Submit(p, "update", baseRefusal(c, n, k), new) /\ k \in Known(c)
      BY <1>3 DEF UpdateBase
    <2>2. ASSUME baseRefusal(c, n, k) = "OK"
          PROVE  TreeOK(new, Len(store)) /\ \A i \in Numbers : Edited(c, new, i)
      <3>1. /\ proposedRefusal(c, n, TRUE) = "OK" /\ descendsFrom(c, k)
            /\ commitOnDefaultBranch(c, k) => TreeOf(k).sets[n] = None
        BY <2>2 DEF baseRefusal
      <3>2. wt[c].sets[n] # None
        BY <3>1 DEF proposedRefusal
      <3>3. TreeOK(new, Len(store))
        BY <1>1, <2>1, <3>2 DEF TreeOK, Commits
      <3>4. new.sets[n].base = k /\ \A i \in Numbers : i # n => new.sets[i] = wt[c].sets[i]
        BY <1>1, <3>2 DEF TreeOK
      <3> HIDE DEF new
      <3>5. \A i \in Numbers : Edited(c, new, i)
        BY <2>1, <3>1, <3>4 DEF Edited, descendsFrom
      <3> QED
        BY <3>3, <3>5
    <2> HIDE DEF new
    <2> QED
      BY <2>1, <2>2, SubmitQuiet
  <1> QED
    BY <1>2, <1>3 DEF Update

\* renumber.
LEMMA RenumberQuiet ==
    ASSUME TypeInv, NEW p \in Procs, RenumberSome(p), NEW c, c = cloneOf(p)
    PROVE  QuietStep(p, c)
  <1>1. /\ c \in Clones /\ CloneOK(c) /\ StoreOK(store) /\ HeadCommit(c) \in Commits
        /\ Known(c) \subseteq Commits /\ TreeOK(wt[c], Len(store)) /\ MaxNumber \in Nat \ {0}
    BY CloneFacts, KnownFacts DEF TypeInv, CloneOK
  <1>2. PICK n \in Numbers, to \in 0..MaxNumber : Renumber(p, n, to)
    BY DEF RenumberSome
  <1> DEFINE m == IF to = 0 THEN highestChangeSetNumber(c) + 1 ELSE to
             code == CASE renumberRefusal(c, n) # "OK" -> renumberRefusal(c, n)
                       [] renumberRefusal(c, n) = "OK" /\ m > MaxNumber -> "change_set.sequence_exhausted"
                       [] renumberRefusal(c, n) = "OK" /\ m \in changeSetNumbers(c) -> "change_set.id_collision"
                       [] OTHER -> "OK"
             moved == With(With(wt[c], n, None), m, wt[c].sets[n])
             new == IF code = "OK" THEN moved ELSE wt[c]
  <1>3. Submit(p, "renumber", code, new)
    BY <1>2 DEF Renumber
  <1>4. ASSUME code = "OK" PROVE TreeOK(new, Len(store)) /\ \A i \in Numbers : Edited(c, new, i)
    <2>1. renumberRefusal(c, n) = "OK" /\ ~(m > MaxNumber) /\ m \notin changeSetNumbers(c)
      BY <1>4
    <2>2. m \in Numbers
      <3>1. highestChangeSetNumber(c) \in 0..MaxNumber
        BY <1>1, HighestNumber
      <3> QED
        BY <1>1, <2>1, <3>1 DEF Numbers
    <2> HIDE DEF m
    <2>3. wt[c].sets[n] # None /\ wt[c].sets[n].base \in Known(c)
      BY <2>1 DEF renumberRefusal, proposedRefusal
    <2>4. wt[c].sets[n] \in [base : 1..Len(store), by : Procs, text : {1, 2}] \cup {None}
      BY <1>1 DEF TreeOK
    <2>5. /\ TreeOK(With(wt[c], n, None), Len(store)) /\ With(wt[c], n, None).sets[n] = None
          /\ \A i \in Numbers : i # n => With(wt[c], n, None).sets[i] = wt[c].sets[i]
      BY <1>1, WithOK
    <2>6. /\ TreeOK(moved, Len(store)) /\ moved.sets[m] = wt[c].sets[n]
          /\ \A i \in Numbers : i # m => moved.sets[i] = With(wt[c], n, None).sets[i]
      BY <1>1, <2>2, <2>4, <2>5, WithOK
    <2>7. new = moved
      BY <1>4
    <2> HIDE DEF new, moved
    <2>8. \A i \in Numbers : Edited(c, new, i)
      <3> TAKE i \in Numbers
      <3>1. CASE i = m
        BY <2>1, <2>3, <2>6, <2>7, <3>1 DEF Edited
      <3>2. CASE i # m /\ i = n
        BY <2>5, <2>6, <2>7, <3>2 DEF Edited
      <3>3. CASE i # m /\ i # n
        BY <2>5, <2>6, <2>7, <3>3 DEF Edited
      <3> QED
        BY <3>1, <3>2, <3>3
    <2> QED
      BY <2>6, <2>7, <2>8
  <1> HIDE DEF code, new
  <1> QED
    BY <1>3, <1>4, SubmitQuiet

(* The command of p replaces the working tree that it has read.            *)
WriteStep(p, c) ==
  /\ proc[p].pc = "write" /\ proc[p].seen = HeadCommit(c)
  /\ UNCHANGED <<store, local, track, head, remote, pulls, setup>> /\ left' \in Bounds
  /\ wt' = [wt EXCEPT ![c] = proc[p].new]
  /\ \E a : Runs(p, Idle, a) /\ ~(a.code # "OK" /\ a.mutation = "none")

\* A transaction writes, or ends without a change.
LEMMA ApplySteps ==
    ASSUME TypeInv, NEW p \in Procs, applyStateTransaction(p), NEW c, c = cloneOf(p)
    PROVE  QuietStep(p, c) \/ WriteStep(p, c)
  <1> DEFINE r == proc[p]
             back(code) == [r EXCEPT !.pc = "restore", !.code = code]
             end(code, mutation) == [op |-> r.op, code |-> code, mutation |-> mutation]
             Ended(code, mutation) ==
               IF r.cut /\ code # "OK" /\ mutation = "none" THEN Runs(p, back(code), NoAnswer)
               ELSE Runs(p, Idle, end(code, mutation))
  <1>1. /\ UNCHANGED <<store, local, track, head, remote, pulls, setup>> /\ r.pc = "write"
        /\ \/ /\ wt' = wt
              /\ \E code : Ended(code, "none") \/ Ended("storage.write_unknown", "unknown")
           \/ /\ HeadCommit(c) = r.seen /\ wt' = [wt EXCEPT ![c] = r.new]
              /\ Ended("OK", "applied") \/ Ended("storage.write_unknown", "unknown")
    BY DEF applyStateTransaction, Goto, Answer, Runs, gitVars, hostVars
  <1>2. left' \in Bounds
    BY <1>1, LeftDown DEF applyStateTransaction, Fail
  <1>3. RunOK(store, r, answer[p]) /\ DOMAIN r = DOMAIN Idle /\ r.cut \in BOOLEAN /\ r.made \in BOOLEAN
        /\ (r.made => r.cut) /\ (r.cut => CutOK(store, r))
    BY CloneFacts DEF RunOK
  <1>4. ASSUME NEW code, wt' = wt, Ended(code, "none") PROVE QuietStep(p, c)
    <2>1. CASE r.cut /\ code # "OK"
      <3>1. Runs(p, back(code), NoAnswer)
        BY <1>4, <2>1
      <3>2. back(code).pc = "restore" /\ SameCreate(r, back(code)) /\ back(code).made = r.made
        BY <1>3 DEF SameCreate, Idle
      <3> HIDE DEF back
      <3>3. RunOK(store, back(code), NoAnswer)
        BY <1>3, <2>1, <3>2 DEF RunOK, SameCreate, CutOK
      <3>4. Quiet(p, c, back(code), NoAnswer)
        BY <2>1, <3>1, <3>2, <3>3 DEF Quiet
      <3> QED
        BY <1>1, <1>2, <1>4, <3>4 DEF QuietStep, Still
    <2>2. CASE ~(r.cut /\ code # "OK")
      <3>1. Runs(p, Idle, end(code, "none"))
        BY <1>4, <2>2
      <3>2. Quiet(p, c, Idle, end(code, "none"))
        BY <1>3, <2>2, <3>1, IdleOK DEF Quiet
      <3> QED
        BY <1>1, <1>2, <1>4, <3>2 DEF QuietStep, Still
    <2> QED
      BY <2>1, <2>2
  <1>5. CASE wt' = wt /\ Ended("storage.write_unknown", "unknown")
    <2>1. Quiet(p, c, Idle, end("storage.write_unknown", "unknown"))
      BY <1>5, IdleOK DEF Quiet
    <2> QED
      BY <1>1, <1>2, <1>5, <2>1 DEF QuietStep, Still
  <1>6. CASE /\ HeadCommit(c) = r.seen /\ wt' = [wt EXCEPT ![c] = r.new]
             /\ Ended("OK", "applied") \/ Ended("storage.write_unknown", "unknown")
    <2>1. \E a : Runs(p, Idle, a) /\ ~(a.code # "OK" /\ a.mutation = "none")
      <3>1. CASE Ended("OK", "applied")
        BY <3>1
      <3>2. CASE Ended("storage.write_unknown", "unknown")
        BY <3>2
      <3> QED
        BY <1>6, <3>1, <3>2
    <2> QED
      BY <1>1, <1>2, <1>6, <2>1 DEF WriteStep
  <1> HIDE DEF Ended
  <1> QED
    BY <1>1, <1>4, <1>5, <1>6

----------------------------------------------------------------------------
(* The steps of the users, the Source Control Manager and the host         *)

(* A commit on the branch that is checked out: of the working tree, or of  *)
(* a merge of the default branch.                                          *)
Grows(c) ==
  /\ head[c] # Main
  /\ \E theirs \in SUBSET {track[c][Main]} :
       /\ Later /\ Added(Len(store) + 1, {HeadCommit(c)} \cup theirs, wt'[c]) /\ TreeOK(wt'[c], Len(store))
       /\ \A n \in Numbers :
            wt'[c].sets[n] = wt[c].sets[n] \/ \E k \in theirs : wt'[c].sets[n] = TreeOf(k).sets[n]
  /\ OnlyClone(c) /\ local'[c] = [local[c] EXCEPT ![head[c]] = Len(store) + 1]
  /\ UNCHANGED <<track, head, remote, pulls>>

UserStep == UNCHANGED <<proc, answer, setup>> /\ left' \in Bounds

\* What a merge takes from where.
LEMMA MergedFacts ==
    ASSUME NEW a, NEW b, TreeOK(TreeOf(a), Len(store)), TreeOK(TreeOf(b), Len(store))
    PROVE  /\ TreeOK(Merged(a, b), Len(store))
           /\ \A n \in Numbers : Merged(a, b).sets[n] = TreeOf(a).sets[n] \/ Merged(a, b).sets[n] = TreeOf(b).sets[n]
  BY DEF TreeOK, Merged, Picked

\* The user commits the working tree.
LEMMA CommitGrows ==
    ASSUME TypeInv, NEW c \in Clones, CommitAll(c)
    PROVE  Grows(c) /\ UserStep
  <1>1. CloneOK(c) /\ StoreOK(store) /\ HeadCommit(c) \in Commits /\ TreeOK(wt[c], Len(store))
    <2>1. CloneOK(c) /\ StoreOK(store)
      BY DEF TypeInv, ClonesOK
    <2> QED
      BY <2>1, KnownFacts DEF CloneOK
  <1>2. UNCHANGED <<proc, answer, setup>> /\ left' \in Bounds
    BY LeftDown DEF CommitAll, CommandsUnchanged, Move
  <1>3. Later /\ Added(Len(store) + 1, {HeadCommit(c)}, wt[c])
    BY <1>1, LaterGrown DEF CommitAll
  <1>4. UNCHANGED <<track, head, wt, remote, pulls>> /\ head[c] # Main
        /\ local' = [local EXCEPT ![c][head[c]] = Len(store) + 1]
    BY DEF CommitAll, hostVars
  <1>5. OnlyClone(c) /\ local'[c] = [local[c] EXCEPT ![head[c]] = Len(store) + 1]
    BY <1>4 DEF TypeInv, ClonesOK, OnlyClone
  <1>6. \E theirs \in SUBSET {track[c][Main]} :
          /\ Later /\ Added(Len(store) + 1, {HeadCommit(c)} \cup theirs, wt'[c]) /\ TreeOK(wt'[c], Len(store))
          /\ \A n \in Numbers :
               wt'[c].sets[n] = wt[c].sets[n] \/ \E k \in theirs : wt'[c].sets[n] = TreeOf(k).sets[n]
    <2> WITNESS {} \in SUBSET {track[c][Main]}
    <2>1. {HeadCommit(c)} \cup {} = {HeadCommit(c)}
      OBVIOUS
    <2> QED
      BY <1>1, <1>3, <1>4, <2>1
  <1> QED
    BY <1>2, <1>4, <1>5, <1>6 DEF Grows, UserStep

\* The user merges the default branch.
LEMMA MergeGrows ==
    ASSUME TypeInv, NEW c \in Clones, MergeDefault(c)
    PROVE  Grows(c) /\ UserStep
  <1> DEFINE ours == HeadCommit(c)
             theirs == track[c][Main]
             tree == Merged(ours, theirs)
  <1>1. CloneOK(c) /\ StoreOK(store) /\ ours \in Commits /\ theirs \in Commits
    <2>1. CloneOK(c) /\ StoreOK(store)
      BY DEF TypeInv, ClonesOK
    <2> QED
      BY <2>1, KnownFacts DEF CloneOK, RefsIn
  <1>2. UNCHANGED <<proc, answer, setup>> /\ left' \in Bounds
    BY LeftDown DEF MergeDefault, CommandsUnchanged, Move
  <1>3. /\ store' = Append(store, NewCommit({ours, theirs}, tree)) /\ head[c] # Main
        /\ local' = [local EXCEPT ![c][head[c]] = Len(store) + 1]
        /\ wt' = [wt EXCEPT ![c] = tree] /\ wt[c] = TreeOf(ours)
        /\ UNCHANGED <<track, head, remote, pulls>>
    BY DEF MergeDefault, hostVars, Dirty, HeadTree
  <1>4. TreeOK(TreeOf(ours), Len(store)) /\ TreeOK(TreeOf(theirs), Len(store))
    BY <1>1, Ancestors
  <1> HIDE DEF ours, theirs
  <1>5. /\ TreeOK(tree, Len(store))
        /\ \A n \in Numbers : tree.sets[n] = TreeOf(ours).sets[n] \/ tree.sets[n] = TreeOf(theirs).sets[n]
    BY <1>4, MergedFacts
  <1> HIDE DEF tree
  <1>6. Later /\ Added(Len(store) + 1, {ours, theirs}, tree)
    BY <1>1, <1>3, <1>5, LaterGrown
  <1>7. /\ OnlyClone(c) /\ local'[c] = [local[c] EXCEPT ![head[c]] = Len(store) + 1]
        /\ wt'[c] = tree
    BY <1>3 DEF TypeInv, ClonesOK, OnlyClone
  <1>8. \E k \in SUBSET {track[c][Main]} :
          /\ Later /\ Added(Len(store) + 1, {HeadCommit(c)} \cup k, wt'[c]) /\ TreeOK(wt'[c], Len(store))
          /\ \A n \in Numbers :
               wt'[c].sets[n] = wt[c].sets[n] \/ \E j \in k : wt'[c].sets[n] = TreeOf(j).sets[n]
    <2> WITNESS {track[c][Main]} \in SUBSET {track[c][Main]}
    <2>1. {HeadCommit(c)} \cup {track[c][Main]} = {ours, theirs} /\ theirs \in {track[c][Main]}
      BY DEF ours, theirs
    <2> QED
      BY <1>3, <1>5, <1>6, <1>7, <2>1
  <1> QED
    BY <1>2, <1>3, <1>7, <1>8 DEF Grows, UserStep

FetchStep(c) ==
  /\ UNCHANGED <<store, head, remote, pulls>> /\ OnlyClone(c) /\ track'[c] = remote
  /\ \/ local'[c] = local[c] /\ wt'[c] = wt[c]
     \/ /\ isAncestor(local[c][Main], remote[Main])
        /\ local'[c] = [local[c] EXCEPT ![Main] = remote[Main]]
        /\ \/ head[c] # Main /\ wt'[c] = wt[c]
           \/ head[c] = Main /\ ~Refused(c, remote[Main]) /\ wt'[c] = Switched(c, remote[Main])

\* A fetch.
LEMMA FetchSteps ==
    ASSUME TypeInv, NEW c \in Clones, Fetches(c)
    PROVE  FetchStep(c) /\ UserStep
  <1>1. PICK forward \in BOOLEAN : Fetch(c, forward)
    BY DEF Fetches
  <1>2. UNCHANGED <<proc, answer, setup>> /\ left' \in Bounds
    BY <1>1, LeftDown DEF Fetch, CommandsUnchanged, Move
  <1>3. UNCHANGED <<store, head, remote, pulls>> /\ track' = [track EXCEPT ![c] = remote]
    BY <1>1 DEF Fetch, hostVars
  <1>4. DOMAIN local = Clones /\ DOMAIN track = Clones /\ DOMAIN head = Clones /\ DOMAIN wt = Clones
    BY DEF TypeInv, ClonesOK
  <1>5. CASE UNCHANGED <<local, wt>>
    BY <1>2, <1>3, <1>4, <1>5 DEF FetchStep, UserStep, OnlyClone
  <1>6. CASE /\ isAncestor(local[c][Main], remote[Main]) /\ (head[c] = Main => ~Refused(c, remote[Main]))
             /\ local' = [local EXCEPT ![c][Main] = remote[Main]]
             /\ wt' = IF head[c] = Main THEN [wt EXCEPT ![c] = Switched(c, remote[Main])] ELSE wt
    <2>1. OnlyClone(c) /\ track'[c] = remote /\ local'[c] = [local[c] EXCEPT ![Main] = remote[Main]]
      BY <1>3, <1>4, <1>6 DEF OnlyClone
    <2>2. \/ head[c] # Main /\ wt'[c] = wt[c]
          \/ head[c] = Main /\ ~Refused(c, remote[Main]) /\ wt'[c] = Switched(c, remote[Main])
      BY <1>4, <1>6
    <2> QED
      BY <1>2, <1>3, <1>6, <2>1, <2>2 DEF FetchStep, UserStep
  <1>7. \/ UNCHANGED <<local, wt>>
        \/ /\ isAncestor(local[c][Main], remote[Main]) /\ (head[c] = Main => ~Refused(c, remote[Main]))
           /\ local' = [local EXCEPT ![c][Main] = remote[Main]]
           /\ wt' = IF head[c] = Main THEN [wt EXCEPT ![c] = Switched(c, remote[Main])] ELSE wt
    BY <1>1 DEF Fetch
  <1> QED
    BY <1>5, <1>6, <1>7

SwitchStep(c) ==
  /\ UNCHANGED <<store, local, track, remote, pulls>> /\ OnlyClone(c) /\ ~Dirty(c)
  /\ \E b \in DOMAIN local[c] : head'[c] = b /\ wt'[c] = TreeOf(local[c][b])

\* A user checks out another branch.
LEMMA SwitchSteps ==
    ASSUME TypeInv, NEW c \in Clones, Switches(c)
    PROVE  SwitchStep(c) /\ UserStep
  <1>1. PICK b \in DOMAIN local[c] : Switch(c, b)
    BY DEF Switches
  <1>2. UNCHANGED <<proc, answer, setup>> /\ left' \in Bounds
    BY <1>1, LeftDown DEF Switch, CommandsUnchanged, Move
  <1>3. DOMAIN local = Clones /\ DOMAIN track = Clones /\ DOMAIN head = Clones /\ DOMAIN wt = Clones
    BY DEF TypeInv, ClonesOK
  <1>4. UNCHANGED <<store, local, track, remote, pulls>> /\ OnlyClone(c) /\ ~Dirty(c)
    BY <1>1, <1>3 DEF Switch, OnlyClone, hostVars
  <1>5. head'[c] = b /\ wt'[c] = TreeOf(local[c][b])
    BY <1>1, <1>3 DEF Switch, Switched, Dirty
  <1> QED
    BY <1>2, <1>4, <1>5 DEF SwitchStep, UserStep

RenameStep(c) ==
  /\ UNCHANGED <<store, track, wt, remote>> /\ OnlyClone(c) /\ head[c] # Main
  /\ \E b : /\ b.n \in Numbers /\ b.slug = head[c].slug /\ b \notin DOMAIN local[c]
            /\ local'[c] = Put(Without(local[c], head[c]), b, HeadCommit(c)) /\ head'[c] = b
  /\ DOMAIN pulls' = DOMAIN pulls
  /\ \A b \in DOMAIN pulls : \/ pulls'[b] = pulls[b] /\ ~(b = head[c] /\ pulls[b] = "open")
                             \/ pulls'[b] = "closed"

\* A branch takes the number of its change set.
LEMMA RenameSteps ==
    ASSUME TypeInv, NEW c \in Clones, Renames(c)
    PROVE  RenameStep(c) /\ UserStep
  <1>1. PICK n \in Numbers : RenameBranch(c, n)
    BY DEF Renames
  <1> DEFINE b == Branch(n, head[c].slug)
  <1>2. UNCHANGED <<proc, answer, setup>> /\ left' \in Bounds
    BY <1>1, LeftDown DEF RenameBranch, CommandsUnchanged, Move
  <1>3. DOMAIN local = Clones /\ DOMAIN track = Clones /\ DOMAIN head = Clones /\ DOMAIN wt = Clones
    BY DEF TypeInv, ClonesOK
  <1>4. /\ UNCHANGED <<store, track, wt, remote>> /\ head[c] # Main /\ b \notin DOMAIN local[c]
        /\ local' = [local EXCEPT ![c] = Put(Without(@, head[c]), b, HeadCommit(c))]
        /\ head' = [head EXCEPT ![c] = b]
        /\ pulls' = [d \in DOMAIN pulls |-> IF d = head[c] /\ pulls[d] = "open" THEN "closed" ELSE pulls[d]]
    BY <1>1 DEF RenameBranch
  <1>5. b.n = n /\ b.slug = head[c].slug
    BY DEF Branch
  <1> HIDE DEF b
  <1>6. OnlyClone(c) /\ local'[c] = Put(Without(local[c], head[c]), b, HeadCommit(c)) /\ head'[c] = b
    BY <1>3, <1>4 DEF OnlyClone
  <1>7. /\ DOMAIN pulls' = DOMAIN pulls
        /\ \A d \in DOMAIN pulls : \/ pulls'[d] = pulls[d] /\ ~(d = head[c] /\ pulls[d] = "open")
                                   \/ pulls'[d] = "closed"
    BY <1>4
  <1> QED
    BY <1>2, <1>4, <1>5, <1>6, <1>7 DEF RenameStep, UserStep

PublishStep(c) ==
  /\ UNCHANGED <<store, local, head, wt>> /\ OnlyClone(c)
  /\ LET b == head[c]
     IN /\ b.n \in Numbers /\ wt[c].sets[b.n] # None /\ wt[c].sets[b.n].base = remote[Main]
        /\ isAncestor(remote[Main], HeadCommit(c))
        /\ b \in DOMAIN remote => isAncestor(remote[b], HeadCommit(c))
        /\ remote' = Put(remote, b, HeadCommit(c)) /\ track'[c] = remote'
        /\ pulls' = Put(pulls, b, "open")

\* A branch is published.
LEMMA PublishSteps ==
    ASSUME TypeInv, NEW c \in Clones, Publish(c)
    PROVE  PublishStep(c) /\ UserStep
  <1> DEFINE b == head[c]
  <1>1. UNCHANGED <<proc, answer, setup>> /\ left' \in Bounds
    BY LeftDown DEF Publish, CommandsUnchanged, Move
  <1>2. DOMAIN local = Clones /\ DOMAIN track = Clones /\ DOMAIN head = Clones /\ DOMAIN wt = Clones
    BY DEF TypeInv, ClonesOK
  <1>3. /\ UNCHANGED <<store, local, head, wt>>
        /\ b.n \in Numbers /\ wt[c].sets[b.n] # None
        /\ publishBase(c, remote[Main]) = "OK"
        /\ b \in DOMAIN remote => isAncestor(remote[b], HeadCommit(c))
        /\ remote' = Put(remote, b, HeadCommit(c))
        /\ track' = [track EXCEPT ![c] = remote']
        /\ pulls' = Put(pulls, b, "open")
    BY DEF Publish
  <1>4. wt[c].sets[b.n].base = remote[Main] /\ isAncestor(remote[Main], HeadCommit(c))
    BY <1>3 DEF publishBase
  <1>5. OnlyClone(c) /\ track'[c] = remote'
    BY <1>2, <1>3 DEF OnlyClone
  <1> QED
    BY <1>1, <1>3, <1>4, <1>5 DEF PublishStep, UserStep

LandStep(b) ==
  /\ UNCHANGED <<local, track, head, wt>>
  /\ b \in DOMAIN pulls /\ pulls[b] = "open" /\ Conflicts(remote[Main], remote[b]) = {}
  /\ Later /\ Added(Len(store) + 1, {remote[Main], remote[b]}, Merged(remote[Main], remote[b]))
  /\ remote' = [remote EXCEPT ![Main] = Len(store) + 1]
  /\ pulls' = [pulls EXCEPT ![b] = "merged"]

\* A branch lands.
LEMMA LandSteps ==
    ASSUME TypeInv, NEW b, Land(b)
    PROVE  LandStep(b) /\ UserStep
  <1> DEFINE ours == remote[Main]
             theirs == remote[b]
             tree == Merged(ours, theirs)
  <1>1. UNCHANGED <<proc, answer, setup>> /\ left' \in Bounds
    BY LeftDown DEF Land, CommandsUnchanged, Move
  <1>2. /\ UNCHANGED <<local, track, head, wt>>
        /\ b \in DOMAIN pulls /\ pulls[b] = "open" /\ Conflicts(ours, theirs) = {}
        /\ store' = Append(store, NewCommit({ours, theirs}, tree))
        /\ remote' = [remote EXCEPT ![Main] = Len(store) + 1]
        /\ pulls' = [pulls EXCEPT ![b] = "merged"]
    BY DEF Land
  <1>3. StoreOK(store) /\ ours \in Commits /\ theirs \in Commits
    BY <1>2 DEF TypeInv, HostOK, RefsIn, Commits
  <1>4. TreeOK(TreeOf(ours), Len(store)) /\ TreeOK(TreeOf(theirs), Len(store))
    BY <1>3, Ancestors
  <1>5. TreeOK(tree, Len(store))
    BY <1>4, MergedFacts
  <1>6. Later /\ Added(Len(store) + 1, {ours, theirs}, tree)
    <2> HIDE DEF ours, theirs, tree
    <2> QED
      BY <1>2, <1>3, <1>5, LaterGrown
  <1> QED
    BY <1>1, <1>2, <1>6 DEF LandStep, UserStep

----------------------------------------------------------------------------
(* Every step is one of these. *)

CutStep(p, c) ==
  /\ UNCHANGED <<store, track, remote, pulls, setup>> /\ left' \in Bounds /\ proc[p].pc = "cut"
  /\ \E r, a : /\ Runs(p, r, a) /\ RunOK(store, r, a)
               /\ \/ r = Idle /\ UNCHANGED <<local, head, wt>>
                  \/ /\ SameCreate(proc[p], r) /\ a = NoAnswer
                     /\ \/ r.pc = "restore" /\ UNCHANGED <<local, head, wt>>
                        \/ r.pc \in {"reload", "restore"} /\ Cuts(c, proc[p])

RestoreStep(p, c) ==
  /\ UNCHANGED <<store, track, remote, pulls, setup>> /\ left' \in Bounds /\ proc[p].pc = "restore"
  /\ UNCHANGED <<head, wt>> \/ GoesBack(c, proc[p])
  /\ KeepsRefs \/ Deletes(c, proc[p])
  /\ \E a : /\ Runs(p, Idle, a)
            /\ a.mutation = "none" =>
                 head'[c] = proc[p].original /\ proc[p].name \notin DOMAIN local'[c]

CommandStep(p, c) == QuietStep(p, c) \/ WriteStep(p, c) \/ CutStep(p, c) \/ RestoreStep(p, c)
CloneStep(c) == Grows(c) \/ FetchStep(c) \/ SwitchStep(c) \/ RenameStep(c) \/ PublishStep(c)

\* What a step of the specification is.
LEMMA Steps ==
    ASSUME TypeInv, [Next]_vars
    PROVE  \/ UNCHANGED vars
           \/ \E p \in Procs : CommandStep(p, cloneOf(p))
           \/ UserStep /\ \E c \in Clones : CloneStep(c)
           \/ UserStep /\ \E b \in DOMAIN pulls : LandStep(b)
  <1>1. ASSUME NEW p \in Procs, Create(p) \/ reload(p) \/ Update(p) \/ RenumberSome(p) \/ applyStateTransaction(p)
        PROVE  CommandStep(p, cloneOf(p))
    BY <1>1, PlanQuiet, ReloadQuiet, UpdateQuiet, RenumberQuiet, ApplySteps DEF CommandStep
  <1>2. ASSUME NEW p \in Procs, cutChangeSetBranch(p) PROVE CommandStep(p, cloneOf(p))
    <2>1. CutStep(p, cloneOf(p))
      BY <1>2, CutSteps DEF CutStep
    <2> QED
      BY <2>1 DEF CommandStep
  <1>3. ASSUME NEW p \in Procs, restoreOriginalBranch(p) PROVE CommandStep(p, cloneOf(p))
    <2>1. RestoreStep(p, cloneOf(p))
      BY <1>3, RestoreSteps DEF RestoreStep
    <2> QED
      BY <2>1 DEF CommandStep
  <1>4. ASSUME NEW c \in Clones,
               CommitAll(c) \/ Fetches(c) \/ MergeDefault(c) \/ Switches(c) \/ Renames(c) \/ Publish(c)
        PROVE  UserStep /\ CloneStep(c)
    BY <1>4, CommitGrows, MergeGrows, FetchSteps, SwitchSteps, RenameSteps, PublishSteps DEF CloneStep
  <1>5. ASSUME Lands PROVE UserStep /\ \E b \in DOMAIN pulls : LandStep(b)
    BY <1>5, LandSteps DEF Lands
  <1> QED
    BY <1>1, <1>2, <1>3, <1>4, <1>5 DEF Next

----------------------------------------------------------------------------
(* The types are kept *)

\* What a cut changes.
LEMMA CutFacts ==
    ASSUME TypeInv, NEW c \in Clones, NEW r, Cuts(c, r), UNCHANGED track
    PROVE  /\ OnlyClone(c) /\ local'[c] = Put(local[c], r.name, r.base) /\ track'[c] = track[c]
           /\ head'[c] = r.name /\ wt'[c] = Switched(c, r.base)
  BY DEF TypeInv, ClonesOK, Cuts, OnlyClone

\* What a rollback changes.
LEMMA RestoreFacts ==
    ASSUME TypeInv, NEW p \in Procs, NEW c, c = cloneOf(p), RestoreStep(p, c)
    PROVE  /\ OnlyClone(c) /\ track'[c] = track[c] /\ CutOK(store, proc[p]) /\ proc[p].cut
           /\ \/ head'[c] = head[c] /\ wt'[c] = wt[c]
              \/ /\ ~Refused(c, local[c][proc[p].original]) /\ proc[p].original \in DOMAIN local[c]
                 /\ head'[c] = proc[p].original /\ wt'[c] = Switched(c, local[c][proc[p].original])
           /\ \/ local'[c] = local[c]
              \/ /\ StillAtBase(proc[p], local[c]) /\ local'[c] = Without(local[c], proc[p].name)
                 /\ head'[c] = proc[p].original
           /\ head'[c] \in DOMAIN local'[c]
  <1> DEFINE r == proc[p]
  <1>1. /\ c \in Clones /\ CloneOK(c) /\ RunOK(store, r, answer[p]) /\ CutOK(store, r) /\ r.cut
        /\ DOMAIN local = Clones /\ DOMAIN track = Clones /\ DOMAIN head = Clones /\ DOMAIN wt = Clones
    BY CloneFacts DEF RunOK, RestoreStep, TypeInv, ClonesOK
  <1>2. /\ track' = track
        /\ UNCHANGED <<head, wt>> \/ GoesBack(c, r)
        /\ KeepsRefs \/ Deletes(c, r)
    BY DEF RestoreStep
  <1> HIDE DEF r
  <1>3. /\ DOMAIN head' = Clones /\ DOMAIN wt' = Clones
        /\ \A d \in Clones \ {c} : head'[d] = head[d] /\ wt'[d] = wt[d]
        /\ \/ head'[c] = head[c] /\ wt'[c] = wt[c]
           \/ /\ ~Refused(c, local[c][r.original]) /\ r.original \in DOMAIN local[c]
              /\ head'[c] = r.original /\ wt'[c] = Switched(c, local[c][r.original])
    <2>1. CASE UNCHANGED <<head, wt>>
      BY <1>1, <2>1
    <2>2. CASE GoesBack(c, r)
      BY <1>1, <2>2 DEF GoesBack
    <2> QED
      BY <1>2, <2>1, <2>2
  <1>4. /\ DOMAIN local' = Clones
        /\ \A d \in Clones \ {c} : local'[d] = local[d]
        /\ \/ local'[c] = local[c]
           \/ /\ StillAtBase(r, local[c]) /\ local'[c] = Without(local[c], r.name)
              /\ head'[c] = r.original
    <2>1. CASE KeepsRefs
      BY <1>1, <2>1 DEF KeepsRefs
    <2>2. CASE Deletes(c, r)
      BY <1>1, <2>2 DEF Deletes
    <2> QED
      BY <1>2, <2>1, <2>2
  <1>5. head'[c] \in DOMAIN local[c]
    BY <1>1, <1>3 DEF CloneOK
  <1>6. head'[c] \in DOMAIN local'[c]
    <2>1. CASE local'[c] = local[c]
      BY <1>5, <2>1
    <2>2. CASE local'[c] = Without(local[c], r.name) /\ head'[c] = r.original
      <3>1. r.original # r.name
        BY <1>1 DEF CutOK
      <3> QED
        BY <1>5, <2>2, <3>1 DEF Without
    <2> QED
      BY <1>4, <2>1, <2>2
  <1>7. OnlyClone(c) /\ track'[c] = track[c]
    BY <1>1, <1>2, <1>3, <1>4 DEF OnlyClone
  <1> QED
    BY <1>1, <1>3, <1>4, <1>6, <1>7 DEF r

\* What git switch leaves in the working tree.
LEMMA SwitchedOK ==
    ASSUME TypeInv, NEW c \in Clones, NEW k \in Commits
    PROVE  TreeOK(Switched(c, k), Len(store))
  <1>1. TreeOK(wt[c], Len(store)) /\ TreeOK(TreeOf(k), Len(store))
    BY Ancestors DEF TypeInv, ClonesOK, CloneOK
  <1> QED
    BY <1>1 DEF Switched

\* A reference is added, moved or removed.
LEMMA RefsChange ==
    ASSUME NEW refs, NEW k, RefsIn(refs, k)
    PROVE  /\ \A b, x : NameOK(b) /\ x \in 1..k => RefsIn(Put(refs, b, x), k)
           /\ \A b \in DOMAIN refs : \A x : x \in 1..k => RefsIn([refs EXCEPT ![b] = x], k)
           /\ \A b : b # Main => RefsIn(Without(refs, b), k)
  BY DEF RefsIn, Put, Without

\* A step of a command.
LEMMA TypeCommand ==
    ASSUME TypeInv, NEW p \in Procs, NEW c, c = cloneOf(p), NEW r, r = proc[p], CommandStep(p, c)
    PROVE  TypeInv'
  <1>1. /\ c \in Clones /\ CloneOK(c) /\ RunOK(store, r, answer[p]) /\ StoreOK(store) /\ Len(store) \in Nat \ {0}
        /\ r.cut => CutOK(store, r)
    BY CloneFacts DEF TypeInv, RunOK
  <1>2. CASE QuietStep(p, c)
    BY <1>2, TypesStill DEF QuietStep, Quiet
  <1>3. CASE WriteStep(p, c)
    <2>1. Later /\ UNCHANGED <<store, local, track, head, remote, pulls, setup>> /\ left' \in Bounds
      BY <1>1, <1>3, LaterStill DEF WriteStep
    <2>2. RunsOK'
      BY <1>3, <2>1, RunsMove, IdleOK DEF WriteStep
    <2>3. OnlyClone(c) /\ wt'[c] = r.new
      BY <1>1, <1>3 DEF WriteStep, TypeInv, ClonesOK, OnlyClone
    <2>4. TreeOK(r.new, Len(store))
      BY <1>1, <1>3 DEF WriteStep, RunOK
    <2>5. CloneOK(c)'
      BY <1>1, <2>1, <2>3, <2>4 DEF CloneOK
    <2>6. ClonesOK' /\ HostOK'
      BY <1>1, <2>1, <2>3, <2>5, ClonesMove, HostStays
    <2> QED
      BY <2>1, <2>2, <2>6 DEF TypeInv, Later, Bounds
  <1>4. CASE CutStep(p, c)
    <2>1. Later /\ UNCHANGED <<store, track, remote, pulls, setup>> /\ left' \in Bounds
      BY <1>1, <1>4, LaterStill DEF CutStep
    <2>2. RunsOK'
      BY <1>4, <2>1, RunsMove DEF CutStep
    <2>3. ClonesOK'
      <3>1. CASE UNCHANGED <<local, head, wt>>
        BY <2>1, <3>1, ClonesStay
      <3>2. CASE Cuts(c, r)
        <4>1. /\ OnlyClone(c) /\ local'[c] = Put(local[c], r.name, r.base) /\ track'[c] = track[c]
              /\ head'[c] = r.name /\ wt'[c] = Switched(c, r.base)
          BY <1>1, <2>1, <3>2, CutFacts
        <4>2. r.cut /\ CutOK(store, r)
          BY <1>1, <1>4 DEF CutStep, RunOK
        <4>3. NameOK(r.name) /\ r.base \in 1..Len(store) /\ r.base \in Commits
          BY <4>2 DEF CutOK, NameOK, Commits
        <4>4. RefsIn(Put(local[c], r.name, r.base), Len(store)) /\ r.name \in DOMAIN Put(local[c], r.name, r.base)
          <5>1. r.name \in DOMAIN Put(local[c], r.name, r.base)
            BY DEF Put
          <5> QED
            BY <1>1, <4>3, <5>1, RefsChange DEF CloneOK
        <4>5. TreeOK(Switched(c, r.base), Len(store))
          BY <1>1, <4>3, SwitchedOK
        <4>6. CloneOK(c)'
          BY <1>1, <2>1, <4>1, <4>4, <4>5 DEF CloneOK
        <4> QED
          BY <1>1, <2>1, <4>1, <4>6, ClonesMove
      <3> QED
        BY <1>4, <3>1, <3>2 DEF CutStep
    <2> QED
      BY <2>1, <2>2, <2>3, HostStays DEF TypeInv, Later, Bounds
  <1>5. CASE RestoreStep(p, c)
    <2>1. Later /\ UNCHANGED <<store, track, remote, pulls, setup>> /\ left' \in Bounds
      BY <1>1, <1>5, LaterStill DEF RestoreStep
    <2>2. RunsOK'
      BY <1>5, <2>1, RunsMove, IdleOK DEF RestoreStep
    <2>3. /\ OnlyClone(c) /\ track'[c] = track[c] /\ CutOK(store, r) /\ r.cut
          /\ \/ head'[c] = head[c] /\ wt'[c] = wt[c]
             \/ /\ ~Refused(c, local[c][r.original]) /\ r.original \in DOMAIN local[c]
                /\ head'[c] = r.original /\ wt'[c] = Switched(c, local[c][r.original])
          /\ \/ local'[c] = local[c]
             \/ /\ StillAtBase(r, local[c]) /\ local'[c] = Without(local[c], r.name)
                /\ head'[c] = r.original
          /\ head'[c] \in DOMAIN local'[c]
      BY <1>5, RestoreFacts
    <2>4. RefsIn(local'[c], Len(store))
      <3>1. r.name # Main
        BY <2>3 DEF CutOK, Main, Branch, Numbers
      <3> QED
        BY <1>1, <2>3, <3>1, RefsChange DEF CloneOK
    <2>5. TreeOK(wt'[c], Len(store))
      <3>1. CASE wt'[c] = wt[c]
        BY <1>1, <3>1 DEF CloneOK
      <3>2. CASE r.original \in DOMAIN local[c] /\ wt'[c] = Switched(c, local[c][r.original])
        <4>1. local[c][r.original] \in Commits
          BY <1>1, <3>2, KnownFacts
        <4> QED
          BY <1>1, <3>2, <4>1, SwitchedOK
      <3> QED
        BY <2>3, <3>1, <3>2
    <2>6. CloneOK(c)'
      BY <1>1, <2>1, <2>3, <2>4, <2>5 DEF CloneOK
    <2>7. ClonesOK' /\ HostOK'
      BY <1>1, <2>1, <2>3, <2>6, ClonesMove, HostStays
    <2> QED
      BY <2>1, <2>2, <2>7 DEF TypeInv, Later, Bounds
  <1> QED
    BY <1>2, <1>3, <1>4, <1>5 DEF CommandStep

\* A change set has a branch of its own.
LEMMA NotMain ==
    ASSUME NEW b, b.n \in Numbers
    PROVE  b # Main /\ NameOK(b)
  BY DEF Main, Branch, Numbers, NameOK

\* What a step of a user in a clone leaves well formed.
LEMMA UserTypes ==
    ASSUME TypeInv, UserStep, Later, NEW c \in Clones, OnlyClone(c), CloneOK(c)', HostOK'
    PROVE  TypeInv'
  <1>1. RunsOK'
    BY RunsStay DEF UserStep
  <1>2. ClonesOK'
    BY ClonesMove
  <1> QED
    BY <1>1, <1>2 DEF TypeInv, UserStep, Later, Bounds

\* A step in a clone.
LEMMA TypeClone ==
    ASSUME TypeInv, NEW c \in Clones, CloneStep(c), UserStep
    PROVE  TypeInv'
  <1>1. /\ CloneOK(c) /\ StoreOK(store) /\ HostOK /\ Len(store) \in Nat \ {0} /\ HeadCommit(c) \in Commits
        /\ remote[Main] \in Commits
    <2>1. CloneOK(c) /\ StoreOK(store) /\ HostOK
      BY DEF TypeInv, ClonesOK
    <2> QED
      BY <2>1, KnownFacts DEF StoreOK, HostOK, RefsIn, Commits
  <1>2. CASE Grows(c)
    <2>1. /\ Later /\ OnlyClone(c) /\ local'[c] = [local[c] EXCEPT ![head[c]] = Len(store) + 1]
          /\ Len(store') = Len(store) + 1 /\ TreeOK(wt'[c], Len(store))
          /\ UNCHANGED <<track, head, remote, pulls>>
      BY <1>2 DEF Grows, Added
    <2>2. RefsIn(local[c], Len(store')) /\ RefsIn(track[c], Len(store')) /\ TreeOK(wt'[c], Len(store'))
      BY <1>1, <2>1, RefsStay, TreeStays DEF CloneOK
    <2>3. RefsIn(local'[c], Len(store')) /\ head[c] \in DOMAIN local'[c]
      <3>1. head[c] \in DOMAIN local[c] /\ Len(store) + 1 \in 1..Len(store')
        BY <1>1, <2>1 DEF CloneOK
      <3> QED
        BY <2>1, <2>2, <3>1, RefsChange
    <2>4. CloneOK(c)'
      BY <2>1, <2>2, <2>3 DEF CloneOK
    <2> QED
      BY <2>1, <2>4, UserTypes, HostStays
  <1>3. CASE FetchStep(c)
    <2>1. Later /\ OnlyClone(c) /\ UNCHANGED <<store, head, remote, pulls>> /\ track'[c] = remote
      BY <1>1, <1>3, LaterStill DEF FetchStep
    <2>2. /\ \/ local'[c] = local[c]
             \/ local'[c] = [local[c] EXCEPT ![Main] = remote[Main]]
          /\ wt'[c] = wt[c] \/ wt'[c] = Switched(c, remote[Main])
      BY <1>3 DEF FetchStep
    <2>3. RefsIn(local'[c], Len(store)) /\ head[c] \in DOMAIN local'[c]
      <3>1. Main \in DOMAIN local[c] /\ RefsIn(local[c], Len(store)) /\ remote[Main] \in 1..Len(store)
            /\ head[c] \in DOMAIN local[c]
        BY <1>1 DEF CloneOK, RefsIn, Commits
      <3> QED
        BY <2>2, <3>1, RefsChange
    <2>4. TreeOK(wt'[c], Len(store))
      BY <1>1, <2>2, SwitchedOK DEF CloneOK
    <2>5. CloneOK(c)'
      BY <1>1, <2>1, <2>3, <2>4 DEF CloneOK, HostOK
    <2> QED
      BY <2>1, <2>5, UserTypes, HostStays
  <1>4. CASE SwitchStep(c)
    <2>1. Later /\ OnlyClone(c) /\ UNCHANGED <<store, local, track, remote, pulls>>
      BY <1>1, <1>4, LaterStill DEF SwitchStep
    <2>2. PICK b \in DOMAIN local[c] : head'[c] = b /\ wt'[c] = TreeOf(local[c][b])
      BY <1>4 DEF SwitchStep
    <2>3. TreeOK(wt'[c], Len(store))
      BY <1>1, <2>2, KnownFacts, Ancestors
    <2>4. CloneOK(c)'
      BY <1>1, <2>1, <2>2, <2>3 DEF CloneOK
    <2> QED
      BY <2>1, <2>4, UserTypes, HostStays
  <1>5. CASE RenameStep(c)
    <2>1. Later /\ OnlyClone(c) /\ UNCHANGED <<store, track, wt, remote>> /\ head[c] # Main /\ DOMAIN pulls' = DOMAIN pulls
      BY <1>1, <1>5, LaterStill DEF RenameStep
    <2>2. PICK b : /\ b.n \in Numbers
                   /\ local'[c] = Put(Without(local[c], head[c]), b, HeadCommit(c)) /\ head'[c] = b
      BY <1>5 DEF RenameStep
    <2>3. RefsIn(Without(local[c], head[c]), Len(store))
      BY <1>1, <2>1, RefsChange DEF CloneOK
    <2>4. RefsIn(local'[c], Len(store))
      BY <1>1, <2>2, <2>3, RefsChange, NotMain DEF Commits
    <2>5. b \in DOMAIN local'[c]
      BY <2>2 DEF Put
    <2>6. CloneOK(c)'
      BY <1>1, <2>1, <2>2, <2>4, <2>5 DEF CloneOK
    <2>7. HostOK'
      BY <1>1, <2>1 DEF HostOK
    <2> QED
      BY <2>1, <2>6, <2>7, UserTypes
  <1>6. CASE PublishStep(c)
    <2> DEFINE b == head[c]
    <2>1. /\ Later /\ OnlyClone(c) /\ UNCHANGED <<store, local, head, wt>>
          /\ b.n \in Numbers /\ remote' = Put(remote, b, HeadCommit(c)) /\ track'[c] = remote'
          /\ pulls' = Put(pulls, b, "open")
      BY <1>1, <1>6, LaterStill DEF PublishStep
    <2>2. RefsIn(remote', Len(store))
      BY <1>1, <2>1, RefsChange, NotMain DEF HostOK, Commits
    <2>3. DOMAIN pulls' \subseteq DOMAIN remote' \ {Main}
      <3>1. DOMAIN pulls' = DOMAIN pulls \cup {b} /\ DOMAIN remote' = DOMAIN remote \cup {b}
        BY <2>1 DEF Put
      <3>2. b # Main
        BY <2>1, NotMain
      <3> QED
        BY <1>1, <3>1, <3>2 DEF HostOK
    <2>4. HostOK'
      BY <2>1, <2>2, <2>3 DEF HostOK
    <2>5. CloneOK(c)'
      BY <1>1, <2>1, <2>2 DEF CloneOK
    <2> QED
      BY <2>1, <2>4, <2>5, UserTypes
  <1> QED
    BY <1>2, <1>3, <1>4, <1>5, <1>6 DEF CloneStep

\* A branch lands.
LEMMA TypeLand ==
    ASSUME TypeInv, NEW b \in DOMAIN pulls, LandStep(b), UserStep
    PROVE  TypeInv'
  <1>1. /\ Later /\ UNCHANGED <<local, track, head, wt>> /\ Len(store') = Len(store) + 1 /\ Len(store) \in Nat
        /\ remote' = [remote EXCEPT ![Main] = Len(store) + 1] /\ pulls' = [pulls EXCEPT ![b] = "merged"]
    BY DEF LandStep, Added, Later
  <1>2. RefsIn(remote, Len(store'))
    BY <1>1, RefsStay DEF TypeInv, HostOK
  <1>3. RefsIn(remote', Len(store'))
    <2>1. Main \in DOMAIN remote /\ Len(store) + 1 \in 1..Len(store')
      BY <1>1, <1>2 DEF RefsIn
    <2>2. RefsIn([remote EXCEPT ![Main] = Len(store) + 1], Len(store'))
      BY <1>2, <2>1, RefsChange
    <2> QED
      BY <1>1, <2>2
  <1>4. HostOK'
    BY <1>1, <1>3 DEF HostOK, TypeInv
  <1>5. RunsOK' /\ ClonesOK'
    BY <1>1, RunsStay, ClonesStay DEF UserStep
  <1> QED
    BY <1>1, <1>4, <1>5 DEF TypeInv, UserStep, Later, Bounds

\* The types are kept.
LEMMA TypeStep ==
    ASSUME TypeInv, [Next]_vars
    PROVE  TypeInv'
  <1>1. CASE UNCHANGED vars
    BY <1>1, LaterStill, RunsStay, ClonesStay, HostStays DEF vars, TypeInv, Bounds, Later
  <1>2. CASE \E p \in Procs : CommandStep(p, cloneOf(p))
    BY <1>2, TypeCommand
  <1>3. CASE UserStep /\ \E c \in Clones : CloneStep(c)
    BY <1>3, TypeClone
  <1>4. CASE UserStep /\ \E b \in DOMAIN pulls : LandStep(b)
    BY <1>4, TypeLand
  <1> QED
    BY <1>1, <1>2, <1>3, <1>4, Steps

----------------------------------------------------------------------------
(* The start *)

\* The trees that a behaviour starts with.
LEMMA FirstTrees ==
    /\ MaxNumber \in Nat \ {0} /\ 1 \in Numbers
    /\ \A config \in BOOLEAN, k \in Nat :
         TreeOK(EmptyTree(config), k) /\ Numbered(EmptyTree(config)) = {}
    /\ \A n \in Numbers : \A config : EmptyTree(config).sets[n] = None
    /\ \A p \in Procs, k \in Nat \ {0} :
         LET t == With(EmptyTree(TRUE), 1, NewManifest(p, 1))
         IN /\ TreeOK(t, k) /\ t.sets[1].base = 1 /\ t.sets[1] # None
            /\ \A n \in Numbers : n # 1 => t.sets[n] = None
  <1>1. MaxNumber \in Nat \ {0} /\ 1 \in Numbers
    BY ChangeSetAssumption DEF Numbers
  <1>2. \A config \in BOOLEAN, k \in Nat : TreeOK(EmptyTree(config), k) /\ Numbered(EmptyTree(config)) = {}
    BY DEF TreeOK, EmptyTree, Numbered
  <1>3. \A n \in Numbers : \A config : EmptyTree(config).sets[n] = None
    BY DEF EmptyTree
  <1>4. ASSUME NEW p \in Procs, NEW k \in Nat \ {0}
        PROVE  LET t == With(EmptyTree(TRUE), 1, NewManifest(p, 1))
               IN /\ TreeOK(t, k) /\ t.sets[1].base = 1 /\ t.sets[1] # None
                  /\ \A n \in Numbers : n # 1 => t.sets[n] = None
    <2>1. NewManifest(p, 1) \in [base : 1..k, by : Procs, text : {1, 2}] \cup {None}
          /\ NewManifest(p, 1).base = 1 /\ NewManifest(p, 1) # None
      BY DEF NewManifest, None
    <2> DEFINE m == NewManifest(p, 1)
               e == EmptyTree(TRUE)
    <2>2. TreeOK(e, k) /\ \A n \in Numbers : e.sets[n] = None
      BY <1>2, <1>3
    <2>3. m.base = 1 /\ m # None /\ m \in [base : 1..k, by : Procs, text : {1, 2}] \cup {None}
      BY <2>1
    <2> HIDE DEF m, e
    <2>4. /\ TreeOK(With(e, 1, m), k) /\ With(e, 1, m).sets[1] = m
          /\ \A i \in Numbers : i # 1 => With(e, 1, m).sets[i] = e.sets[i]
      BY <1>1, <2>2, <2>3, WithOK
    <2> QED
      BY <2>2, <2>3, <2>4 DEF m, e
  <1> QED
    BY <1>1, <1>2, <1>3, <1>4

\* What a review starts with.
LEMMA ReviewFacts ==
    ASSUME setup \in Setups, StartReview
    PROVE  /\ Len(store) = 3 /\ IsSeq(store)
           /\ store[1] = [tree |-> EmptyTree(TRUE), anc |-> {1}]
           /\ \A k \in {2, 3} : \E p \in Procs :
                store[k] = [tree |-> With(EmptyTree(TRUE), 1, NewManifest(p, 1)), anc |-> {1, k}]
           /\ \A p \in Procs : /\ setup.commit[p] \in {2, 3} /\ ReviewBranch[p].n = 1
                               /\ ReviewBranch[p].slug = setup.slug[p]
                               /\ ReviewBranch[p] # Main /\ remote[ReviewBranch[p]] = setup.commit[p]
           /\ \A p, q \in Procs : /\ (ReviewBranch[p] = ReviewBranch[q]) <=> (cloneOf(p) = cloneOf(q))
                                  /\ (setup.commit[p] = setup.commit[q]) <=> (cloneOf(p) = cloneOf(q))
           /\ DOMAIN remote = {Main} \cup {ReviewBranch[p] : p \in Procs} /\ remote[Main] = 1
           /\ DOMAIN pulls = DOMAIN remote \ {Main}
           /\ \A c \in Clones : \E p \in Procs :
                /\ cloneOf(p) = c /\ head[c] = ReviewBranch[p] /\ DOMAIN local[c] = {Main, ReviewBranch[p]}
                /\ local[c][Main] = 1 /\ local[c][ReviewBranch[p]] = setup.commit[p]
                /\ track[c] = local[c] /\ wt[c] = TreeOf(setup.commit[p])
           /\ DOMAIN local = Clones /\ DOMAIN track = Clones /\ DOMAIN head = Clones /\ DOMAIN wt = Clones
  <1>1. /\ setup.commit \in [Procs -> {2, 3}]
        /\ \A c \in Clones : \E p \in Procs : cloneOf(p) = c
        /\ \A p, q \in Procs : /\ (setup.commit[p] = setup.commit[q]) <=> (cloneOf(p) = cloneOf(q))
                               /\ (setup.slug[p] = setup.slug[q]) <=> (cloneOf(p) = cloneOf(q))
        /\ \A p \in Procs : cloneOf(p) \in Clones
    BY ChangeSetAssumption DEF StartReview, cloneOf, Clones
  <1>2. \A k \in {2, 3} : \E p \in Procs : setup.commit[p] = k
    <2>1. PICK p \in Procs : cloneOf(p) = "one"
      BY <1>1 DEF Clones
    <2>2. PICK q \in Procs : cloneOf(q) = "two"
      BY <1>1 DEF Clones
    <2> QED
      BY <1>1, <2>1, <2>2
  <1>3. store = [k \in 1..3 |-> IF k = 1 THEN [tree |-> EmptyTree(TRUE), anc |-> {1}]
                                ELSE ReviewCommit(CHOOSE p \in Procs : setup.commit[p] = k)]
    BY DEF StartReview
  <1>4. Len(store) = 3 /\ IsSeq(store) /\ store[1] = [tree |-> EmptyTree(TRUE), anc |-> {1}]
    BY <1>3 DEF IsSeq
  <1>5. \A k \in {2, 3} : \E p \in Procs :
          store[k] = [tree |-> With(EmptyTree(TRUE), 1, NewManifest(p, 1)), anc |-> {1, k}]
    <2> TAKE k \in {2, 3}
    <2> DEFINE p == CHOOSE p \in Procs : setup.commit[p] = k
    <2>1. p \in Procs /\ setup.commit[p] = k
      BY <1>2
    <2>2. store[k] = ReviewCommit(p)
      BY <1>3
    <2> HIDE DEF p
    <2> QED
      BY <2>1, <2>2 DEF ReviewCommit
  <1>6. \A p \in Procs : /\ ReviewBranch[p].n = 1 /\ ReviewBranch[p].slug = setup.slug[p]
                         /\ ReviewBranch[p] = Branch(1, setup.slug[p]) /\ ReviewBranch[p] # Main
    BY DEF ReviewBranch, Branch, Main
  <1>7. \A p, q \in Procs : (ReviewBranch[p] = ReviewBranch[q]) <=> (cloneOf(p) = cloneOf(q))
    BY <1>1, <1>6
  <1> DEFINE Names == {Main} \cup {ReviewBranch[p] : p \in Procs}
  <1>8. /\ DOMAIN Published = Names /\ Published[Main] = 1
        /\ \A p \in Procs : Published[ReviewBranch[p]] = setup.commit[p]
    <2>1. Published = [b \in Names |->
                         IF b = Main THEN 1 ELSE setup.commit[CHOOSE p \in Procs : ReviewBranch[p] = b]]
      BY DEF Published
    <2>2. ASSUME NEW p \in Procs PROVE Published[ReviewBranch[p]] = setup.commit[p]
      <3> DEFINE q == CHOOSE q \in Procs : ReviewBranch[q] = ReviewBranch[p]
      <3>1. q \in Procs /\ ReviewBranch[q] = ReviewBranch[p]
        OBVIOUS
      <3>2. Published[ReviewBranch[p]] = setup.commit[q]
        BY <1>6, <2>1
      <3> HIDE DEF q
      <3> QED
        BY <1>1, <1>7, <3>1, <3>2
    <2> QED
      BY <2>1, <2>2
  <1>9. remote = Published /\ DOMAIN pulls = DOMAIN remote \ {Main}
    BY DEF StartReview
  <1>10. /\ head = [c \in Clones |-> ReviewBranch[CHOOSE p \in Procs : cloneOf(p) = c]]
         /\ local = [c \in Clones |-> [b \in {Main, head[c]} |-> Published[b]]]
         /\ track = local
         /\ wt = [c \in Clones |-> HeadTree(c)]
    BY DEF StartReview
  <1>11. ASSUME NEW c \in Clones
         PROVE  \E p \in Procs :
                  /\ cloneOf(p) = c /\ head[c] = ReviewBranch[p] /\ DOMAIN local[c] = {Main, ReviewBranch[p]}
                  /\ local[c][Main] = 1 /\ local[c][ReviewBranch[p]] = setup.commit[p]
                  /\ track[c] = local[c] /\ wt[c] = TreeOf(setup.commit[p])
    <2> DEFINE p == CHOOSE p \in Procs : cloneOf(p) = c
    <2>1. p \in Procs /\ cloneOf(p) = c
      BY <1>1
    <2>2. head[c] = ReviewBranch[p]
      BY <1>10
    <2> HIDE DEF p
    <2>3. local[c] = [b \in {Main, head[c]} |-> Published[b]] /\ track[c] = local[c] /\ wt[c] = TreeOf(local[c][head[c]])
      BY <1>10 DEF HeadTree, HeadCommit
    <2>4. /\ DOMAIN local[c] = {Main, ReviewBranch[p]}
          /\ local[c][Main] = 1 /\ local[c][ReviewBranch[p]] = setup.commit[p]
      BY <1>8, <2>1, <2>2, <2>3
    <2> QED
      BY <2>1, <2>2, <2>3, <2>4
  <1>12. DOMAIN local = Clones /\ DOMAIN track = Clones /\ DOMAIN head = Clones /\ DOMAIN wt = Clones
    BY <1>10
  <1>13. /\ DOMAIN remote = Names /\ remote[Main] = 1
         /\ \A p \in Procs : remote[ReviewBranch[p]] = setup.commit[p]
    BY <1>8, <1>9
  <1>14. \A p \in Procs : /\ setup.commit[p] \in {2, 3} /\ ReviewBranch[p].n = 1
                          /\ ReviewBranch[p].slug = setup.slug[p]
                          /\ ReviewBranch[p] # Main /\ remote[ReviewBranch[p]] = setup.commit[p]
    BY <1>1, <1>6, <1>13
  <1>15. \A p, q \in Procs : /\ (ReviewBranch[p] = ReviewBranch[q]) <=> (cloneOf(p) = cloneOf(q))
                             /\ (setup.commit[p] = setup.commit[q]) <=> (cloneOf(p) = cloneOf(q))
    BY <1>1, <1>7
  <1>16. /\ DOMAIN remote = {Main} \cup {ReviewBranch[p] : p \in Procs} /\ remote[Main] = 1
         /\ DOMAIN pulls = DOMAIN remote \ {Main}
    BY <1>9, <1>13
  <1> HIDE DEF Names
  <1> QED
    BY ONLY <1>4, <1>5, <1>11, <1>12, <1>14, <1>15, <1>16

\* What the other worlds start with.
LEMMA ProjectFacts ==
    ASSUME StartProject
    PROVE  /\ Len(store) = 1 /\ IsSeq(store) /\ store[1].anc = {1}
           /\ \E config \in BOOLEAN : store[1].tree = EmptyTree(config)
           /\ DOMAIN remote = {Main} /\ remote[Main] = 1 /\ DOMAIN pulls = {}
           /\ \A c \in Clones :
                /\ track[c] = remote /\ wt[c] = EmptyTree(TRUE)
                /\ Main \in DOMAIN local[c] /\ DOMAIN local[c] \subseteq {Main, InitBranch}
                /\ \A b \in DOMAIN local[c] : local[c][b] = 1
                /\ head[c] \in DOMAIN local[c]
                /\ setup.world # "init" => DOMAIN local[c] = {Main}
           /\ DOMAIN local = Clones /\ DOMAIN track = Clones /\ DOMAIN head = Clones /\ DOMAIN wt = Clones
  <1>1. store = <<[tree |-> EmptyTree(setup.world = "project"), anc |-> {1}]>>
    BY DEF StartProject
  <1>2. IsSeq(store) /\ Len(store) = 1 /\ store[1] = [tree |-> EmptyTree(setup.world = "project"), anc |-> {1}]
    BY <1>1 DEF IsSeq
  <1>3. \E config \in BOOLEAN : store[1].tree = EmptyTree(config)
    <2> DEFINE config == setup.world = "project"
    <2>1. config \in BOOLEAN /\ store[1].tree = EmptyTree(config)
      BY <1>2
    <2> HIDE DEF config
    <2> QED
      BY <2>1
  <1>4. remote = [b \in {Main} |-> 1] /\ pulls = [b \in {} |-> "open"]
    BY DEF StartProject
  <1>5. /\ track = [c \in Clones |-> remote]
        /\ local = [c \in Clones |-> IF setup.world = "init" THEN Put(remote, InitBranch, 1) ELSE remote]
        /\ head = [c \in Clones |-> IF setup.world = "init" THEN InitBranch ELSE Main]
        /\ wt = [c \in Clones |-> EmptyTree(TRUE)]
    BY DEF StartProject
  <1>6. ASSUME NEW c \in Clones
        PROVE  /\ track[c] = remote /\ wt[c] = EmptyTree(TRUE)
               /\ Main \in DOMAIN local[c] /\ DOMAIN local[c] \subseteq {Main, InitBranch}
               /\ \A b \in DOMAIN local[c] : local[c][b] = 1
               /\ head[c] \in DOMAIN local[c]
               /\ setup.world # "init" => DOMAIN local[c] = {Main}
    <2>1. CASE setup.world = "init"
      <3>1. local[c] = Put(remote, InitBranch, 1) /\ head[c] = InitBranch
        BY <1>5, <2>1
      <3> QED
        BY <1>4, <1>5, <2>1, <3>1 DEF Put
    <2>2. CASE setup.world # "init"
      BY <1>4, <1>5, <2>2
    <2> QED
      BY <2>1, <2>2
  <1> QED
    BY <1>2, <1>3, <1>4, <1>5, <1>6

\* The types hold at the start.
LEMMA TypeInit ==
    ASSUME Init
    PROVE  TypeInv
  <1>1. setup \in Setups /\ left \in Bounds
    <2>1. setup.bounds \in [calls : Nat, moves : Nat, faults : Nat] /\ left = setup.bounds /\ setup \in Setups
      BY ChangeSetAssumption DEF Init
    <2> QED
      BY <2>1 DEF Bounds
  <1>2. RunsOK
    BY IdleOK DEF RunsOK, Init
  <1>3. CASE StartProject
    <2>1. /\ Len(store) = 1 /\ IsSeq(store) /\ store[1].anc = {1} /\ TreeOK(store[1].tree, 1)
          /\ RefsIn(remote, 1) /\ DOMAIN pulls = {}
      <3>1. /\ Len(store) = 1 /\ IsSeq(store) /\ store[1].anc = {1} /\ DOMAIN remote = {Main} /\ remote[Main] = 1
            /\ DOMAIN pulls = {}
            /\ \E config \in BOOLEAN : store[1].tree = EmptyTree(config)
        BY <1>3, ProjectFacts
      <3>2. TreeOK(store[1].tree, 1)
        BY <3>1, FirstTrees
      <3> QED
        BY <3>1, <3>2 DEF RefsIn, NameOK
    <2>2. StoreOK(store)
      <3>1. CommitOK(store, 1)
        BY <2>1 DEF CommitOK
      <3> QED
        BY <2>1, <3>1 DEF StoreOK
    <2>3. ASSUME NEW c \in Clones PROVE CloneOK(c)
      <3>1. /\ track[c] = remote /\ wt[c] = EmptyTree(TRUE)
            /\ Main \in DOMAIN local[c] /\ DOMAIN local[c] \subseteq {Main, InitBranch}
            /\ \A b \in DOMAIN local[c] : local[c][b] = 1
            /\ head[c] \in DOMAIN local[c]
        BY <1>3, ProjectFacts
      <3>2. NameOK(Main) /\ NameOK(InitBranch)
        BY FirstTrees DEF NameOK, InitBranch, Branch
      <3>3. RefsIn(local[c], 1)
        BY <3>1, <3>2 DEF RefsIn
      <3>4. TreeOK(wt[c], 1)
        BY <3>1, FirstTrees
      <3> QED
        BY <2>1, <3>1, <3>3, <3>4 DEF CloneOK
    <2>4. ClonesOK
      BY <1>3, <2>3, ProjectFacts DEF ClonesOK
    <2>5. HostOK
      BY <2>1 DEF HostOK
    <2> QED
      BY <1>1, <1>2, <2>2, <2>4, <2>5 DEF TypeInv
  <1>4. CASE StartReview
    <2>1. /\ Len(store) = 3 /\ IsSeq(store)
          /\ store[1] = [tree |-> EmptyTree(TRUE), anc |-> {1}]
          /\ \A k \in {2, 3} : \E p \in Procs :
               store[k] = [tree |-> With(EmptyTree(TRUE), 1, NewManifest(p, 1)), anc |-> {1, k}]
      BY <1>1, <1>4, ReviewFacts
    <2>2. CommitOK(store, 1)
      <3> DEFINE t == EmptyTree(TRUE)
      <3>1. TreeOK(t, 3)
        BY DEF TreeOK, EmptyTree
      <3>2. store[1].tree = t /\ store[1].anc = {1} /\ Len(store) = 3
        BY <2>1
      <3> HIDE DEF t
      <3> QED
        BY <3>1, <3>2 DEF CommitOK
    <2>3. ASSUME NEW k \in {2, 3} PROVE CommitOK(store, k)
      <3>1. PICK p \in Procs : store[k] = [tree |-> With(EmptyTree(TRUE), 1, NewManifest(p, 1)), anc |-> {1, k}]
        BY <2>1
      <3> DEFINE t == With(EmptyTree(TRUE), 1, NewManifest(p, 1))
      <3>2. TreeOK(t, 3)
        <4>1. 3 \in Nat \ {0}
          OBVIOUS
        <4> QED
          BY <4>1, FirstTrees, Zenon
      <3> HIDE DEF t
      <3>3. store[k].tree = t /\ store[k].anc = {1, k} /\ k \in 1..3 /\ 1 \in 1..k
        BY <3>1 DEF t
      <3>4. store[1].anc = {1} /\ Len(store) = 3
        BY <2>1
      <3> QED
        BY <3>2, <3>3, <3>4 DEF CommitOK
    <2>4. StoreOK(store)
      <3>1. \A k \in 1..3 : CommitOK(store, k)
        <4>1. \A k \in 1..3 : k = 1 \/ k \in {2, 3}
          OBVIOUS
        <4> QED
          BY <2>2, <2>3, <4>1
      <3> QED
        BY <2>1, <3>1 DEF StoreOK
    <2>5. ASSUME NEW c \in Clones PROVE CloneOK(c)
      <3>1. PICK p \in Procs :
              /\ cloneOf(p) = c /\ head[c] = ReviewBranch[p] /\ DOMAIN local[c] = {Main, ReviewBranch[p]}
              /\ local[c][Main] = 1 /\ local[c][ReviewBranch[p]] = setup.commit[p]
              /\ track[c] = local[c] /\ wt[c] = TreeOf(setup.commit[p])
        BY <1>1, <1>4, ReviewFacts
      <3>2. setup.commit[p] \in {2, 3} /\ ReviewBranch[p].n = 1
        BY <1>1, <1>4, ReviewFacts
      <3>3. NameOK(ReviewBranch[p]) /\ NameOK(Main)
        BY <3>2, FirstTrees DEF NameOK
      <3>4. RefsIn(local[c], 3)
        BY <3>1, <3>2, <3>3 DEF RefsIn
      <3>5. TreeOK(wt[c], 3)
        BY <2>1, <2>3, <3>1, <3>2 DEF CommitOK, TreeOf
      <3> QED
        BY <2>1, <3>1, <3>4, <3>5 DEF CloneOK
    <2>6. DOMAIN local = Clones /\ DOMAIN track = Clones /\ DOMAIN head = Clones /\ DOMAIN wt = Clones
      BY <1>1, <1>4, ReviewFacts
    <2>7. HostOK
      <3>1. /\ DOMAIN remote = {Main} \cup {ReviewBranch[p] : p \in Procs} /\ remote[Main] = 1
            /\ DOMAIN pulls = DOMAIN remote \ {Main}
            /\ \A p \in Procs : /\ setup.commit[p] \in {2, 3} /\ ReviewBranch[p].n = 1
                                /\ remote[ReviewBranch[p]] = setup.commit[p]
        BY <1>1, <1>4, ReviewFacts
      <3>2. ASSUME NEW b \in DOMAIN remote PROVE remote[b] \in 1..3 /\ NameOK(b)
        <4>1. CASE b = Main
          BY <3>1, <4>1 DEF NameOK
        <4>2. CASE b # Main
          <5>1. PICK p \in Procs : b = ReviewBranch[p]
            BY <3>1, <4>2
          <5> QED
            BY <3>1, <5>1, FirstTrees DEF NameOK
        <4> QED
          BY <4>1, <4>2
      <3>3. RefsIn(remote, 3)
        BY <3>1, <3>2 DEF RefsIn
      <3> QED
        BY <2>1, <3>1, <3>3 DEF HostOK
    <2>8. ClonesOK
      BY <2>5, <2>6 DEF ClonesOK
    <2> QED
      BY <1>1, <1>2, <2>4, <2>7, <2>8 DEF TypeInv
  <1> QED
    BY <1>3, <1>4 DEF Init

\* The invariant says what TypeOK says.
LEMMA TypeImplies ==
    ASSUME TypeInv
    PROVE  TypeOK
  <1>1. StoreOK(store) /\ ClonesOK /\ HostOK /\ left \in Bounds
    BY DEF TypeInv
  <1>2. \A t : TreeOK(t, Len(store)) => t \in Trees
    BY DEF TreeOK, Trees, Manifests
  <1>3. \A k \in 1..Len(store) : store[k].tree \in Trees /\ k \in store[k].anc /\ store[k].anc \subseteq 1..k
    BY <1>1, <1>2 DEF StoreOK, CommitOK
  <1>4. \A c \in Clones :
          /\ \A b \in DOMAIN local[c] : local[c][b] \in 1..Len(store)
          /\ \A b \in DOMAIN track[c] : track[c][b] \in 1..Len(store)
          /\ head[c] \in DOMAIN local[c]
          /\ wt[c] \in Trees
    BY <1>1, <1>2 DEF ClonesOK, CloneOK, RefsIn
  <1>5. (\A b \in DOMAIN remote : remote[b] \in 1..Len(store)) /\ DOMAIN pulls \subseteq DOMAIN remote
    BY <1>1 DEF HostOK, RefsIn
  <1> QED
    BY <1>1, <1>3, <1>4, <1>5 DEF TypeOK, Bounds

----------------------------------------------------------------------------
(* What a clone has of the remote                                          *)

(* The default branch of a clone and everything that it fetched are in     *)
(* the history of the branches of the remote, and a create cuts its branch *)
(* from the history of the default branch of its clone.                    *)
OrderOK(c) ==
  /\ local[c][Main] \in store[remote[Main]].anc
  /\ \A b \in DOMAIN track[c] : b \in DOMAIN remote /\ track[c][b] \in store[remote[b]].anc
CutBases == \A p \in Procs : proc[p].cut => proc[p].base \in store[local[cloneOf(p)][Main]].anc
OrderInv == (\A c \in Clones : OrderOK(c)) /\ CutBases

\* The histories of the commits stay.
LEMMA AncestorsStay ==
    ASSUME Later, StoreOK(store)
    PROVE  /\ StoreOK(store')
           /\ \A k \in Commits : store'[k] = store[k] /\ k \in store'[k].anc /\ k \in store[k].anc
           /\ \A k \in 1..Len(store') : \A a \in store'[k].anc :
                a \in 1..Len(store') /\ store'[a].anc \subseteq store'[k].anc
           /\ \A k \in Commits : \A a \in store[k].anc : a \in Commits /\ store[a].anc \subseteq store[k].anc
  <1>1. \A k \in Commits : CommitOK(store, k)
    BY DEF StoreOK, Commits
  <1>2. \A k \in 1..Len(store') : CommitOK(store', k)
    BY DEF Later, StoreOK
  <1>3. Len(store) \in Nat /\ Len(store') \in Nat
    BY DEF Later
  <1>4. \A k \in Commits : \A a \in store[k].anc : a \in Commits /\ store[a].anc \subseteq store[k].anc
    BY <1>1, <1>3 DEF CommitOK, Commits
  <1>5. \A k \in 1..Len(store') : \A a \in store'[k].anc : a \in 1..Len(store') /\ store'[a].anc \subseteq store'[k].anc
    BY <1>2, <1>3 DEF CommitOK
  <1>6. \A k \in Commits : store'[k] = store[k] /\ k \in store'[k].anc /\ k \in store[k].anc
    BY <1>1 DEF Later, CommitOK
  <1> QED
    BY <1>4, <1>5, <1>6 DEF Later

\* The references of the clones and the remote name commits.
LEMMA RefFacts ==
    ASSUME TypeInv
    PROVE  /\ \A c \in Clones : /\ CloneOK(c) /\ Main \in DOMAIN local[c] /\ Main \in DOMAIN track[c]
                                /\ head[c] \in DOMAIN local[c]
                                /\ \A b \in DOMAIN local[c] : local[c][b] \in Commits /\ (b # Main => b.n \in Numbers)
                                /\ \A b \in DOMAIN track[c] : track[c][b] \in Commits
                                /\ HeadCommit(c) = local[c][head[c]] /\ HeadCommit(c) \in Commits
           /\ Main \in DOMAIN remote /\ \A b \in DOMAIN remote : remote[b] \in Commits
           /\ \A p \in Procs : /\ RunOK(store, proc[p], answer[p]) /\ cloneOf(p) \in Clones
                               /\ proc[p].cut => CutOK(store, proc[p]) /\ proc[p].base \in Commits /\ proc[p].name # Main
           /\ StoreOK(store) /\ Len(store) \in Nat \ {0}
  <1>1. \A c \in Clones : CloneOK(c)
    BY DEF TypeInv, ClonesOK
  <1>2. \A c \in Clones : /\ Main \in DOMAIN local[c] /\ Main \in DOMAIN track[c]
                          /\ head[c] \in DOMAIN local[c]
                          /\ \A b \in DOMAIN local[c] : local[c][b] \in Commits /\ (b # Main => b.n \in Numbers)
                          /\ \A b \in DOMAIN track[c] : track[c][b] \in Commits
                          /\ HeadCommit(c) = local[c][head[c]] /\ HeadCommit(c) \in Commits
    BY <1>1 DEF CloneOK, RefsIn, NameOK, Commits, HeadCommit
  <1>3. Main \in DOMAIN remote /\ \A b \in DOMAIN remote : remote[b] \in Commits
    BY DEF TypeInv, HostOK, RefsIn, Commits
  <1>4. \A p \in Procs : RunOK(store, proc[p], answer[p]) /\ cloneOf(p) \in Clones
    BY CloneOfProc DEF TypeInv, RunsOK
  <1>5. \A p \in Procs : proc[p].cut => CutOK(store, proc[p]) /\ proc[p].base \in Commits /\ proc[p].name # Main
    BY <1>4, NotMain DEF RunOK, CutOK, Commits
  <1> QED
    BY <1>1, <1>2, <1>3, <1>4, <1>5 DEF TypeInv, StoreOK

\* A step that moves neither a default branch nor what was fetched.
LEMMA OrderSame ==
    ASSUME TypeInv, OrderInv, Later, UNCHANGED <<remote, setup>>,
           \A c \in Clones : local'[c][Main] = local[c][Main] /\ track'[c] = track[c],
           \A p \in Procs : proc'[p].cut =>
             (proc[p].cut /\ SameCreate(proc[p], proc'[p])) \/ proc'[p].base = local[cloneOf(p)][Main]
    PROVE  OrderInv'
  <1>1. \A k \in Commits : store'[k] = store[k] /\ k \in store[k].anc
    BY RefFacts, AncestorsStay
  <1>2. ASSUME NEW c \in Clones PROVE OrderOK(c)'
    BY <1>1, RefFacts DEF OrderInv, OrderOK
  <1>3. ASSUME NEW p \in Procs, proc'[p].cut
        PROVE  proc'[p].base \in store'[local'[cloneOf(p)][Main]].anc /\ cloneOf(p)' = cloneOf(p)
    <2>1. cloneOf(p) \in Clones /\ local[cloneOf(p)][Main] \in Commits
      BY RefFacts
    <2>2. proc'[p].base \in store[local[cloneOf(p)][Main]].anc
      BY <1>1, <1>3, <2>1 DEF OrderInv, CutBases, SameCreate
    <2> QED
      BY <1>1, <2>1, <2>2 DEF cloneOf
  <1> QED
    BY <1>2, <1>3 DEF OrderInv, CutBases

\* What a command makes of the branches of the clones.
LEMMA CommandRefs ==
    ASSUME TypeInv, NEW p \in Procs, NEW c, c = cloneOf(p), CommandStep(p, c)
    PROVE  /\ Later /\ (OnlyClone(c) \/ UNCHANGED <<local, track, head, wt>>)
           /\ UNCHANGED <<store, track, remote, pulls, setup>>
           /\ \A d \in Clones : local'[d][Main] = local[d][Main]
           /\ \A q \in Procs : proc'[q].cut =>
                \/ proc[q].cut /\ SameCreate(proc[q], proc'[q])
                \/ /\ q = p /\ UNCHANGED <<local, head, wt>>
                   /\ Planned(c, proc'[q]) /\ proc'[q].name.slug \in Slugs
  <1>1. DOMAIN proc = Procs /\ Len(store) \in Nat \ {0}
    BY RefFacts DEF TypeInv, RunsOK
  <1>2. \A q \in Procs : SameCreate(proc[q], proc[q])
    BY DEF SameCreate
  <1>3. ASSUME NEW r, NEW a, Runs(p, r, a)
        PROVE  proc'[p] = r /\ \A q \in Procs : q # p => proc'[q] = proc[q]
    BY <1>1, <1>3 DEF Runs
  <1>4. UNCHANGED <<store, track, remote, pulls, setup>> /\ Later
    BY LaterStill DEF CommandStep, QuietStep, WriteStep, CutStep, RestoreStep, Still, TypeInv
  <1>5. CASE QuietStep(p, c)
    <2>1. UNCHANGED <<local, head, wt>>
      BY <1>5 DEF QuietStep, Still
    <2>2. PICK r, a : Quiet(p, c, r, a)
      BY <1>5 DEF QuietStep
    <2>3. r.cut => \/ proc[p].cut /\ SameCreate(proc[p], r)
                   \/ Planned(c, r) /\ r.name.slug \in Slugs
      BY <2>2, IdleOK DEF Quiet
    <2>4. proc'[p] = r /\ \A q \in Procs : q # p => proc'[q] = proc[q]
      BY <1>3, <2>2 DEF Quiet
    <2> QED
      BY <1>2, <1>4, <2>1, <2>3, <2>4
  <1>6. CASE WriteStep(p, c)
    <2>1. UNCHANGED <<local, track, head>> /\ OnlyClone(c)
      BY <1>6 DEF WriteStep, TypeInv, ClonesOK, OnlyClone
    <2>2. PICK a : Runs(p, Idle, a)
      BY <1>6 DEF WriteStep
    <2>3. proc'[p] = Idle /\ \A q \in Procs : q # p => proc'[q] = proc[q]
      BY <1>3, <2>2
    <2> QED
      BY <1>2, <1>4, <2>1, <2>3, IdleOK
  <1>7. CASE CutStep(p, c)
    <2>1. PICK r, a : /\ Runs(p, r, a)
                      /\ \/ r = Idle /\ UNCHANGED <<local, head, wt>>
                         \/ /\ SameCreate(proc[p], r)
                            /\ UNCHANGED <<local, head, wt>> \/ Cuts(c, proc[p])
      BY <1>7 DEF CutStep
    <2>2. proc'[p] = r /\ \A q \in Procs : q # p => proc'[q] = proc[q]
      BY <1>3, <2>1
    <2>3. proc[p].cut /\ c \in Clones /\ proc[p].name # Main
      BY <1>7, RefFacts DEF CutStep, RunOK
    <2>4. \A q \in Procs : proc'[q].cut => proc[q].cut /\ SameCreate(proc[q], proc'[q])
      BY <1>2, <2>1, <2>2, <2>3, IdleOK
    <2>5. CASE UNCHANGED <<local, head, wt>>
      BY <1>4, <2>4, <2>5
    <2>6. CASE Cuts(c, proc[p])
      <3>1. OnlyClone(c) /\ local'[c] = Put(local[c], proc[p].name, proc[p].base)
        BY <1>4, <2>3, <2>6, CutFacts
      <3>2. local'[c][Main] = local[c][Main]
        BY <2>3, <3>1, RefFacts DEF Put
      <3> QED
        BY <1>4, <2>4, <3>1, <3>2 DEF OnlyClone
    <2> QED
      BY <2>1, <2>5, <2>6
  <1>8. CASE RestoreStep(p, c)
    <2>1. PICK a : Runs(p, Idle, a)
      BY <1>8 DEF RestoreStep
    <2>2. proc'[p] = Idle /\ \A q \in Procs : q # p => proc'[q] = proc[q]
      BY <1>3, <2>1
    <2>3. /\ OnlyClone(c) /\ proc[p].cut /\ c \in Clones /\ proc[p].name # Main
          /\ local'[c] = local[c] \/ local'[c] = Without(local[c], proc[p].name)
      BY <1>8, RestoreFacts, RefFacts
    <2>4. local'[c][Main] = local[c][Main]
      BY <2>3, RefFacts DEF Without
    <2> QED
      BY <1>2, <1>4, <2>2, <2>3, <2>4, IdleOK DEF OnlyClone
  <1> QED
    BY <1>5, <1>6, <1>7, <1>8 DEF CommandStep

\* The steps of a user leave the commands as they are.
LEMMA UserCuts ==
    ASSUME UserStep
    PROVE  /\ UNCHANGED setup /\ \A p \in Procs : cloneOf(p)' = cloneOf(p)
           /\ \A p \in Procs : proc'[p].cut => proc[p].cut /\ SameCreate(proc[p], proc'[p])
  BY DEF UserStep, SameCreate, cloneOf

\* A fetch brings the clone up to the remote.
LEMMA OrderFetch ==
    ASSUME TypeInv, OrderInv, NEW c \in Clones, FetchStep(c), UserStep
    PROVE  OrderInv'
  <1>1. /\ UNCHANGED <<store, head, remote, pulls>> /\ OnlyClone(c) /\ track'[c] = remote
        /\ \/ local'[c] = local[c]
           \/ /\ local[c][Main] \in store[remote[Main]].anc
              /\ local'[c] = [local[c] EXCEPT ![Main] = remote[Main]]
    BY DEF FetchStep, isAncestor
  <1>2. Later
    BY <1>1, LaterStill DEF TypeInv
  <1>3. \A k \in Commits : k \in store[k].anc
    BY <1>2, RefFacts, AncestorsStay
  <1>4. /\ local[c][Main] \in store[local'[c][Main]].anc /\ local'[c][Main] \in store[remote[Main]].anc
        /\ local'[c][Main] \in Commits
    BY <1>1, <1>3, RefFacts DEF OrderInv, OrderOK
  <1>5. ASSUME NEW d \in Clones PROVE OrderOK(d)'
    <2>1. CASE d = c
      BY <1>1, <1>3, <1>4, <2>1, RefFacts DEF OrderOK
    <2>2. CASE d # c
      BY <1>1, <2>2 DEF OrderInv, OrderOK, OnlyClone
    <2> QED
      BY <2>1, <2>2
  <1>6. ASSUME NEW p \in Procs, proc'[p].cut
        PROVE  proc'[p].base \in store'[local'[cloneOf(p)][Main]].anc
    <2>1. /\ cloneOf(p) \in Clones /\ proc[p].cut /\ proc'[p].base = proc[p].base
          /\ proc[p].base \in store[local[cloneOf(p)][Main]].anc
      BY <1>6, RefFacts, UserCuts DEF OrderInv, CutBases, SameCreate
    <2>2. CASE cloneOf(p) = c
      <3>1. store[local[c][Main]].anc \subseteq store[local'[c][Main]].anc
        BY <1>2, <1>4, RefFacts, AncestorsStay
      <3> QED
        BY <1>1, <2>1, <2>2, <3>1
    <2>3. CASE cloneOf(p) # c
      BY <1>1, <2>1, <2>3 DEF OnlyClone
    <2> QED
      BY <2>2, <2>3
  <1> QED
    BY <1>5, <1>6, UserCuts DEF OrderInv, CutBases

\* A published branch holds what the remote held.
LEMMA OrderPublish ==
    ASSUME TypeInv, OrderInv, NEW c \in Clones, PublishStep(c), UserStep
    PROVE  /\ OrderInv'
           /\ \A b \in DOMAIN remote : remote[b] \in store[remote'[b]].anc
  <1> DEFINE h == head[c]
  <1>1. /\ UNCHANGED <<store, local, head, wt>> /\ OnlyClone(c) /\ h.n \in Numbers
        /\ h \in DOMAIN remote => remote[h] \in store[HeadCommit(c)].anc
        /\ remote' = Put(remote, h, HeadCommit(c)) /\ track'[c] = remote'
    BY DEF PublishStep, isAncestor
  <1>2. Later
    BY <1>1, LaterStill DEF TypeInv
  <1>3. /\ \A k \in Commits : k \in store[k].anc
        /\ \A k \in Commits : \A a \in store[k].anc : a \in Commits /\ store[a].anc \subseteq store[k].anc
    BY <1>2, RefFacts, AncestorsStay
  <1>4. h # Main /\ Main \in DOMAIN remote /\ HeadCommit(c) \in Commits /\ \A b \in DOMAIN remote : remote[b] \in Commits
    BY <1>1, NotMain, RefFacts
  <1> HIDE DEF h
  <1>5. /\ DOMAIN remote' = DOMAIN remote \cup {h} /\ remote'[Main] = remote[Main]
        /\ \A b \in DOMAIN remote : remote[b] \in store[remote'[b]].anc
        /\ \A b \in DOMAIN remote' : remote'[b] \in Commits
    BY <1>1, <1>3, <1>4 DEF Put
  <1>6. ASSUME NEW d \in Clones PROVE OrderOK(d)'
    <2>1. local'[d] = local[d] /\ local[d][Main] \in store[remote[Main]].anc
      BY <1>1 DEF OrderInv, OrderOK
    <2>2. \A b \in DOMAIN track'[d] : b \in DOMAIN remote' /\ track'[d][b] \in store[remote'[b]].anc
      <3>1. CASE d = c
        BY <1>1, <1>3, <1>5, <3>1
      <3>2. CASE d # c
        <4>1. /\ track'[d] = track[d]
              /\ \A b \in DOMAIN track[d] : b \in DOMAIN remote /\ track[d][b] \in store[remote[b]].anc
          BY <1>1, <3>2 DEF OnlyClone, OrderInv, OrderOK
        <4>2. \A b \in DOMAIN remote : store[remote[b]].anc \subseteq store[remote'[b]].anc
          BY <1>3, <1>5
        <4> QED
          BY <1>5, <4>1, <4>2
      <3> QED
        BY <3>1, <3>2
    <2> QED
      BY <1>1, <1>5, <2>1, <2>2 DEF OrderOK
  <1>7. CutBases'
    BY <1>1, UserCuts DEF OrderInv, CutBases, SameCreate
  <1> QED
    BY <1>5, <1>6, <1>7 DEF OrderInv

\* The default branch of the remote only grows.
LEMMA OrderLand ==
    ASSUME TypeInv, OrderInv, NEW b \in DOMAIN pulls, LandStep(b), UserStep
    PROVE  OrderInv'
  <1> DEFINE x == Len(store) + 1
  <1>1. /\ UNCHANGED <<local, track, head, wt>> /\ Later
        /\ remote' = [remote EXCEPT ![Main] = x]
        /\ \A a : a \in store'[x].anc <=> a = x \/ \E k \in {remote[Main], remote[b]} : a \in store[k].anc
    BY DEF LandStep, Added
  <1>2. \A k \in Commits : store'[k] = store[k] /\ k \in store[k].anc
    BY <1>1, RefFacts, AncestorsStay
  <1>3. store[remote[Main]].anc \subseteq store'[x].anc
    BY <1>1
  <1> HIDE DEF x
  <1>4. DOMAIN remote' = DOMAIN remote /\ remote'[Main] = x /\ \A d \in DOMAIN remote : d # Main => remote'[d] = remote[d]
    BY <1>1, RefFacts
  <1>5. \A d \in DOMAIN remote : store[remote[d]].anc \subseteq store'[remote'[d]].anc
    BY <1>2, <1>3, <1>4, RefFacts
  <1>6. ASSUME NEW c \in Clones PROVE OrderOK(c)'
    BY <1>1, <1>4, <1>5, RefFacts DEF OrderInv, OrderOK
  <1>7. CutBases'
    <2>1. \A p \in Procs : store'[local[cloneOf(p)][Main]].anc = store[local[cloneOf(p)][Main]].anc
      BY <1>2, RefFacts
    <2> QED
      BY <1>1, <2>1, UserCuts DEF OrderInv, CutBases, SameCreate
  <1> QED
    BY <1>6, <1>7 DEF OrderInv

\* The other steps of a user leave the default branches.
LEMMA OrderOther ==
    ASSUME TypeInv, OrderInv, NEW c \in Clones, Grows(c) \/ SwitchStep(c) \/ RenameStep(c), UserStep
    PROVE  OrderInv' /\ Later
  <1>1. Later /\ OnlyClone(c) /\ UNCHANGED <<track, remote>>
    BY LaterStill DEF Grows, SwitchStep, RenameStep, TypeInv
  <1>2. local'[c][Main] = local[c][Main]
    <2>1. CASE Grows(c)
      BY <2>1 DEF Grows
    <2>2. CASE SwitchStep(c)
      BY <2>2 DEF SwitchStep
    <2>3. CASE RenameStep(c)
      <3>1. PICK b : b.n \in Numbers /\ local'[c] = Put(Without(local[c], head[c]), b, HeadCommit(c))
        BY <2>3 DEF RenameStep
      <3>2. b # Main /\ head[c] # Main /\ Main \in DOMAIN local[c]
        BY <2>3, <3>1, NotMain, RefFacts DEF RenameStep
      <3>3. Main \in DOMAIN Without(local[c], head[c]) /\ Without(local[c], head[c])[Main] = local[c][Main]
        BY <3>2 DEF Without
      <3> QED
        BY <3>1, <3>2, <3>3 DEF Put
    <2> QED
      BY <2>1, <2>2, <2>3
  <1>3. \A d \in Clones : local'[d][Main] = local[d][Main] /\ track'[d] = track[d]
    BY <1>1, <1>2 DEF OnlyClone
  <1> QED
    BY <1>1, <1>3, UserCuts, OrderSame

\* The order is kept.
LEMMA OrderStep ==
    ASSUME TypeInv, OrderInv, [Next]_vars
    PROVE  OrderInv'
  <1>1. CASE UNCHANGED vars
    BY <1>1 DEF vars, OrderInv, OrderOK, CutBases, cloneOf
  <1>2. ASSUME NEW p \in Procs, CommandStep(p, cloneOf(p)) PROVE OrderInv'
    <2>1. /\ Later /\ UNCHANGED <<store, track, remote, pulls, setup>>
          /\ \A d \in Clones : local'[d][Main] = local[d][Main]
          /\ \A q \in Procs : proc'[q].cut =>
               \/ proc[q].cut /\ SameCreate(proc[q], proc'[q])
               \/ q = p /\ Planned(cloneOf(p), proc'[q])
      BY <1>2, CommandRefs
    <2>2. \A q \in Procs : proc'[q].cut =>
            (proc[q].cut /\ SameCreate(proc[q], proc'[q])) \/ proc'[q].base = local[cloneOf(q)][Main]
      BY <2>1 DEF Planned
    <2> QED
      BY <2>1, <2>2, OrderSame
  <1>3. ASSUME UserStep, NEW c \in Clones, CloneStep(c) PROVE OrderInv'
    BY <1>3, OrderFetch, OrderPublish, OrderOther DEF CloneStep
  <1>4. ASSUME UserStep, NEW b \in DOMAIN pulls, LandStep(b) PROVE OrderInv'
    BY <1>4, OrderLand
  <1> QED
    BY <1>1, <1>2, <1>3, <1>4, Steps

\* The order holds at the start.
LEMMA OrderInit ==
    ASSUME Init
    PROVE  OrderInv
  <1>1. TypeInv /\ setup \in Setups
    BY TypeInit DEF Init
  <1>2. \A k \in Commits : k \in store[k].anc
    BY <1>1, RefFacts DEF StoreOK, CommitOK, Commits
  <1>3. CutBases
    BY IdleOK DEF CutBases, Init
  <1>4. CASE StartProject
    <2>1. /\ DOMAIN remote = {Main} /\ remote[Main] = 1
          /\ \A c \in Clones : track[c] = remote /\ \A b \in DOMAIN local[c] : local[c][b] = 1
      BY <1>4, ProjectFacts
    <2> QED
      BY <1>1, <1>2, <1>3, <2>1, RefFacts DEF OrderInv, OrderOK
  <1>5. CASE StartReview
    <2>1. /\ DOMAIN remote = {Main} \cup {ReviewBranch[p] : p \in Procs} /\ remote[Main] = 1
          /\ \A p \in Procs : remote[ReviewBranch[p]] = setup.commit[p]
      BY <1>1, <1>5, ReviewFacts
    <2>2. ASSUME NEW c \in Clones PROVE OrderOK(c)
      <3>1. PICK p \in Procs :
              /\ DOMAIN local[c] = {Main, ReviewBranch[p]}
              /\ local[c][Main] = 1 /\ local[c][ReviewBranch[p]] = setup.commit[p]
              /\ track[c] = local[c]
        BY <1>1, <1>5, ReviewFacts
      <3>2. \A b \in DOMAIN track[c] : b \in DOMAIN remote /\ track[c][b] = remote[b]
        BY <2>1, <3>1
      <3> QED
        BY <1>1, <1>2, <2>1, <3>1, <3>2, RefFacts DEF OrderOK
    <2> QED
      BY <1>3, <2>2 DEF OrderInv
  <1> QED
    BY <1>4, <1>5 DEF Init

----------------------------------------------------------------------------
(* What a clone knows it never forgets                                     *)

KnownIn(s, refs, fetched) ==
  (UNION {s[refs[b]].anc : b \in DOMAIN refs}) \cup (UNION {s[fetched[b]].anc : b \in DOMAIN fetched})

\* What is known by a reference.
LEMMA KnownByRef ==
    ASSUME NEW s, NEW refs, NEW fetched
    PROVE  /\ \A b \in DOMAIN refs : s[refs[b]].anc \subseteq KnownIn(s, refs, fetched)
           /\ \A b \in DOMAIN fetched : s[fetched[b]].anc \subseteq KnownIn(s, refs, fetched)
           /\ \A k \in KnownIn(s, refs, fetched) :
                \/ \E b \in DOMAIN refs : k \in s[refs[b]].anc
                \/ \E b \in DOMAIN fetched : k \in s[fetched[b]].anc
  <1>1. \A k \in KnownIn(s, refs, fetched) :
          \/ \E b \in DOMAIN refs : k \in s[refs[b]].anc
          \/ \E b \in DOMAIN fetched : k \in s[fetched[b]].anc
    BY DEF KnownIn
  <1>2. /\ \A b \in DOMAIN refs : s[refs[b]].anc \subseteq KnownIn(s, refs, fetched)
        /\ \A b \in DOMAIN fetched : s[fetched[b]].anc \subseteq KnownIn(s, refs, fetched)
    BY Zenon DEF KnownIn
  <1> QED
    BY <1>1, <1>2

\* A clone that still knows the commits of its references knows all it knew.
LEMMA KnownKept ==
    ASSUME TypeInv, TypeInv', Later, NEW c \in Clones,
           \A b \in DOMAIN local[c] : \/ \E d \in DOMAIN local'[c] : local[c][b] \in store'[local'[c][d]].anc
                                      \/ \E d \in DOMAIN track'[c] : local[c][b] \in store'[track'[c][d]].anc,
           \A b \in DOMAIN track[c] : \/ \E d \in DOMAIN local'[c] : track[c][b] \in store'[local'[c][d]].anc
                                      \/ \E d \in DOMAIN track'[c] : track[c][b] \in store'[track'[c][d]].anc
    PROVE  Known(c) \subseteq Known(c)'
  <1>1. /\ Known(c) = KnownIn(store, local[c], track[c])
        /\ Known(c)' = KnownIn(store', local'[c], track'[c])
    BY DEF Known, KnownIn
  <1>2. /\ \A b \in DOMAIN local'[c] : local'[c][b] \in 1..Len(store')
        /\ \A b \in DOMAIN track'[c] : track'[c][b] \in 1..Len(store')
    BY DEF TypeInv, ClonesOK, CloneOK, RefsIn
  <1>3. ASSUME NEW k \in Commits,
               \/ \E d \in DOMAIN local'[c] : k \in store'[local'[c][d]].anc
               \/ \E d \in DOMAIN track'[c] : k \in store'[track'[c][d]].anc
        PROVE  store[k].anc \subseteq Known(c)'
    <2>1. store'[k] = store[k]
      BY RefFacts, AncestorsStay
    <2>2. CASE \E d \in DOMAIN local'[c] : k \in store'[local'[c][d]].anc
      <3>1. PICK d \in DOMAIN local'[c] : k \in store'[local'[c][d]].anc
        BY <2>2
      <3>2. store'[k].anc \subseteq store'[local'[c][d]].anc
        BY <1>2, <3>1, RefFacts, AncestorsStay
      <3>3. store'[local'[c][d]].anc \subseteq KnownIn(store', local'[c], track'[c])
        BY KnownByRef
      <3> QED
        BY <1>1, <2>1, <3>2, <3>3
    <2>3. CASE \E d \in DOMAIN track'[c] : k \in store'[track'[c][d]].anc
      <3>1. PICK d \in DOMAIN track'[c] : k \in store'[track'[c][d]].anc
        BY <2>3
      <3>2. store'[k].anc \subseteq store'[track'[c][d]].anc
        BY <1>2, <3>1, RefFacts, AncestorsStay
      <3>3. store'[track'[c][d]].anc \subseteq KnownIn(store', local'[c], track'[c])
        BY KnownByRef
      <3> QED
        BY <1>1, <2>1, <3>2, <3>3
    <2> QED
      BY <1>3, <2>2, <2>3
  <1>4. \A b \in DOMAIN local[c] : store[local[c][b]].anc \subseteq Known(c)'
    BY <1>3, RefFacts
  <1>5. \A b \in DOMAIN track[c] : store[track[c][b]].anc \subseteq Known(c)'
    BY <1>3, RefFacts
  <1>6. ASSUME NEW k \in Known(c) PROVE k \in Known(c)'
    <2>1. \/ \E b \in DOMAIN local[c] : k \in store[local[c][b]].anc
          \/ \E b \in DOMAIN track[c] : k \in store[track[c][b]].anc
      BY <1>1, KnownByRef
    <2> QED
      BY <1>4, <1>5, <2>1
  <1> QED
    BY <1>6

\* No step makes a clone forget a commit.
LEMMA KnownStep ==
    ASSUME TypeInv, OrderInv, TypeInv', OrderInv', [Next]_vars, NEW c \in Clones
    PROVE  Known(c) \subseteq Known(c)'
  <1>1. CASE UNCHANGED vars
    <2>1. Known(c)' = Known(c)
      BY <1>1 DEF vars, Known
    <2> QED
      BY <2>1
  <1>2. ASSUME Later
        PROVE  \A k \in Commits : store'[k] = store[k] /\ k \in store'[k].anc
    BY <1>2, RefFacts, AncestorsStay
  <1>3. ASSUME Later, local'[c] = local[c], track'[c] = track[c]
        PROVE  Known(c) \subseteq Known(c)'
    <2>1. /\ \A b \in DOMAIN local[c] : local[c][b] \in store'[local'[c][b]].anc
          /\ \A b \in DOMAIN track[c] : track[c][b] \in store'[track'[c][b]].anc
      BY <1>2, <1>3, RefFacts
    <2> QED
      BY <1>3, <2>1, KnownKept
  <1>4. ASSUME NEW p \in Procs, CommandStep(p, cloneOf(p)), c # cloneOf(p)
        PROVE  Known(c) \subseteq Known(c)'
    <2>1. Later /\ track' = track /\ local'[c] = local[c]
      BY <1>4, CommandRefs DEF OnlyClone
    <2> QED
      BY <1>3, <2>1
  <1>5. ASSUME NEW p \in Procs, CommandStep(p, c), c = cloneOf(p)
        PROVE  Known(c) \subseteq Known(c)'
    <2>1. Later /\ UNCHANGED <<store, track>>
      BY <1>5, CommandRefs
    <2>2. CASE local'[c] = local[c]
      BY <1>3, <2>1, <2>2
    <2>3. CASE CutStep(p, c) /\ local'[c] # local[c]
      <3>1. Cuts(c, proc[p])
        BY <2>3 DEF CutStep
      <3>2. local'[c] = Put(local[c], proc[p].name, proc[p].base)
        BY <2>1, <3>1, CutFacts
      <3>3. proc[p].name \notin DOMAIN local[c]
        BY <3>1 DEF Cuts
      <3>4. \A b \in DOMAIN local[c] : b \in DOMAIN local'[c] /\ local'[c][b] = local[c][b]
        BY <3>2, <3>3 DEF Put
      <3>5. /\ \A b \in DOMAIN local[c] : local[c][b] \in store'[local'[c][b]].anc
            /\ \A b \in DOMAIN track[c] : track[c][b] \in store'[track'[c][b]].anc
        BY <1>2, <2>1, <3>4, RefFacts
      <3> QED
        BY <2>1, <3>4, <3>5, KnownKept
    <2>4. CASE RestoreStep(p, c) /\ local'[c] # local[c]
      <3>1. proc[p].cut /\ StillAtBase(proc[p], local[c]) /\ local'[c] = Without(local[c], proc[p].name)
        BY <1>5, <2>4, RestoreFacts
      <3>2. /\ local[c][proc[p].name] = proc[p].base /\ proc[p].name # Main
            /\ proc[p].base \in store[local[c][Main]].anc
        BY <1>5, <3>1, RefFacts DEF StillAtBase, OrderInv, CutBases
      <3>3. /\ \A b \in DOMAIN local[c] : b # proc[p].name => b \in DOMAIN local'[c] /\ local'[c][b] = local[c][b]
            /\ Main \in DOMAIN local'[c] /\ local'[c][Main] = local[c][Main]
        BY <3>1, <3>2, RefFacts DEF Without
      <3>4. \A b \in DOMAIN local[c] : \E d \in DOMAIN local'[c] : local[c][b] \in store'[local'[c][d]].anc
        <4> TAKE b \in DOMAIN local[c]
        <4>1. CASE b = proc[p].name
          BY <2>1, <3>2, <3>3, <4>1
        <4>2. CASE b # proc[p].name
          BY <1>2, <2>1, <3>3, <4>2, RefFacts
        <4> QED
          BY <4>1, <4>2
      <3>5. \A b \in DOMAIN track[c] : track[c][b] \in store'[track'[c][b]].anc
        BY <1>2, <2>1, RefFacts
      <3> QED
        BY <2>1, <3>4, <3>5, KnownKept
    <2>5. CASE QuietStep(p, c) \/ WriteStep(p, c)
      <3>1. local'[c] = local[c]
        BY <2>5 DEF QuietStep, WriteStep, Still
      <3> QED
        BY <2>2, <3>1
    <2> QED
      BY <1>5, <2>2, <2>3, <2>4, <2>5 DEF CommandStep
  <1>6. ASSUME UserStep, NEW d \in Clones, CloneStep(d), c # d
        PROVE  Known(c) \subseteq Known(c)'
    <2>1. Later /\ OnlyClone(d)
      BY <1>6, LaterStill
        DEF CloneStep, Grows, FetchStep, SwitchStep, RenameStep, PublishStep, TypeInv
    <2> QED
      BY <1>3, <1>6, <2>1 DEF OnlyClone
  <1>7. ASSUME UserStep, CloneStep(c)
        PROVE  Known(c) \subseteq Known(c)'
    <2>1. CASE Grows(c)
      <3>1. PICK theirs \in SUBSET {track[c][Main]} :
              Later /\ Added(Len(store) + 1, {HeadCommit(c)} \cup theirs, wt'[c])
        BY <2>1 DEF Grows
      <3>2. track' = track /\ local'[c] = [local[c] EXCEPT ![head[c]] = Len(store) + 1]
        BY <2>1 DEF Grows
      <3>3. store[HeadCommit(c)].anc \subseteq store'[Len(store) + 1].anc
        BY <3>1 DEF Added
      <3>4. HeadCommit(c) = local[c][head[c]] /\ HeadCommit(c) \in Commits /\ head[c] \in DOMAIN local[c]
            /\ HeadCommit(c) \in store[HeadCommit(c)].anc
        BY <3>1, RefFacts, AncestorsStay
      <3>5. \A b \in DOMAIN local[c] : b \in DOMAIN local'[c] /\ local[c][b] \in store'[local'[c][b]].anc
        <4> TAKE b \in DOMAIN local[c]
        <4>1. CASE b = head[c]
          BY <3>2, <3>3, <3>4, <4>1
        <4>2. CASE b # head[c]
          BY <1>2, <3>1, <3>2, <4>2, RefFacts
        <4> QED
          BY <4>1, <4>2
      <3>6. \A b \in DOMAIN track[c] : track[c][b] \in store'[track'[c][b]].anc
        BY <1>2, <3>1, <3>2, RefFacts
      <3> QED
        BY <3>1, <3>2, <3>5, <3>6, KnownKept
    <2>2. CASE FetchStep(c)
      <3>1. /\ Later /\ store' = store /\ track'[c] = remote
            /\ \/ local'[c] = local[c]
               \/ /\ local[c][Main] \in store[remote[Main]].anc
                  /\ local'[c] = [local[c] EXCEPT ![Main] = remote[Main]]
        BY <2>2, LaterStill DEF FetchStep, TypeInv, isAncestor
      <3>2. \A b \in DOMAIN local[c] : b \in DOMAIN local'[c] /\ local[c][b] \in store'[local'[c][b]].anc
        BY <1>2, <3>1, RefFacts
      <3>3. \A b \in DOMAIN track[c] : b \in DOMAIN track'[c] /\ track[c][b] \in store'[track'[c][b]].anc
        BY <3>1 DEF OrderInv, OrderOK
      <3> QED
        BY <3>1, <3>2, <3>3, KnownKept
    <2>3. CASE SwitchStep(c)
      <3>1. Later /\ UNCHANGED <<local, track>>
        BY <2>3, LaterStill DEF SwitchStep, TypeInv
      <3> QED
        BY <1>3, <3>1
    <2>4. CASE RenameStep(c)
      <3>1. Later /\ UNCHANGED <<store, track>>
        BY <2>4, LaterStill DEF RenameStep, TypeInv
      <3>2. PICK n : local'[c] = Put(Without(local[c], head[c]), n, HeadCommit(c)) /\ n \notin DOMAIN local[c]
        BY <2>4 DEF RenameStep
      <3>3. /\ n \in DOMAIN local'[c] /\ local'[c][n] = local[c][head[c]]
            /\ \A b \in DOMAIN local[c] : b # head[c] => b \in DOMAIN local'[c] /\ local'[c][b] = local[c][b]
        BY <3>2, RefFacts DEF Put, Without
      <3>4. \A b \in DOMAIN local[c] : \E d \in DOMAIN local'[c] : local[c][b] \in store'[local'[c][d]].anc
        BY <1>2, <3>1, <3>3, RefFacts
      <3>5. \A b \in DOMAIN track[c] : track[c][b] \in store'[track'[c][b]].anc
        BY <1>2, <3>1, RefFacts
      <3> QED
        BY <3>1, <3>4, <3>5, KnownKept
    <2>5. CASE PublishStep(c)
      <3>1. Later /\ UNCHANGED <<store, local>> /\ track'[c] = remote'
        BY <2>5, LaterStill DEF PublishStep, TypeInv
      <3>2. \A b \in DOMAIN remote : b \in DOMAIN remote' /\ remote[b] \in store[remote'[b]].anc
        <4>1. \A b \in DOMAIN remote : remote[b] \in store[remote'[b]].anc
          BY <1>7, <2>5, OrderPublish
        <4>2. \E h, k : remote' = Put(remote, h, k)
          BY <2>5 DEF PublishStep
        <4>3. \A b \in DOMAIN remote : b \in DOMAIN remote'
          BY <4>2 DEF Put
        <4> QED
          BY <4>1, <4>3
      <3>3. /\ \A b \in DOMAIN local[c] : local[c][b] \in store'[local'[c][b]].anc
            /\ \A b \in DOMAIN track[c] : b \in DOMAIN remote /\ track[c][b] \in store[remote[b]].anc
        BY <1>2, <3>1, RefFacts DEF OrderInv, OrderOK
      <3>4. \A b \in DOMAIN remote : store[remote[b]].anc \subseteq store[remote'[b]].anc
        <4>1. \A b \in DOMAIN remote : remote'[b] \in Commits
          BY <3>1, <3>2 DEF TypeInv, HostOK, RefsIn, Commits
        <4> QED
          BY <3>1, <3>2, <4>1, RefFacts, AncestorsStay
      <3>5. \A b \in DOMAIN track[c] : b \in DOMAIN track'[c] /\ track[c][b] \in store'[track'[c][b]].anc
        BY <3>1, <3>2, <3>3, <3>4
      <3> QED
        BY <3>1, <3>3, <3>5, KnownKept
    <2> QED
      BY <1>7, <2>1, <2>2, <2>3, <2>4, <2>5 DEF CloneStep
  <1>8. ASSUME UserStep, NEW b \in DOMAIN pulls, LandStep(b)
        PROVE  Known(c) \subseteq Known(c)'
    BY <1>3, <1>8 DEF LandStep
  <1> QED
    BY <1>1, <1>4, <1>5, <1>6, <1>7, <1>8, Steps

----------------------------------------------------------------------------
(* What a step makes of the working trees and of what commands hold        *)

\* A command starts to write what it has made from the clone.
LEMMA WriteStarts ==
    ASSUME TypeInv, NEW p \in Procs, NEW c, c = cloneOf(p), CommandStep(p, c),
           NEW q \in Procs, proc'[q].pc = "write"
    PROVE  \/ proc'[q] = proc[q]
           \/ q = p /\ Writes(c, proc'[q]) /\ Still
  <1>1. DOMAIN proc = Procs
    BY DEF TypeInv, RunsOK
  <1>2. ASSUME NEW r, NEW a, Runs(p, r, a)
        PROVE  proc'[p] = r /\ \A d \in Procs : d # p => proc'[d] = proc[d]
    BY <1>1, <1>2 DEF Runs
  <1>3. CASE QuietStep(p, c)
    <2>1. PICK r, a : Quiet(p, c, r, a)
      BY <1>3 DEF QuietStep
    <2>2. r.pc = "write" => Writes(c, r)
      BY <2>1, IdleOK DEF Quiet, Planned
    <2>3. proc'[p] = r /\ \A d \in Procs : d # p => proc'[d] = proc[d]
      BY <1>2, <2>1 DEF Quiet
    <2> QED
      BY <1>3, <2>2, <2>3 DEF QuietStep
  <1>4. CASE WriteStep(p, c) \/ RestoreStep(p, c)
    <2>1. PICK a : Runs(p, Idle, a)
      BY <1>4 DEF WriteStep, RestoreStep
    <2>2. proc'[p] = Idle /\ \A d \in Procs : d # p => proc'[d] = proc[d]
      BY <1>2, <2>1
    <2> QED
      BY <2>2, IdleOK
  <1>5. CASE CutStep(p, c)
    <2>1. PICK r, a : Runs(p, r, a) /\ (r = Idle \/ r.pc \in {"reload", "restore"})
      BY <1>5 DEF CutStep
    <2>2. proc'[p] = r /\ \A d \in Procs : d # p => proc'[d] = proc[d]
      BY <1>2, <2>1
    <2> QED
      BY <2>1, <2>2, IdleOK
  <1> QED
    BY <1>3, <1>4, <1>5 DEF CommandStep

(* The working tree of c after a step is the one before, the tree of a     *)
(* commit, or what a command writes.                                       *)
Source(c) ==
  \/ wt'[c] = wt[c]
  \/ \E k \in 1..Len(store') : wt'[c] = store'[k].tree
  \/ \E p \in Procs : WriteStep(p, c) /\ wt'[c] = proc[p].new

(* A clone follows its branch: the working tree stays and the branch does  *)
(* not go back, or the branch is checked out as it is.                     *)
Follows(c) ==
  /\ HeadCommit(c)' \in 1..Len(store')
  /\ \/ wt'[c] = store'[HeadCommit(c)'].tree
     \/ /\ wt'[c] = wt[c] /\ HeadCommit(c) \in store'[HeadCommit(c)'].anc
        /\ store'[HeadCommit(c)'].tree = store[HeadCommit(c)].tree

\* A clone that a step leaves alone.
LEMMA FollowsSame ==
    ASSUME TypeInv, Later, NEW c \in Clones, local'[c] = local[c], head'[c] = head[c], wt'[c] = wt[c]
    PROVE  Follows(c) /\ Source(c)
  <1>1. HeadCommit(c)' = HeadCommit(c) /\ HeadCommit(c) \in Commits
    BY RefFacts DEF HeadCommit
  <1>2. /\ store'[HeadCommit(c)] = store[HeadCommit(c)]
        /\ HeadCommit(c) \in store'[HeadCommit(c)].anc
    BY <1>1, RefFacts, AncestorsStay
  <1>3. HeadCommit(c) \in 1..Len(store')
    BY <1>1 DEF Later, Commits
  <1> HIDE DEF HeadCommit
  <1> QED
    BY <1>1, <1>2, <1>3 DEF Follows, Source

\* What git switch leaves, for a clone without changes.
LEMMA CleanSwitch ==
    ASSUME NEW c, NEW k, ~Refused(c, k)
    PROVE  /\ Switched(c, k) = wt[c] \/ Switched(c, k) = TreeOf(k)
           /\ ~Dirty(c) => Switched(c, k) = TreeOf(k)
           /\ Dirty(c) => Switched(c, k) = wt[c] /\ TreeOf(k) = HeadTree(c)
  BY DEF Refused, Switched, Dirty

\* How a command moves its clone.
LEMMA CommandFollows ==
    ASSUME TypeInv, NEW p \in Procs, NEW c, c = cloneOf(p), CommandStep(p, c)
    PROVE  /\ Source(c)
           /\ Follows(c) \/ WriteStep(p, c) \/ (Dirty(c) /\ proc[p].cut)
  <1>1. Later /\ store' = store /\ c \in Clones
    BY CommandRefs, RefFacts
  <1>2. CASE UNCHANGED <<local, head, wt>>
    BY <1>1, <1>2, FollowsSame
  <1>3. CASE WriteStep(p, c)
    <2>1. wt'[c] = proc[p].new
      BY <1>1, <1>3 DEF WriteStep, TypeInv, ClonesOK
    <2> QED
      BY <1>3, <2>1 DEF Source
  <1>4. CASE CutStep(p, c) /\ Cuts(c, proc[p])
    <2>1. /\ local'[c] = Put(local[c], proc[p].name, proc[p].base) /\ head'[c] = proc[p].name
          /\ wt'[c] = Switched(c, proc[p].base) /\ ~Refused(c, proc[p].base)
      <3>1. UNCHANGED track /\ Cuts(c, proc[p])
        BY <1>4 DEF CutStep
      <3>2. ~Refused(c, proc[p].base)
        BY <3>1 DEF Cuts
      <3> QED
        BY <1>1, <3>1, <3>2, CutFacts
    <2>2. proc[p].cut /\ proc[p].base \in Commits
      BY <1>4, RefFacts DEF CutStep, RunOK
    <2>3. HeadCommit(c)' = proc[p].base
      BY <2>1 DEF HeadCommit, Put
    <2>4. /\ wt'[c] = wt[c] \/ wt'[c] = TreeOf(proc[p].base)
          /\ ~Dirty(c) => wt'[c] = TreeOf(proc[p].base)
      BY <2>1, CleanSwitch
    <2>5. Source(c)
      BY <1>1, <2>2, <2>4 DEF Source, TreeOf, Commits
    <2>6. ~Dirty(c) => Follows(c)
      BY <1>1, <2>2, <2>3, <2>4 DEF Follows, TreeOf, Commits
    <2> QED
      BY <2>2, <2>5, <2>6
  <1>5. CASE RestoreStep(p, c)
    <2>1. /\ proc[p].cut
          /\ \/ head'[c] = head[c] /\ wt'[c] = wt[c]
             \/ /\ ~Refused(c, local[c][proc[p].original]) /\ proc[p].original \in DOMAIN local[c]
                /\ head'[c] = proc[p].original /\ wt'[c] = Switched(c, local[c][proc[p].original])
          /\ \/ local'[c] = local[c]
             \/ local'[c] = Without(local[c], proc[p].name)
          /\ head'[c] \in DOMAIN local'[c]
      BY <1>5, RestoreFacts
    <2>2. HeadCommit(c)' = local[c][head'[c]]
      BY <2>1 DEF HeadCommit, Without
    <2>3. CASE head'[c] = head[c] /\ wt'[c] = wt[c]
      <3>1. HeadCommit(c)' = HeadCommit(c) /\ HeadCommit(c) \in Commits
        BY <2>2, <2>3, RefFacts
      <3>2. HeadCommit(c) \in store[HeadCommit(c)].anc
        BY <1>1, <3>1, RefFacts, AncestorsStay
      <3>3. HeadCommit(c) \in 1..Len(store')
        BY <1>1, <3>1 DEF Commits
      <3> QED
        BY <1>1, <2>3, <3>1, <3>2, <3>3 DEF Follows, Source
    <2>4. CASE /\ ~Refused(c, local[c][proc[p].original]) /\ proc[p].original \in DOMAIN local[c]
               /\ head'[c] = proc[p].original /\ wt'[c] = Switched(c, local[c][proc[p].original])
      <3> DEFINE k == local[c][proc[p].original]
      <3>1. k \in Commits /\ HeadCommit(c)' = k
        BY <1>1, <2>2, <2>4, RefFacts
      <3>2. /\ wt'[c] = wt[c] \/ wt'[c] = TreeOf(k)
            /\ ~Dirty(c) => wt'[c] = TreeOf(k)
        BY <2>4, CleanSwitch
      <3> HIDE DEF k
      <3>3. Source(c)
        BY <1>1, <3>1, <3>2 DEF Source, TreeOf, Commits
      <3>4. ~Dirty(c) => Follows(c)
        BY <1>1, <3>1, <3>2 DEF Follows, TreeOf, Commits
      <3> QED
        BY <2>1, <3>3, <3>4
    <2> QED
      BY <2>1, <2>3, <2>4
  <1>6. CASE QuietStep(p, c)
    BY <1>2, <1>6 DEF QuietStep, Still
  <1> QED
    BY <1>2, <1>3, <1>4, <1>5, <1>6 DEF CommandStep, CutStep

\* How a user moves a clone.
LEMMA UserFollows ==
    ASSUME TypeInv, NEW c \in Clones, CloneStep(c)
    PROVE  /\ Source(c) /\ Follows(c) /\ Later
           /\ OnlyClone(c)
  <1>1. Later /\ OnlyClone(c)
    BY LaterStill
      DEF CloneStep, Grows, FetchStep, SwitchStep, RenameStep, PublishStep, TypeInv
  <1>2. /\ HeadCommit(c) = local[c][head[c]] /\ HeadCommit(c)' = local'[c][head'[c]] /\ HeadCommit(c) \in Commits
        /\ head[c] \in DOMAIN local[c]
    BY RefFacts DEF HeadCommit
  <1>3. \A k \in Commits : k \in 1..Len(store') /\ store'[k] = store[k] /\ k \in store[k].anc
    <2>1. \A k \in Commits : k \in 1..Len(store')
      BY <1>1 DEF Later, Commits
    <2> QED
      BY <1>1, <2>1, RefFacts, AncestorsStay
  <1>4. CASE Grows(c)
    <2>1. /\ head' = head /\ local'[c] = [local[c] EXCEPT ![head[c]] = Len(store) + 1]
          /\ store'[Len(store) + 1].tree = wt'[c] /\ Len(store') = Len(store) + 1
      BY <1>4 DEF Grows, Added
    <2>2. HeadCommit(c)' = Len(store) + 1 /\ Len(store) + 1 \in 1..Len(store')
      BY <1>2, <2>1, RefFacts
    <2> QED
      BY <1>1, <2>1, <2>2 DEF Follows, Source
  <1>5. CASE FetchStep(c)
    <2>1. /\ store' = store /\ head' = head
          /\ \/ local'[c] = local[c] /\ wt'[c] = wt[c]
             \/ /\ local[c][Main] \in store[remote[Main]].anc
                /\ local'[c] = [local[c] EXCEPT ![Main] = remote[Main]]
                /\ \/ head[c] # Main /\ wt'[c] = wt[c]
                   \/ head[c] = Main /\ ~Refused(c, remote[Main]) /\ wt'[c] = Switched(c, remote[Main])
      BY <1>5 DEF FetchStep, isAncestor
    <2>2. CASE local'[c] = local[c] /\ wt'[c] = wt[c]
      BY <1>1, <2>1, <2>2, FollowsSame
    <2>3. CASE local'[c] = [local[c] EXCEPT ![Main] = remote[Main]] /\ head[c] # Main /\ wt'[c] = wt[c]
      <3>1. HeadCommit(c)' = HeadCommit(c)
        BY <1>2, <2>1, <2>3
      <3> QED
        BY <1>1, <1>2, <1>3, <2>1, <2>3, <3>1 DEF Follows, Source
    <2>4. CASE /\ local'[c] = [local[c] EXCEPT ![Main] = remote[Main]] /\ local[c][Main] \in store[remote[Main]].anc
               /\ head[c] = Main /\ ~Refused(c, remote[Main]) /\ wt'[c] = Switched(c, remote[Main])
      <3>1. HeadCommit(c)' = remote[Main] /\ remote[Main] \in Commits /\ HeadCommit(c) \in store[remote[Main]].anc
        BY <1>2, <2>1, <2>4, RefFacts
      <3>2. /\ ~Dirty(c) => wt'[c] = TreeOf(remote[Main])
            /\ Dirty(c) => wt'[c] = wt[c] /\ TreeOf(remote[Main]) = HeadTree(c)
        BY <2>4, CleanSwitch
      <3>3. HeadTree(c) = store[HeadCommit(c)].tree /\ TreeOf(remote[Main]) = store[remote[Main]].tree
        BY DEF HeadTree, TreeOf
      <3> QED
        BY <1>1, <1>3, <2>1, <3>1, <3>2, <3>3 DEF Follows, Source
    <2> QED
      BY <2>1, <2>2, <2>3, <2>4
  <1>6. CASE SwitchStep(c)
    <2>1. PICK b \in DOMAIN local[c] : head'[c] = b /\ wt'[c] = TreeOf(local[c][b]) /\ local' = local
      BY <1>6 DEF SwitchStep
    <2>2. HeadCommit(c)' = local[c][b] /\ local[c][b] \in Commits
      BY <1>2, <2>1, RefFacts
    <2> QED
      BY <1>1, <1>3, <2>1, <2>2 DEF Follows, Source, TreeOf
  <1>7. CASE RenameStep(c)
    <2>1. PICK n : local'[c] = Put(Without(local[c], head[c]), n, HeadCommit(c)) /\ head'[c] = n /\ wt' = wt
      BY <1>7 DEF RenameStep
    <2>2. HeadCommit(c)' = HeadCommit(c)
      BY <1>2, <2>1 DEF Put
    <2> QED
      BY <1>1, <1>2, <1>3, <2>1, <2>2 DEF Follows, Source
  <1>8. CASE PublishStep(c)
    BY <1>1, <1>8, FollowsSame DEF PublishStep
  <1> QED
    BY <1>1, <1>4, <1>5, <1>6, <1>7, <1>8 DEF CloneStep

----------------------------------------------------------------------------
(* The bases are in the history, where every process has its own clone     *)

(* The base of every manifest of a tree is in the history of a commit.     *)
Kept(s, t, k) == \A n \in Numbers : t.sets[n] # None => t.sets[n].base \in s[k].anc

HistTrees == \A k \in Commits : Kept(store, store[k].tree, k)
HistFiles == \A c \in Clones : Kept(store, wt[c], HeadCommit(c))
HistRuns == \A p \in Procs : proc[p].pc = "write" =>
              proc[p].seen \in Commits /\ Kept(store, proc[p].new, proc[p].seen)

(* Nothing is changed in a clone from the plan of a create to its write.   *)
CleanCuts == \A p \in Procs : proc[p].cut => ~Dirty(cloneOf(p))

HistInv == HistTrees /\ HistFiles /\ HistRuns /\ CleanCuts

\* A step that adds no commit.
LEMMA HistTreesSame ==
    ASSUME HistTrees, store' = store
    PROVE  HistTrees'
  BY DEF HistTrees, Kept, Commits

\* A commit whose manifests come from its parents.
LEMMA HistTreesAdded ==
    ASSUME TypeInv, Later, HistTrees, NEW parents, NEW tree, Added(Len(store) + 1, parents, tree),
           \A n \in Numbers : tree.sets[n] # None => \E k \in parents : tree.sets[n].base \in store[k].anc
    PROVE  HistTrees'
  <1> DEFINE x == Len(store) + 1
  <1>1. Len(store') = x /\ store'[x].tree = tree /\ \A a : (\E k \in parents : a \in store[k].anc) => a \in store'[x].anc
    BY DEF Added
  <1>2. Kept(store', tree, x)
    BY <1>1 DEF Kept
  <1>3. \A k \in Commits : Kept(store', store'[k].tree, k)
    BY DEF HistTrees, Kept, Later
  <1>4. \A k \in 1..x : k \in Commits \/ k = x
    BY RefFacts DEF Commits
  <1>5. \A k \in 1..x : Kept(store', store'[k].tree, k)
    BY <1>1, <1>2, <1>3, <1>4
  <1> QED
    BY <1>1, <1>5 DEF HistTrees, Commits

\* The manifests stay in the history of a clone that follows its branch.
LEMMA FollowsKept ==
    ASSUME TypeInv, Later, HistFiles, HistTrees', NEW c \in Clones, Follows(c)
    PROVE  /\ Kept(store', wt'[c], HeadCommit(c)')
           /\ ~Dirty(c) => ~Dirty(c)'
  <1>1. HeadCommit(c) \in Commits /\ store'[HeadCommit(c)] = store[HeadCommit(c)]
    BY RefFacts, AncestorsStay
  <1>2. Kept(store, wt[c], HeadCommit(c))
    BY DEF HistFiles
  <1>3. PICK h, k : h = HeadCommit(c) /\ k = HeadCommit(c)'
    OBVIOUS
  <1>4. /\ k \in 1..Len(store')
        /\ \/ wt'[c] = store'[k].tree
           \/ /\ wt'[c] = wt[c]
              /\ h \in store'[k].anc
              /\ store'[k].tree = store[h].tree
    BY <1>3 DEF Follows
  <1>5. Kept(store', store'[k].tree, k)
    BY <1>4 DEF HistTrees, Commits
  <1>6. (Dirty(c) <=> wt[c] # store[h].tree) /\ (Dirty(c)' <=> wt'[c] # store'[k].tree)
    BY <1>3 DEF Dirty, HeadTree, TreeOf
  <1>7. CASE wt'[c] = store'[k].tree
    BY <1>3, <1>5, <1>6, <1>7
  <1>8. CASE /\ wt'[c] = wt[c]
             /\ h \in store'[k].anc
             /\ store'[k].tree = store[h].tree
    <2>1. store'[h].anc \subseteq store'[k].anc /\ store'[h] = store[h]
      BY <1>1, <1>3, <1>4, <1>8, RefFacts, AncestorsStay
    <2>2. Kept(store', wt[c], k)
      BY <1>2, <1>3, <2>1 DEF Kept
    <2> QED
      BY <1>3, <1>6, <1>8, <2>2
  <1> QED
    BY <1>4, <1>7, <1>8

\* What a command holds stays in the history that it has seen.
LEMMA RunKept ==
    ASSUME TypeInv, Later, HistRuns, NEW p \in Procs, proc[p].pc = "write"
    PROVE  proc[p].seen \in 1..Len(store') /\ Kept(store', proc[p].new, proc[p].seen)
  <1>1. proc[p].seen \in Commits /\ Kept(store, proc[p].new, proc[p].seen)
    BY DEF HistRuns
  <1>2. proc[p].seen \in 1..Len(store') /\ store'[proc[p].seen] = store[proc[p].seen]
    BY <1>1 DEF Later, Commits
  <1> QED
    BY <1>1, <1>2 DEF Kept

\* What a command makes from its clone is in the history of the clone.
LEMMA EditsKept ==
    ASSUME TypeInv, HistFiles, NEW c \in Clones, NEW r, Writes(c, r)
    PROVE  r.seen \in Commits /\ Kept(store, r.new, r.seen)
  <1>1. r.seen = HeadCommit(c) /\ HeadCommit(c) \in Commits /\ Kept(store, wt[c], HeadCommit(c))
    BY RefFacts DEF Writes, Holds, HistFiles
  <1>2. ASSUME NEW n \in Numbers, r.new.sets[n] # None
        PROVE  r.new.sets[n].base \in store[HeadCommit(c)].anc
    <2>1. Edited(c, r.new, n)
      BY DEF Writes
    <2> QED
      BY <1>1, <1>2, <2>1 DEF Edited, Kept, isAncestor
  <1> QED
    BY <1>1, <1>2 DEF Kept

\* A step of a command.
LEMMA HistCommand ==
    ASSUME TypeInv, OwnClones, HistInv, NEW p \in Procs, NEW c, c = cloneOf(p), CommandStep(p, c)
    PROVE  HistInv'
  <1>1. /\ Later /\ (OnlyClone(c) \/ UNCHANGED <<local, track, head, wt>>)
        /\ UNCHANGED <<store, setup>> /\ c \in Clones
        /\ \A q \in Procs : proc'[q].cut =>
             \/ proc[q].cut /\ SameCreate(proc[q], proc'[q])
             \/ /\ q = p /\ UNCHANGED <<local, head, wt>>
                /\ Planned(c, proc'[q])
    BY CommandRefs, RefFacts
  <1>2. HistTrees'
    BY <1>1, HistTreesSame DEF HistInv
  <1>3. Follows(c) \/ WriteStep(p, c)
    BY CommandFollows DEF HistInv, CleanCuts
  <1>4. ASSUME NEW d \in Clones, d # c PROVE Follows(d)
    BY <1>1, <1>4, FollowsSame DEF OnlyClone
  <1>5. ASSUME WriteStep(p, c) PROVE Kept(store', wt'[c], HeadCommit(c)')
    <2>1. /\ wt'[c] = proc[p].new /\ UNCHANGED <<store, local, head>> /\ proc[p].pc = "write"
          /\ proc[p].seen = HeadCommit(c)
      BY <1>1, <1>5 DEF WriteStep, TypeInv, ClonesOK
    <2>2. HeadCommit(c)' = HeadCommit(c)
      BY <2>1 DEF HeadCommit
    <2> QED
      BY <1>1, <2>1, <2>2, RunKept DEF HistInv
  <1>6. HistFiles'
    <2>1. \A d \in Clones : Kept(store', wt'[d], HeadCommit(d)')
      BY <1>1, <1>2, <1>3, <1>4, <1>5, FollowsKept DEF HistInv
    <2> QED
      BY <2>1 DEF HistFiles
  <1>7. ASSUME NEW q \in Procs, proc'[q].pc = "write"
        PROVE  proc'[q].seen \in 1..Len(store') /\ Kept(store', proc'[q].new, proc'[q].seen)
    <2>1. CASE proc'[q] = proc[q]
      BY <1>1, <1>7, <2>1, RunKept DEF HistInv
    <2>2. CASE Writes(c, proc'[q]) /\ Still
      BY <1>1, <2>2, EditsKept DEF HistInv, Commits
    <2> QED
      BY <1>7, <2>1, <2>2, WriteStarts
  <1>8. HistRuns'
    BY <1>7 DEF HistRuns, Commits
  <1>9. ASSUME NEW q \in Procs, proc'[q].cut PROVE ~Dirty(cloneOf(q))'
    <2>1. cloneOf(q)' = cloneOf(q) /\ cloneOf(q) \in Clones
      BY <1>1, RefFacts DEF cloneOf
    <2>2. PICK d : d = cloneOf(q)
      OBVIOUS
    <2>3. CASE q = p /\ UNCHANGED <<local, head, wt>> /\ Planned(c, proc'[q])
      <3>1. ~Dirty(c) /\ Follows(c)
        BY <1>1, <2>3, FollowsSame DEF Planned
      <3>2. ~Dirty(c)'
        BY <1>1, <1>2, <3>1, FollowsKept DEF HistInv
      <3> QED
        BY <2>1, <2>3, <3>2 DEF Dirty, HeadTree, HeadCommit
    <2>4. CASE proc[q].cut
      <3>1. ~Dirty(d)
        BY <2>2, <2>4 DEF HistInv, CleanCuts
      <3>2. Follows(d)
        <4>1. CASE q # p
          BY <1>4, <2>1, <2>2, <4>1 DEF OwnClones
        <4>2. CASE q = p /\ WriteStep(p, c)
          <5>1. PICK a : Runs(p, Idle, a)
            BY <4>2 DEF WriteStep
          <5>2. proc'[p] = Idle
            BY <5>1 DEF Runs, TypeInv, RunsOK
          <5> QED
            BY <1>9, <4>2, <5>2, IdleOK
        <4> QED
          BY <1>3, <2>2, <4>1, <4>2
      <3>3. ~Dirty(d)'
        BY <1>1, <1>2, <2>1, <2>2, <3>1, <3>2, FollowsKept DEF HistInv
      <3> QED
        BY <2>1, <2>2, <3>3 DEF Dirty, HeadTree, HeadCommit
    <2> QED
      BY <1>1, <1>9, <2>3, <2>4
  <1>10. CleanCuts'
    BY <1>9 DEF CleanCuts
  <1> QED
    BY <1>2, <1>6, <1>8, <1>10 DEF HistInv

\* What a step of a user does to the histories.
LEMMA HistUser ==
    ASSUME TypeInv, HistInv, UserStep, Later, HistTrees', \A c \in Clones : Follows(c)
    PROVE  HistInv'
  <1>1. \A c \in Clones : Kept(store', wt'[c], HeadCommit(c)') /\ (~Dirty(c) => ~Dirty(c)')
    BY FollowsKept DEF HistInv
  <1>2. HistFiles'
    BY <1>1 DEF HistFiles
  <1>3. UNCHANGED <<proc, setup>>
    BY DEF UserStep
  <1>4. HistRuns'
    <2>1. \A p \in Procs : proc[p].pc = "write" =>
            proc[p].seen \in 1..Len(store') /\ Kept(store', proc[p].new, proc[p].seen)
      BY RunKept DEF HistInv
    <2> QED
      BY <1>3, <2>1 DEF HistRuns, Commits
  <1>5. CleanCuts'
    <2>1. ASSUME NEW p \in Procs, proc[p].cut PROVE ~Dirty(cloneOf(p))'
      <3>1. PICK d \in Clones : d = cloneOf(p)
        BY RefFacts
      <3>2. ~Dirty(d)'
        BY <1>1, <2>1, <3>1 DEF HistInv, CleanCuts
      <3>3. cloneOf(p)' = d
        BY <1>3, <3>1 DEF cloneOf
      <3> QED
        BY <3>2, <3>3 DEF Dirty, HeadTree, HeadCommit
    <2> QED
      BY <1>3, <2>1 DEF CleanCuts
  <1> QED
    BY <1>2, <1>4, <1>5 DEF HistInv

\* The bases stay in the history.
LEMMA HistStep ==
    ASSUME TypeInv, OwnClones, HistInv, [Next]_vars
    PROVE  HistInv'
  <1>1. CASE UNCHANGED vars
    BY <1>1 DEF vars, HistInv, HistTrees, HistFiles, HistRuns, CleanCuts, Commits, HeadCommit, Kept, Dirty,
                HeadTree, TreeOf, cloneOf
  <1>2. ASSUME NEW p \in Procs, CommandStep(p, cloneOf(p)) PROVE HistInv'
    BY <1>2, HistCommand
  <1>3. ASSUME UserStep, NEW c \in Clones, CloneStep(c) PROVE HistInv'
    <2>1. Later /\ OnlyClone(c) /\ Follows(c)
      BY <1>3, UserFollows
    <2>2. \A d \in Clones : Follows(d)
      BY <2>1, FollowsSame DEF OnlyClone
    <2>3. HistTrees'
      <3>1. CASE store' = store
        BY <3>1, HistTreesSame DEF HistInv
      <3>2. CASE Grows(c)
        <4>1. PICK theirs \in SUBSET {track[c][Main]} :
                /\ Added(Len(store) + 1, {HeadCommit(c)} \cup theirs, wt'[c])
                /\ \A n \in Numbers :
                     wt'[c].sets[n] = wt[c].sets[n] \/ \E k \in theirs : wt'[c].sets[n] = TreeOf(k).sets[n]
          BY <3>2 DEF Grows
        <4>2. \A k \in theirs : k \in Commits
          BY <4>1, RefFacts
        <4>3. \A n \in Numbers : wt'[c].sets[n] # None =>
                \E k \in {HeadCommit(c)} \cup theirs : wt'[c].sets[n].base \in store[k].anc
          BY <4>1, <4>2 DEF HistInv, HistFiles, HistTrees, Kept, TreeOf
        <4> QED
          BY <2>1, <4>1, <4>3, HistTreesAdded DEF HistInv
      <3> QED
        BY <1>3, <3>1, <3>2 DEF CloneStep, FetchStep, SwitchStep, RenameStep, PublishStep
    <2> QED
      BY <1>3, <2>1, <2>2, <2>3, HistUser
  <1>4. ASSUME UserStep, NEW b \in DOMAIN pulls, LandStep(b) PROVE HistInv'
    <2> DEFINE ours == remote[Main]
               theirs == remote[b]
               tree == Merged(ours, theirs)
    <2>1. Later /\ UNCHANGED <<local, head, wt>> /\ Added(Len(store) + 1, {ours, theirs}, tree)
      BY <1>4 DEF LandStep
    <2>2. \A d \in Clones : Follows(d)
      BY <2>1, FollowsSame
    <2>3. ours \in Commits /\ theirs \in Commits
      BY RefFacts DEF TypeInv, HostOK
    <2>4. TreeOK(TreeOf(ours), Len(store)) /\ TreeOK(TreeOf(theirs), Len(store))
      BY <2>3, RefFacts, Ancestors
    <2> HIDE DEF ours, theirs
    <2>5. \A n \in Numbers : tree.sets[n] = TreeOf(ours).sets[n] \/ tree.sets[n] = TreeOf(theirs).sets[n]
      BY <2>4, MergedFacts
    <2> HIDE DEF tree
    <2>6. \A n \in Numbers : tree.sets[n] # None => \E k \in {ours, theirs} : tree.sets[n].base \in store[k].anc
      BY <2>3, <2>5 DEF HistInv, HistTrees, Kept, TreeOf
    <2>7. HistTrees'
      BY <2>1, <2>6, HistTreesAdded DEF HistInv
    <2> QED
      BY <1>4, <2>1, <2>2, <2>7, HistUser
  <1> QED
    BY <1>1, <1>2, <1>3, <1>4, Steps

\* They are there at the start.
LEMMA HistInit ==
    ASSUME Init
    PROVE  HistInv
  <1>1. TypeInv /\ setup \in Setups /\ \A p \in Procs : proc[p] = Idle
    BY TypeInit DEF Init
  <1>2. HistRuns /\ CleanCuts
    BY <1>1, IdleOK DEF HistRuns, CleanCuts
  <1>3. CASE StartProject
    <2>1. /\ Len(store) = 1 /\ \A c \in Clones : wt[c] = EmptyTree(TRUE)
          /\ \E config \in BOOLEAN : store[1].tree = EmptyTree(config)
      BY <1>3, ProjectFacts
    <2>2. \A n \in Numbers : store[1].tree.sets[n] = None /\ \A c \in Clones : wt[c].sets[n] = None
      BY <2>1 DEF EmptyTree
    <2>3. HistTrees
      BY <2>1, <2>2 DEF HistTrees, Kept, Commits
    <2>4. HistFiles
      BY <2>2 DEF HistFiles, Kept
    <2> QED
      BY <1>2, <2>3, <2>4 DEF HistInv
  <1>4. CASE StartReview
    <2>1. /\ Len(store) = 3 /\ store[1] = [tree |-> EmptyTree(TRUE), anc |-> {1}]
          /\ \A k \in {2, 3} : \E p \in Procs :
               store[k] = [tree |-> With(EmptyTree(TRUE), 1, NewManifest(p, 1)), anc |-> {1, k}]
      BY <1>1, <1>4, ReviewFacts
    <2>2. Kept(store, store[1].tree, 1)
      <3>1. \A n \in Numbers : store[1].tree.sets[n] = None
        BY <2>1 DEF EmptyTree
      <3> QED
        BY <3>1 DEF Kept
    <2>3. ASSUME NEW k \in {2, 3} PROVE Kept(store, store[k].tree, k)
      <3>1. PICK p \in Procs : store[k] = [tree |-> With(EmptyTree(TRUE), 1, NewManifest(p, 1)), anc |-> {1, k}]
        BY <2>1
      <3>2. PICK t : t = With(EmptyTree(TRUE), 1, NewManifest(p, 1))
        OBVIOUS
      <3>3. t.sets[1].base = 1 /\ \A n \in Numbers : n # 1 => t.sets[n] = None
        BY <3>2, FirstTrees
      <3>4. store[k].tree = t /\ 1 \in store[k].anc
        BY <3>1, <3>2
      <3> QED
        BY <3>3, <3>4 DEF Kept
    <2>4. HistTrees
      <3>1. \A k \in 1..3 : k = 1 \/ k \in {2, 3}
        OBVIOUS
      <3> QED
        BY <2>1, <2>2, <2>3, <3>1 DEF HistTrees, Commits
    <2>5. HistFiles
      <3>1. ASSUME NEW c \in Clones PROVE Kept(store, wt[c], HeadCommit(c))
        <4>1. PICK p \in Procs : /\ head[c] = ReviewBranch[p] /\ local[c][ReviewBranch[p]] = setup.commit[p]
                                 /\ wt[c] = TreeOf(setup.commit[p])
          BY <1>1, <1>4, ReviewFacts
        <4>2. HeadCommit(c) = setup.commit[p] /\ HeadCommit(c) \in Commits
          BY <1>1, <4>1, RefFacts DEF HeadCommit
        <4> QED
          BY <2>4, <4>1, <4>2 DEF HistTrees, TreeOf
      <3> QED
        BY <3>1 DEF HistFiles
    <2> QED
      BY <1>2, <2>4, <2>5 DEF HistInv
  <1> QED
    BY <1>3, <1>4 DEF Init

----------------------------------------------------------------------------
(* The bases are sound                                                     *)

(* What holds at every step, whoever works in which clone.                 *)
Sound == TypeInv /\ OrderInv /\ (OwnClones => HistInv)

\* The setup is for good.
LEMMA SetupStays ==
    ASSUME TypeInv, [Next]_vars
    PROVE  setup' = setup /\ (OwnClones' <=> OwnClones)
  <1>1. setup' = setup
    <2>1. \A p \in Procs : CommandStep(p, cloneOf(p)) => setup' = setup
      BY CommandRefs
    <2> QED
      BY <2>1, Steps DEF UserStep, vars
  <1> QED
    BY <1>1 DEF OwnClones, cloneOf

\* It holds at the start ...
LEMMA SoundInit ==
    ASSUME Init
    PROVE  Sound
  BY TypeInit, OrderInit, HistInit DEF Sound

\* ... and is kept.
LEMMA SoundStep ==
    ASSUME Sound, [Next]_vars
    PROVE  Sound'
  <1>1. TypeInv' /\ OrderInv'
    BY TypeStep, OrderStep DEF Sound
  <1>2. OwnClones' => HistInv'
    BY SetupStays, HistStep DEF Sound
  <1> QED
    BY <1>1, <1>2 DEF Sound

\* check and publish apply the same rules to a base.
LEMMA CheckIsPublish ==
    ASSUME NEW c
    PROVE  local[c][Main] = remote[Main] => proposedBaseFreshness(c, head[c].n) = publishBase(c, remote[Main])
  BY DEF proposedBaseFreshness, publishBase, defaultBranchHead

\* It says what the run checks.
LEMMA SoundImplies ==
    ASSUME Sound
    PROVE  BaseIsSound
  <1>1. TypeOK
    BY TypeImplies DEF Sound
  <1>2. BaseIsInHistory
    BY DEF Sound, HistInv, HistTrees, Kept, Commits, BaseIsInHistory, TreeOf, isAncestor
  <1>3. CheckMatchesPublish
    BY CheckIsPublish DEF CheckMatchesPublish
  <1> QED
    BY <1>1, <1>2, <1>3 DEF BaseIsSound

(* The clones and the remote are well formed, the base of a manifest is in *)
(* the history of every commit that holds it, where every process has its  *)
(* own clone, and check and publish judge a base alike (state.go, the base *)
(* rules).                                                                 *)
THEOREM BaseIsAlwaysSound == Spec => []BaseIsSound
  <1>1. Init => Sound
    BY SoundInit
  <1>2. Sound /\ [Next]_vars => Sound'
    BY SoundStep
  <1>3. Sound => BaseIsSound
    BY SoundImplies
  <1> QED
    BY <1>1, <1>2, <1>3, PTL DEF Spec

----------------------------------------------------------------------------
(* A failed create is undone                                               *)

\* Only the rollback answers for a create that has made its branch.
LEMMA RollbackAnswers ==
    ASSUME TypeInv, [Next]_vars, NEW p \in Procs, answer'[p] # answer[p], proc[p].made,
           answer'[p].code # "OK", answer'[p].mutation = "none"
    PROVE  RestoreStep(p, cloneOf(p))
  <1>1. /\ DOMAIN answer = Procs /\ RunOK(store, proc[p], answer[p])
        /\ answer[p] = NoAnswer /\ proc[p].cut /\ proc[p].pc # "cut"
    <2>1. DOMAIN answer = Procs /\ RunOK(store, proc[p], answer[p])
      BY RefFacts DEF TypeInv, RunsOK
    <2> QED
      BY <2>1, IdleOK DEF RunOK
  <1>2. ~UNCHANGED vars /\ ~UserStep
    BY DEF vars, UserStep
  <1>3. PICK q \in Procs : CommandStep(q, cloneOf(q))
    BY <1>2, Steps
  <1>4. ASSUME NEW r, NEW a, Runs(q, r, a)
        PROVE  q = p /\ answer'[p] = a
    BY <1>1, <1>4 DEF Runs
  <1>5. ~QuietStep(q, cloneOf(q))
    <2>1. SUFFICES ASSUME NEW r, NEW a, Quiet(q, cloneOf(q), r, a) PROVE FALSE
      BY DEF QuietStep
    <2>2. q = p /\ answer'[p] = a
      BY <1>4, <2>1 DEF Quiet
    <2> QED
      BY <1>1, <2>1, <2>2 DEF Quiet
  <1>6. ~WriteStep(q, cloneOf(q))
    BY <1>4 DEF WriteStep
  <1>7. ~CutStep(q, cloneOf(q))
    <2>1. SUFFICES ASSUME CutStep(q, cloneOf(q)) PROVE FALSE
      OBVIOUS
    <2>2. proc[q].pc = "cut" /\ \E r, a : Runs(q, r, a)
      BY <2>1 DEF CutStep
    <2> QED
      BY <1>1, <1>4, <2>2
  <1>8. RestoreStep(q, cloneOf(q))
    BY <1>3, <1>5, <1>6, <1>7 DEF CommandStep
  <1>9. q = p
    BY <1>4, <1>8 DEF RestoreStep
  <1> QED
    BY <1>8, <1>9

\* The rollback leaves what the create found.
LEMMA RollbackUndoes ==
    ASSUME Sound, [Next]_vars, NEW p \in Procs, RestoreStep(p, cloneOf(p)), answer'[p].mutation = "none"
    PROVE  LET c == cloneOf(p)
           IN /\ head'[c] = proc[p].original /\ proc[p].name \notin DOMAIN local'[c]
              /\ OwnClones => ~Dirty(c)'
  <1>1. PICK c \in Clones : c = cloneOf(p)
    BY RefFacts DEF Sound
  <1>2. TypeInv /\ DOMAIN answer = Procs /\ RestoreStep(p, c) /\ CommandStep(p, c)
    BY <1>1 DEF Sound, TypeInv, RunsOK, CommandStep
  <1>3. head'[c] = proc[p].original /\ proc[p].name \notin DOMAIN local'[c]
    <2>1. PICK a : /\ Runs(p, Idle, a)
                   /\ a.mutation = "none" =>
                        head'[c] = proc[p].original /\ proc[p].name \notin DOMAIN local'[c]
      BY <1>2 DEF RestoreStep
    <2>2. answer'[p] = a
      BY <1>2, <2>1 DEF Runs
    <2> QED
      BY <2>1, <2>2
  <1>4. ASSUME OwnClones PROVE ~Dirty(c)'
    <2>1. HistInv /\ proc[p].cut
      BY <1>1, <1>2, <1>4, RestoreFacts DEF Sound
    <2>2. ~Dirty(c)
      BY <1>1, <2>1 DEF HistInv, CleanCuts
    <2>3. proc[p].pc = "restore"
      BY <1>2 DEF RestoreStep
    <2>4. Follows(c)
      <3>1. Follows(c) \/ WriteStep(p, c) \/ (Dirty(c) /\ proc[p].cut)
        BY <1>1, <1>2, CommandFollows
      <3> QED
        BY <2>2, <2>3, <3>1 DEF WriteStep
    <2>5. Later /\ HistTrees'
      <3>1. Later /\ store' = store
        BY <1>1, <1>2, CommandRefs
      <3> QED
        BY <2>1, <3>1, HistTreesSame DEF HistInv
    <2> QED
      BY <1>2, <2>1, <2>2, <2>4, <2>5, FollowsKept DEF HistInv
  <1>5. cloneOf(p)' = c
    BY <1>1, SetupStays DEF Sound, cloneOf
  <1>6. OwnClones => ~Dirty(cloneOf(p))'
    BY <1>4, <1>5 DEF Dirty, HeadTree, HeadCommit
  <1> QED
    BY <1>1, <1>3, <1>6

\* A step takes back what a failed create did, and loses no commit.
LEMMA UndoneStep ==
    ASSUME Sound, Sound', [Next]_vars
    PROVE  /\ \A p \in Procs :
                LET r == proc[p]
                    c == cloneOf(p)
                IN (/\ answer'[p] # answer[p] /\ r.made
                    /\ answer'[p].code # "OK" /\ answer'[p].mutation = "none")
                   => /\ head'[c] = r.original /\ r.name \notin DOMAIN local'[c]
                      /\ OwnClones => ~Dirty(c)'
           /\ \A c \in Clones : Known(c) \subseteq Known(c)'
  <1>1. ASSUME NEW p \in Procs, answer'[p] # answer[p], proc[p].made,
               answer'[p].code # "OK", answer'[p].mutation = "none"
        PROVE  RestoreStep(p, cloneOf(p))
    BY <1>1, RollbackAnswers DEF Sound
  <1>2. \A c \in Clones : Known(c) \subseteq Known(c)'
    BY KnownStep DEF Sound
  <1> QED
    BY <1>1, <1>2, RollbackUndoes

(* A create that fails after it cut its branch leaves the clone on the     *)
(* original branch, without the new one and without changed files, and its *)
(* rollback loses no commit (restoreOriginalBranch of branch.go).            *)
THEOREM FailedCreateIsAlwaysUndone == Spec => FailedCreateIsUndone
  <1>1. Init => Sound
    BY SoundInit
  <1>2. Sound /\ [Next]_vars => Sound'
    BY SoundStep
  <1>3. Sound /\ Sound' /\ [Next]_vars =>
          [\A p \in Procs :
             LET r == proc[p]
                 c == cloneOf(p)
             IN (/\ answer'[p] # answer[p] /\ r.made
                 /\ answer'[p].code # "OK" /\ answer'[p].mutation = "none")
                => /\ head'[c] = r.original /\ r.name \notin DOMAIN local'[c]
                   /\ OwnClones => ~Dirty(c)']_vars
    BY UndoneStep
  <1>4. Sound /\ Sound' /\ [Next]_vars => [\A c \in Clones : Known(c) \subseteq Known(c)']_vars
    BY UndoneStep
  <1> QED
    BY <1>1, <1>2, <1>3, <1>4, PTL DEF Spec, FailedCreateIsUndone, FailedCreateLeavesNothing, CommitsAreKept

----------------------------------------------------------------------------
(* A number is approved once                                               *)

(* The theorem is about clones of an initialized project: there the branch *)
(* of project init is in no clone, so that create always looks for a free  *)
(* number.                                                                 *)
Initialized ==
  /\ "project-init" \notin Slugs
  /\ \A s \in Setups : s.world # "init" /\ \A p \in Procs : s.slug[p] # "project-init"

NoInit ==
  /\ \A c \in Clones : \A b \in DOMAIN local[c] : b.slug # "project-init"
  /\ \A p \in Procs : proc[p].cut => proc[p].name.slug # "project-init"

Open(b) == b \in DOMAIN pulls /\ pulls[b] = "open"
Work(c) == DOMAIN local[c] \ {Main}

(* All that two commits have in common is on the default branch, at m.     *)
Meet(s, m, i, j) == \A k \in s[i].anc : k \in s[j].anc => k \in s[m].anc

(* So have the branches of the clones and the open pull requests: nobody   *)
(* builds upon the unapproved change set of another.                       *)
LocalApart ==
  \A c, d \in Clones : \A a \in Work(c), b \in Work(d) :
    (c # d \/ a # b) => Meet(store, remote[Main], local[c][a], local[d][b])
PullsApart ==
  \A c \in Clones : \A a \in Work(c), b \in DOMAIN pulls :
    (Open(b) /\ a # b) => Meet(store, remote[Main], local[c][a], remote[b])
OpenApart ==
  \A a, b \in DOMAIN pulls :
    (Open(a) /\ Open(b) /\ a # b) => Meet(store, remote[Main], remote[a], remote[b])

(* An open pull request left the default branch at a commit without its    *)
(* number.                                                                 *)
Leaves(s, m, b, h, d) ==
  /\ d \in s[h].anc /\ d \in s[m].anc
  /\ s[d].tree.sets[b.n] = None
  /\ \A k \in s[h].anc : k \in s[m].anc => k \in s[d].anc
OpenLeft == \A b \in DOMAIN pulls : Open(b) => \E d \in Commits : Leaves(store, remote[Main], b, remote[b], d)

(* A clone that knows the head of the default branch has fetched it.       *)
MainFetched == \A c \in Clones : remote[Main] \in Known(c) => track[c][Main] = remote[Main]

(* A manifest whose base is the head of the default branch, at m, has a    *)
(* number that is free there.                                              *)
Free(s, m, t) == \A n \in Numbers : (t.sets[n] # None /\ t.sets[n].base = m) => s[m].tree.sets[n] = None
FreeTrees == \A k \in Commits : Free(store, remote[Main], store[k].tree)
FreeFiles == \A c \in Clones : Free(store, remote[Main], wt[c])
FreeRuns == \A p \in Procs : proc[p].pc = "write" => Free(store, remote[Main], proc[p].new)
FreeInv == FreeTrees /\ FreeFiles /\ FreeRuns

NumberInv == NoInit /\ LocalApart /\ PullsApart /\ OpenApart /\ OpenLeft /\ MainFetched /\ FreeInv

\* What a command makes has a free number.
LEMMA EditsFree ==
    ASSUME TypeInv, NumberInv, NEW c \in Clones, NEW r, Writes(c, r)
    PROVE  Free(store, remote[Main], r.new)
  <1> DEFINE m == remote[Main]
  <1>1. CloneOK(c) /\ StoreOK(store) /\ head[c] # InitBranch /\ m \in Commits
    <2>1. InitBranch.slug = "project-init"
      BY DEF InitBranch, Branch
    <2> QED
      BY <2>1, RefFacts DEF NumberInv, NoInit
  <1>2. m \in Known(c) => m \in defaultBranchRefs(c) /\ commitOnDefaultBranch(c, m)
    <2>1. SUFFICES ASSUME m \in Known(c) PROVE m \in defaultBranchRefs(c) /\ commitOnDefaultBranch(c, m)
      OBVIOUS
    <2>2. track[c][Main] = m
      BY <2>1 DEF NumberInv, MainFetched
    <2>3. m \in defaultBranchRefs(c)
      BY <1>1, <2>2, KnownNumbers
    <2>4. isAncestor(m, m)
      BY <1>1, Ancestors
    <2> QED
      BY <2>3, <2>4 DEF commitOnDefaultBranch
  <1>3. Free(store, m, wt[c])
    BY DEF NumberInv, FreeInv, FreeFiles
  <1> HIDE DEF m
  <1>4. ASSUME NEW n \in Numbers, r.new.sets[n] # None, r.new.sets[n].base = m
        PROVE  store[m].tree.sets[n] = None
    <2>1. Edited(c, r.new, n)
      BY DEF Writes
    <2>2. CASE wt[c].sets[n] # None /\ r.new.sets[n].base = wt[c].sets[n].base
      BY <1>3, <1>4, <2>2 DEF Free
    <2>3. CASE m \in Known(c) /\ n \notin changeSetNumbers(c)
      <3>1. TreeOf(m).sets[n] = None
        BY <1>1, <1>2, <2>3, KnownNumbers
      <3> QED
        BY <3>1 DEF TreeOf
    <2>4. CASE m \in Known(c) /\ (commitOnDefaultBranch(c, m) /\ head[c] # InitBranch => TreeOf(m).sets[n] = None)
      BY <1>1, <1>2, <2>4 DEF TreeOf
    <2> QED
      BY <1>4, <2>1, <2>2, <2>3, <2>4 DEF Edited
  <1> QED
    BY <1>4 DEF Free, m

\* What stays free when the default branch stays where it is.
LEMMA FreeKept ==
    ASSUME TypeInv, Later, NumberInv, remote'[Main] = remote[Main],
           \A c \in Clones : \/ wt'[c] = wt[c]
                             \/ \E k \in 1..Len(store') : wt'[c] = store'[k].tree
                             \/ Free(store, remote[Main], wt'[c]),
           \A k \in 1..Len(store') : k \in Commits \/ Free(store, remote[Main], store'[k].tree),
           \A p \in Procs : proc'[p].pc = "write" =>
             (proc[p].pc = "write" /\ proc'[p].new = proc[p].new) \/ Free(store, remote[Main], proc'[p].new)
    PROVE  FreeInv'
  <1> DEFINE m == remote[Main]
  <1>1. m \in Commits /\ store'[m] = store[m]
    BY RefFacts, AncestorsStay
  <1>2. \A t : Free(store', remote'[Main], t) <=> Free(store, m, t)
    BY <1>1 DEF Free
  <1> HIDE DEF m
  <1>3. \A k \in 1..Len(store') : Free(store, m, store'[k].tree)
    BY AncestorsStay, RefFacts DEF NumberInv, FreeInv, FreeTrees, m
  <1>4. FreeTrees'
    BY <1>2, <1>3 DEF FreeTrees, Commits
  <1>5. FreeFiles'
    <2>1. \A c \in Clones : Free(store, m, wt'[c])
      BY <1>3 DEF NumberInv, FreeInv, FreeFiles, m
    <2> QED
      BY <1>2, <2>1 DEF FreeFiles
  <1>6. FreeRuns'
    <2>1. \A p \in Procs : proc'[p].pc = "write" => Free(store, m, proc'[p].new)
      BY DEF NumberInv, FreeInv, FreeRuns, m
    <2> QED
      BY <1>2, <2>1 DEF FreeRuns
  <1> QED
    BY <1>4, <1>5, <1>6 DEF FreeInv

\* Branches that are apart stay so when commits are added.
LEMMA MeetKept ==
    ASSUME TypeInv, Later, NEW m \in Commits, NEW i \in Commits, NEW j \in Commits, Meet(store, m, i, j)
    PROVE  Meet(store', m, i, j) /\ Meet(store', m, j, i)
  <1>1. store'[m] = store[m] /\ store'[i] = store[i] /\ store'[j] = store[j]
    BY RefFacts, AncestorsStay
  <1> QED
    BY <1>1 DEF Meet

\* The branches after a step of a command are those before, and one that it cuts.
LEMMA CommandBranches ==
    ASSUME TypeInv, OrderInv, NEW p \in Procs, NEW c, c = cloneOf(p), CommandStep(p, c), NEW d \in Clones,
           NEW b \in DOMAIN local'[d]
    PROVE  \/ b \in DOMAIN local[d] /\ local'[d][b] = local[d][b]
           \/ proc[p].cut /\ b = proc[p].name /\ local'[d][b] \in store[local[d][Main]].anc
  <1>1. c \in Clones
    BY RefFacts
  <1>2. CASE local'[d] = local[d]
    BY <1>2
  <1>3. CASE CutStep(p, c) /\ Cuts(c, proc[p])
    <2>1. OnlyClone(c) /\ local'[c] = Put(local[c], proc[p].name, proc[p].base)
      <3>1. UNCHANGED track
        BY <1>3 DEF CutStep
      <3> QED
        BY <1>1, <1>3, <3>1, CutFacts
    <2>2. proc[p].cut /\ proc[p].base \in store[local[c][Main]].anc
      <3>1. proc[p].cut
        BY <1>3, RefFacts DEF CutStep, RunOK
      <3> QED
        BY <3>1 DEF OrderInv, CutBases
    <2>3. CASE d = c
      BY <2>1, <2>2, <2>3 DEF Put
    <2>4. CASE d # c
      BY <1>2, <2>1, <2>4 DEF OnlyClone
    <2> QED
      BY <2>3, <2>4
  <1>4. CASE RestoreStep(p, c)
    <2>1. OnlyClone(c) /\ (local'[c] = local[c] \/ local'[c] = Without(local[c], proc[p].name))
      BY <1>1, <1>4, RestoreFacts
    <2>2. CASE d = c /\ local'[c] = Without(local[c], proc[p].name)
      BY <2>2 DEF Without
    <2>3. CASE d # c
      BY <1>2, <2>1, <2>3 DEF OnlyClone
    <2> QED
      BY <1>2, <2>1, <2>2, <2>3
  <1>5. CASE UNCHANGED local
    BY <1>2, <1>5
  <1> QED
    BY <1>3, <1>4, <1>5 DEF CommandStep, QuietStep, WriteStep, CutStep, Still

\* A step of a command.
LEMMA NumbersCommand ==
    ASSUME Initialized, TypeInv, OrderInv, NumberInv, NEW p \in Procs, NEW c, c = cloneOf(p), CommandStep(p, c)
    PROVE  NumberInv'
  <1> DEFINE m == remote[Main]
  <1>1. /\ Later /\ (OnlyClone(c) \/ UNCHANGED <<local, track, head, wt>>)
        /\ UNCHANGED <<store, track, remote, pulls, setup>>
        /\ c \in Clones /\ m \in Commits
        /\ \A q \in Procs : proc'[q].cut =>
             \/ proc[q].cut /\ SameCreate(proc[q], proc'[q])
             \/ proc'[q].name.slug \in Slugs
    BY CommandRefs, RefFacts
  <1>2. ASSUME NEW d \in Clones, NEW b \in DOMAIN local'[d]
        PROVE  \/ b \in DOMAIN local[d] /\ local'[d][b] = local[d][b]
               \/ /\ store[local'[d][b]].anc \subseteq store[m].anc
                  /\ store[local'[d][b]].anc \subseteq store[local[d][Main]].anc
                  /\ b.slug # "project-init"
    <2>1. \/ b \in DOMAIN local[d] /\ local'[d][b] = local[d][b]
          \/ proc[p].cut /\ b = proc[p].name /\ local'[d][b] \in store[local[d][Main]].anc
      BY CommandBranches
    <2>2. CASE proc[p].cut /\ b = proc[p].name /\ local'[d][b] \in store[local[d][Main]].anc
      <3>1. local[d][Main] \in store[m].anc /\ b.slug # "project-init"
        BY <2>2 DEF OrderInv, OrderOK, NumberInv, NoInit
      <3>2. /\ store[local'[d][b]].anc \subseteq store[local[d][Main]].anc
            /\ store[local[d][Main]].anc \subseteq store[m].anc
        BY <1>1, <2>2, <3>1, RefFacts, AncestorsStay
      <3> QED
        BY <3>1, <3>2
    <2> QED
      BY <2>1, <2>2
  <1> HIDE DEF m
  <1>3. NoInit'
    <2>1. \A d \in Clones : \A b \in DOMAIN local'[d] : b.slug # "project-init"
      BY <1>2 DEF NumberInv, NoInit
    <2>2. \A q \in Procs : proc'[q].cut => proc'[q].name.slug # "project-init"
      BY <1>1 DEF NumberInv, NoInit, SameCreate, Initialized
    <2> QED
      BY <2>1, <2>2 DEF NoInit
  <1>4. LocalApart'
    <2>1. ASSUME NEW d \in Clones, NEW e \in Clones,
                 NEW a \in DOMAIN local'[d] \ {Main}, NEW b \in DOMAIN local'[e] \ {Main}, d # e \/ a # b
          PROVE  Meet(store, m, local'[d][a], local'[e][b])
      <3>1. CASE store[local'[d][a]].anc \subseteq store[m].anc \/ store[local'[e][b]].anc \subseteq store[m].anc
        BY <3>1 DEF Meet
      <3>2. CASE /\ a \in DOMAIN local[d] /\ local'[d][a] = local[d][a]
                 /\ b \in DOMAIN local[e] /\ local'[e][b] = local[e][b]
        BY <2>1, <3>2 DEF NumberInv, LocalApart, Work, m
      <3> QED
        BY <1>2, <3>1, <3>2
    <2> QED
      BY <1>1, <2>1 DEF LocalApart, Work, m
  <1>5. PullsApart'
    <2>1. ASSUME NEW d \in Clones, NEW a \in DOMAIN local'[d] \ {Main}, NEW b \in DOMAIN pulls, Open(b), a # b
          PROVE  Meet(store, m, local'[d][a], remote[b])
      <3>1. CASE store[local'[d][a]].anc \subseteq store[m].anc
        BY <3>1 DEF Meet
      <3>2. CASE a \in DOMAIN local[d] /\ local'[d][a] = local[d][a]
        BY <2>1, <3>2 DEF NumberInv, PullsApart, Work, m
      <3> QED
        BY <1>2, <3>1, <3>2
    <2> QED
      BY <1>1, <2>1 DEF PullsApart, Work, m, Open
  <1>6. OpenApart' /\ OpenLeft'
    BY <1>1 DEF NumberInv, OpenApart, OpenLeft, Open, Commits
  <1>7. MainFetched'
    <2>1. ASSUME NEW d \in Clones, m \in Known(d)' PROVE track'[d][Main] = m
      <3>1. \/ \E b \in DOMAIN local'[d] : m \in store'[local'[d][b]].anc
            \/ \E b \in DOMAIN track'[d] : m \in store'[track'[d][b]].anc
        BY <2>1 DEF Known
      <3>2. \/ \E b \in DOMAIN local[d] : m \in store[local[d][b]].anc
            \/ \E b \in DOMAIN track[d] : m \in store[track[d][b]].anc
        BY <1>1, <1>2, <3>1, RefFacts
      <3>3. m \in Known(d)
        BY <3>2, RefFacts, KnownFacts
      <3> QED
        BY <1>1, <3>3 DEF NumberInv, MainFetched, m
    <2> QED
      BY <1>1, <2>1 DEF MainFetched, m
  <1>8. FreeInv'
    <2>1. ASSUME NEW d \in Clones
          PROVE  \/ wt'[d] = wt[d]
                 \/ \E k \in 1..Len(store') : wt'[d] = store'[k].tree
                 \/ Free(store, m, wt'[d])
      <3>1. CASE d = c
        <4>1. Source(c)
          BY CommandFollows
        <4>2. ASSUME NEW q \in Procs, WriteStep(q, c) PROVE Free(store, m, proc[q].new)
          BY <4>2 DEF NumberInv, FreeInv, FreeRuns, WriteStep, m
        <4> QED
          BY <3>1, <4>1, <4>2 DEF Source
      <3>2. CASE d # c
        BY <1>1, <3>2 DEF OnlyClone
      <3> QED
        BY <3>1, <3>2
    <2>2. ASSUME NEW q \in Procs, proc'[q].pc = "write"
          PROVE  (proc[q].pc = "write" /\ proc'[q].new = proc[q].new) \/ Free(store, m, proc'[q].new)
      <3>1. \/ proc'[q] = proc[q]
            \/ q = p /\ Writes(c, proc'[q]) /\ Still
        BY <2>2, WriteStarts
      <3> QED
        BY <1>1, <2>2, <3>1, EditsFree DEF m
    <2>3. \A k \in 1..Len(store') : k \in Commits
      BY <1>1 DEF Commits
    <2> QED
      BY <1>1, <2>1, <2>2, <2>3, FreeKept DEF m
  <1> QED
    BY <1>3, <1>4, <1>5, <1>6, <1>7, <1>8 DEF NumberInv

\* The branches of a clone move, by what they had or by the default branch.
LEMMA NumbersMove ==
    ASSUME TypeInv, NumberInv, Later, UserStep, UNCHANGED remote, NEW c \in Clones, OnlyClone(c), NEW was,
           \A b \in DOMAIN local'[c] \ {Main} :
             /\ was[b] \in Work(c) /\ was[b].slug = b.slug /\ local'[c][b] \in 1..Len(store')
             /\ \A k \in store'[local'[c][b]].anc :
                  k \in store[local[c][was[b]]].anc \/ k \in store[remote[Main]].anc \/ k \notin Commits,
           \A a, b \in DOMAIN local'[c] \ {Main} : a # b =>
             /\ was[a] # was[b]
             /\ \A k \in store'[local'[c][a]].anc : k \in store'[local'[c][b]].anc => k \in Commits,
           DOMAIN pulls' = DOMAIN pulls,
           \A e \in DOMAIN pulls : pulls'[e] = "open" =>
             pulls[e] = "open" /\ \A b \in DOMAIN local'[c] \ {Main} : b # e => was[b] # e
    PROVE  NoInit' /\ LocalApart' /\ PullsApart' /\ OpenApart' /\ OpenLeft'
  <1> DEFINE m == remote[Main]
  <1>1. m \in Commits /\ remote'[Main] = m
    BY RefFacts
  <1>2. \A k \in Commits : store'[k] = store[k] /\ \A a \in store[k].anc : a \in Commits
    BY RefFacts, AncestorsStay
  <1>3. \A d \in Clones : d # c => local'[d] = local[d]
    BY DEF OnlyClone
  <1>4. NoInit'
    <2>1. \A b \in DOMAIN local'[c] : b.slug # "project-init"
      <3>1. Main.slug # "project-init"
        BY RefFacts DEF NumberInv, NoInit
      <3> QED
        BY <3>1 DEF NumberInv, NoInit, Work
    <2>2. \A p \in Procs : proc'[p].cut => proc'[p].name.slug # "project-init"
      BY DEF NumberInv, NoInit, UserStep
    <2> QED
      BY <1>3, <2>1, <2>2 DEF NumberInv, NoInit
  <1> HIDE DEF m
  <1>5. ASSUME NEW b \in DOMAIN local'[c] \ {Main}, NEW i \in Commits, Meet(store, m, local[c][was[b]], i)
        PROVE  Meet(store', m, local'[c][b], i) /\ Meet(store', m, i, local'[c][b])
    <2>1. store'[m] = store[m] /\ store'[i] = store[i] /\ \A k \in store[i].anc : k \in Commits
      BY <1>1, <1>2
    <2> QED
      BY <1>5, <2>1 DEF Meet, m
  <1>6. \A d \in Clones : \A a \in Work(d) : local[d][a] \in Commits
    BY RefFacts DEF Work
  <1>7. LocalApart'
    <2>1. ASSUME NEW b \in DOMAIN local'[c] \ {Main}, NEW d \in Clones, NEW e \in Work(d), d # c
          PROVE  Meet(store', m, local'[c][b], local'[d][e]) /\ Meet(store', m, local'[d][e], local'[c][b])
      <3>1. Meet(store, m, local[c][was[b]], local[d][e])
        BY <2>1 DEF NumberInv, LocalApart, m
      <3> QED
        BY <1>3, <1>5, <1>6, <2>1, <3>1
    <2>2. ASSUME NEW a \in DOMAIN local'[c] \ {Main}, NEW b \in DOMAIN local'[c] \ {Main}, a # b
          PROVE  Meet(store', m, local'[c][a], local'[c][b])
      <3>1. was[a] # was[b] /\ was[a] \in Work(c) /\ was[b] \in Work(c)
        BY <2>2
      <3>2. Meet(store, m, local[c][was[a]], local[c][was[b]])
        BY <3>1 DEF NumberInv, LocalApart, m
      <3>3. \A k \in store'[local'[c][a]].anc : k \in store'[local'[c][b]].anc => k \in store[m].anc \/ k \notin Commits
        BY <3>2 DEF Meet, m
      <3>4. \A k \in store'[local'[c][a]].anc : k \in store'[local'[c][b]].anc => k \in Commits
        BY <2>2
      <3> QED
        BY <1>1, <1>2, <3>3, <3>4 DEF Meet
    <2>3. ASSUME NEW d \in Clones, NEW e \in Clones, d # c, e # c,
                 NEW a \in Work(d), NEW b \in Work(e), d # e \/ a # b
          PROVE  Meet(store', m, local'[d][a], local'[e][b])
      <3>1. Meet(store, m, local[d][a], local[e][b])
        BY <2>3 DEF NumberInv, LocalApart, m
      <3> QED
        BY <1>1, <1>3, <1>6, <2>3, <3>1, MeetKept
    <2> QED
      BY <1>1, <1>3, <2>1, <2>2, <2>3 DEF LocalApart, Work
  <1>8. \A e \in DOMAIN pulls : remote[e] \in Commits
    BY RefFacts DEF TypeInv, HostOK
  <1>9. PullsApart'
    <2>1. ASSUME NEW b \in DOMAIN local'[c] \ {Main}, NEW e \in DOMAIN pulls, pulls'[e] = "open", b # e
          PROVE  Meet(store', m, local'[c][b], remote[e])
      <3>1. was[b] \in Work(c) /\ was[b] # e /\ pulls[e] = "open"
        BY <2>1
      <3>2. Meet(store, m, local[c][was[b]], remote[e])
        BY <3>1 DEF NumberInv, PullsApart, Open, m
      <3> QED
        BY <1>5, <1>8, <3>2
    <2>2. ASSUME NEW d \in Clones, d # c, NEW a \in Work(d), NEW e \in DOMAIN pulls, pulls'[e] = "open", a # e
          PROVE  Meet(store', m, local'[d][a], remote[e])
      <3>1. Meet(store, m, local[d][a], remote[e])
        BY <2>2 DEF NumberInv, PullsApart, Open, m
      <3> QED
        BY <1>1, <1>3, <1>6, <1>8, <2>2, <3>1, MeetKept
    <2> QED
      BY <1>1, <1>3, <2>1, <2>2 DEF PullsApart, Work, Open
  <1>10. OpenApart'
    <2>1. ASSUME NEW a \in DOMAIN pulls, NEW b \in DOMAIN pulls, pulls'[a] = "open", pulls'[b] = "open", a # b
          PROVE  Meet(store', m, remote[a], remote[b])
      <3>1. Meet(store, m, remote[a], remote[b])
        BY <2>1 DEF NumberInv, OpenApart, Open, m
      <3> QED
        BY <1>1, <1>8, <3>1, MeetKept
    <2> QED
      BY <1>1, <2>1 DEF OpenApart, Open
  <1>11. OpenLeft'
    <2>1. ASSUME NEW e \in DOMAIN pulls, pulls'[e] = "open"
          PROVE  \E d \in 1..Len(store') : Leaves(store', m, e, remote[e], d)
      <3>1. PICK d \in Commits : Leaves(store, m, e, remote[e], d)
        BY <2>1 DEF NumberInv, OpenLeft, Open, m
      <3>2. Leaves(store', m, e, remote[e], d)
        BY <1>1, <1>2, <1>8, <3>1 DEF Leaves
      <3>3. d \in 1..Len(store')
        BY <3>1 DEF Later, Commits
      <3> QED
        BY <3>2, <3>3
    <2> QED
      BY <1>1, <2>1 DEF OpenLeft, Open, Commits
  <1> QED
    BY <1>4, <1>7, <1>9, <1>10, <1>11

\* A clone does not learn the head of the default branch but by fetching it.
LEMMA MainKept ==
    ASSUME TypeInv, Later, NumberInv, NEW m, m = remote[Main], remote'[Main] = m, NEW c \in Clones, OnlyClone(c),
           \/ track'[c][Main] = m
           \/ /\ track'[c] = track[c]
              /\ \A b \in DOMAIN local'[c] : m \in store'[local'[c][b]].anc => m \in Known(c)
    PROVE  MainFetched'
  <1>1. \A k \in Commits : store'[k] = store[k]
    BY RefFacts, AncestorsStay
  <1>2. ASSUME NEW d \in Clones, m \in Known(d)' PROVE track'[d][Main] = m
    <2>1. \/ \E b \in DOMAIN local'[d] : m \in store'[local'[d][b]].anc
          \/ \E b \in DOMAIN track'[d] : m \in store'[track'[d][b]].anc
      BY <1>2 DEF Known
    <2>2. CASE d # c
      <3>1. local'[d] = local[d] /\ track'[d] = track[d]
        BY <2>2 DEF OnlyClone
      <3>2. \/ \E b \in DOMAIN local[d] : m \in store[local[d][b]].anc
            \/ \E b \in DOMAIN track[d] : m \in store[track[d][b]].anc
        BY <1>1, <2>1, <3>1, RefFacts
      <3>3. m \in Known(d)
        BY <3>2, RefFacts, KnownFacts
      <3> QED
        BY <3>1, <3>3 DEF NumberInv, MainFetched
    <2>3. CASE d = c /\ track'[c] = track[c] /\ \A b \in DOMAIN local'[c] : m \in store'[local'[c][b]].anc => m \in Known(c)
      <3>1. \A b \in DOMAIN track[c] : m \in store'[track[c][b]].anc => m \in Known(c)
        BY <1>1, RefFacts, KnownFacts
      <3>2. m \in Known(c)
        BY <2>1, <2>3, <3>1
      <3> QED
        BY <2>3, <3>2 DEF NumberInv, MainFetched
    <2> QED
      BY <2>2, <2>3
  <1> QED
    BY <1>2 DEF MainFetched

\* The working trees of the other clones stay.
LEMMA FreeUser ==
    ASSUME TypeInv, Later, NumberInv, UserStep, remote'[Main] = remote[Main], NEW c \in Clones, OnlyClone(c), Source(c),
           \A k \in 1..Len(store') : k \in Commits \/ Free(store, remote[Main], store'[k].tree)
    PROVE  FreeInv'
  <1>1. \A p \in Procs : ~WriteStep(p, c) \/ wt'[c] = wt[c]
    <2>1. SUFFICES ASSUME NEW p \in Procs, WriteStep(p, c) PROVE wt'[c] = wt[c]
      OBVIOUS
    <2>2. proc' = proc /\ proc[p].pc = "write" /\ DOMAIN proc = Procs
      BY <2>1 DEF UserStep, WriteStep, TypeInv, RunsOK
    <2>3. proc'[p] = Idle
      BY <2>1, <2>2 DEF WriteStep, Runs
    <2> QED
      BY <2>2, <2>3, IdleOK
  <1>2. \A d \in Clones : wt'[d] = wt[d] \/ \E k \in 1..Len(store') : wt'[d] = store'[k].tree
    BY <1>1 DEF OnlyClone, Source
  <1>3. \A p \in Procs : proc'[p].pc = "write" => proc[p].pc = "write" /\ proc'[p].new = proc[p].new
    BY DEF UserStep
  <1> QED
    BY <1>2, <1>3, FreeKept

\* A commit or a merge of the default branch.
LEMMA NumbersGrow ==
    ASSUME TypeInv, OrderInv, NumberInv, NEW c \in Clones, Grows(c), UserStep
    PROVE  NumberInv'
  <1> DEFINE x == Len(store) + 1
             m == remote[Main]
             h == head[c]
             was == [b \in DOMAIN local'[c] |-> b]
  <1>1. PICK theirs \in SUBSET {track[c][Main]} :
          /\ Later /\ Added(x, {HeadCommit(c)} \cup theirs, wt'[c])
          /\ \A n \in Numbers :
               wt'[c].sets[n] = wt[c].sets[n] \/ \E k \in theirs : wt'[c].sets[n] = TreeOf(k).sets[n]
    BY DEF Grows
  <1>2. /\ OnlyClone(c) /\ local'[c] = [local[c] EXCEPT ![h] = x] /\ h # Main /\ h \in Work(c)
        /\ UNCHANGED <<track, head, remote, pulls>> /\ m \in Commits
    BY RefFacts DEF Grows, Work
  <1>3. /\ \A k \in Commits : store'[k] = store[k] /\ \A a \in store[k].anc : a \in Commits
        /\ x \in 1..Len(store') /\ x \notin Commits /\ HeadCommit(c) = local[c][h]
        /\ HeadCommit(c) \in Commits /\ track[c][Main] \in Commits
        /\ \A b \in DOMAIN local[c] : local[c][b] \in Commits
    <2>1. x \in 1..Len(store') /\ x \notin Commits
      BY <1>1, RefFacts DEF Added, Commits
    <2> QED
      BY <1>1, <2>1, RefFacts, AncestorsStay DEF HeadCommit
  <1>4. store[track[c][Main]].anc \subseteq store[m].anc
    <2>1. track[c][Main] \in store[m].anc
      BY RefFacts DEF OrderInv, OrderOK
    <2> QED
      BY <1>1, <1>2, <2>1, RefFacts, AncestorsStay
  <1>5. \A a \in store'[x].anc : a = x \/ a \in store[HeadCommit(c)].anc \/ a \in store[track[c][Main]].anc
    BY <1>1 DEF Added
  <1> HIDE DEF m, x, h
  <1>6. DOMAIN local'[c] = DOMAIN local[c] /\ local'[c][h] = x /\ \A b \in DOMAIN local[c] : b # h => local'[c][b] = local[c][b]
    BY <1>2 DEF Work
  <1>7. NoInit' /\ LocalApart' /\ PullsApart' /\ OpenApart' /\ OpenLeft'
    <2>1. ASSUME NEW b \in DOMAIN local'[c] \ {Main}
          PROVE  /\ was[b] = b /\ b \in Work(c) /\ local'[c][b] \in 1..Len(store')
                 /\ \A k \in store'[local'[c][b]].anc :
                      k \in store[local[c][b]].anc \/ k \in store[m].anc \/ k \notin Commits
                 /\ b # h => \A k \in store'[local'[c][b]].anc : k \in Commits
      <3>1. was[b] = b /\ b \in Work(c)
        BY <1>6 DEF Work
      <3>2. CASE b = h
        BY <1>3, <1>4, <1>5, <1>6, <3>1, <3>2
      <3>3. CASE b # h
        <4>1. local'[c][b] = local[c][b] /\ local[c][b] \in Commits
          BY <1>3, <1>6, <3>3
        <4>2. local[c][b] \in 1..Len(store')
          BY <1>1, <4>1 DEF Later, Commits
        <4> QED
          BY <1>3, <3>1, <4>1, <4>2
      <3> QED
        BY <3>2, <3>3
    <2>2. \A a, b \in DOMAIN local'[c] \ {Main} : a # b =>
            /\ was[a] # was[b]
            /\ \A k \in store'[local'[c][a]].anc : k \in store'[local'[c][b]].anc => k \in Commits
      BY <2>1
    <2>3. \A e \in DOMAIN pulls : pulls'[e] = "open" =>
            pulls[e] = "open" /\ \A b \in DOMAIN local'[c] \ {Main} : b # e => was[b] # e
      BY <1>2, <2>1
    <2> HIDE DEF was
    <2>4. UNCHANGED remote /\ DOMAIN pulls' = DOMAIN pulls
      BY <1>2
    <2> QED
      BY <1>1, <1>2, <2>1, <2>2, <2>3, <2>4, NumbersMove DEF m
  <1>8. MainFetched'
    <2>1. ASSUME NEW b \in DOMAIN local'[c], m \in store'[local'[c][b]].anc PROVE m \in Known(c)
      <3>1. CASE b = h
        <4>1. m \in store[HeadCommit(c)].anc \/ m \in store[track[c][Main]].anc
          BY <1>2, <1>3, <1>5, <1>6, <2>1, <3>1
        <4> QED
          BY <4>1, RefFacts, KnownFacts
      <3>2. CASE b # h
        <4>1. b \in DOMAIN local[c] /\ m \in store[local[c][b]].anc
          BY <1>3, <1>6, <2>1, <3>2
        <4> QED
          BY <4>1, RefFacts, KnownFacts
      <3> QED
        BY <3>1, <3>2
    <2>2. track'[c] = track[c] /\ remote'[Main] = m /\ m = remote[Main]
      BY <1>2 DEF m
    <2> QED
      BY <1>1, <1>2, <2>1, <2>2, MainKept
  <1>9. FreeInv'
    <2>1. Free(store, m, wt[c]) /\ \A k \in Commits : Free(store, m, store[k].tree)
      BY DEF NumberInv, FreeInv, FreeFiles, FreeTrees, m
    <2>2. \A n \in Numbers : wt'[c].sets[n] = wt[c].sets[n] \/ wt'[c].sets[n] = store[track[c][Main]].tree.sets[n]
      BY <1>1 DEF TreeOf
    <2>3. Free(store, m, wt'[c])
      BY <1>3, <2>1, <2>2 DEF Free
    <2>4. Source(c)
      BY <1>1, <1>3 DEF Source, Added
    <2>5. \A k \in 1..Len(store') : k \in Commits \/ Free(store, m, store'[k].tree)
      <3>1. \A k \in 1..Len(store') : k \in Commits \/ k = x
        BY <1>1, RefFacts DEF Added, Commits, x
      <3> QED
        BY <1>1, <2>3, <3>1 DEF Added
    <2>6. remote'[Main] = remote[Main]
      BY <1>2
    <2> QED
      BY <1>1, <1>2, <2>4, <2>5, <2>6, FreeUser DEF m
  <1> QED
    BY <1>7, <1>8, <1>9 DEF NumberInv

\* A fetch, or a checkout of another branch.
LEMMA NumbersFetch ==
    ASSUME TypeInv, OrderInv, NumberInv, NEW c \in Clones, FetchStep(c) \/ SwitchStep(c), UserStep
    PROVE  NumberInv'
  <1> DEFINE m == remote[Main]
             was == [b \in DOMAIN local'[c] |-> b]
  <1>1. /\ UNCHANGED <<store, remote, pulls>> /\ OnlyClone(c) /\ Later
        /\ track'[c] = remote \/ (track'[c] = track[c] /\ local'[c] = local[c])
        /\ local'[c] = local[c] \/ local'[c] = [local[c] EXCEPT ![Main] = remote[Main]]
    BY LaterStill DEF FetchStep, SwitchStep, TypeInv
  <1>2. DOMAIN local'[c] = DOMAIN local[c] /\ \A b \in Work(c) : local'[c][b] = local[c][b] /\ local[c][b] \in 1..Len(store')
    <2>1. \A b \in Work(c) : local'[c][b] = local[c][b]
      BY <1>1 DEF Work
    <2>2. \A b \in Work(c) : local[c][b] \in 1..Len(store')
      BY <1>1, RefFacts DEF Work, Commits
    <2> QED
      BY <1>1, <2>1, <2>2
  <1>3. \A b \in Work(c) : \A k \in store[local[c][b]].anc : k \in Commits
    BY <1>1, RefFacts, AncestorsStay DEF Work
  <1>4. NoInit' /\ LocalApart' /\ PullsApart' /\ OpenApart' /\ OpenLeft'
    <2>1. ASSUME NEW b \in DOMAIN local'[c] \ {Main}
          PROVE  /\ was[b] = b /\ b \in Work(c) /\ local'[c][b] \in 1..Len(store')
                 /\ \A k \in store'[local'[c][b]].anc : k \in store[local[c][b]].anc /\ k \in Commits
      BY <1>1, <1>2, <1>3 DEF Work
    <2>2. \A a, b \in DOMAIN local'[c] \ {Main} : a # b =>
            /\ was[a] # was[b]
            /\ \A k \in store'[local'[c][a]].anc : k \in store'[local'[c][b]].anc => k \in Commits
      BY <2>1
    <2>3. \A e \in DOMAIN pulls : pulls'[e] = "open" =>
            pulls[e] = "open" /\ \A b \in DOMAIN local'[c] \ {Main} : b # e => was[b] # e
      BY <1>1, <2>1
    <2> HIDE DEF was
    <2>4. UNCHANGED remote /\ DOMAIN pulls' = DOMAIN pulls
      BY <1>1
    <2> QED
      BY <1>1, <2>1, <2>2, <2>3, <2>4, NumbersMove
  <1>5. MainFetched'
    <2>1. CASE track'[c] = remote
      BY <1>1, <2>1, MainKept
    <2>2. CASE track'[c] = track[c] /\ local'[c] = local[c]
      <3>1. \A b \in DOMAIN local'[c] : m \in store'[local'[c][b]].anc => m \in Known(c)
        BY <1>1, <2>2, RefFacts, KnownFacts
      <3>2. remote'[Main] = m
        BY <1>1
      <3> QED
        BY <1>1, <2>2, <3>1, <3>2, MainKept
    <2> QED
      BY <1>1, <2>1, <2>2
  <1>6. FreeInv'
    <2>1. Source(c)
      BY UserFollows DEF CloneStep
    <2>2. \A k \in 1..Len(store') : k \in Commits
      BY <1>1 DEF Commits
    <2>3. remote'[Main] = remote[Main]
      BY <1>1
    <2> QED
      BY <1>1, <2>1, <2>2, <2>3, FreeUser
  <1> QED
    BY <1>4, <1>5, <1>6 DEF NumberInv

\* A branch takes the number of its change set, and its pull request is closed.
LEMMA NumbersRename ==
    ASSUME TypeInv, OrderInv, NumberInv, NEW c \in Clones, RenameStep(c), UserStep
    PROVE  NumberInv'
  <1>1. PICK old, new : /\ old = head[c] /\ new.n \in Numbers /\ new.slug = old.slug /\ new \notin DOMAIN local[c]
                        /\ local'[c] = Put(Without(local[c], old), new, HeadCommit(c))
    BY DEF RenameStep
  <1>2. /\ UNCHANGED <<store, track, wt, remote>> /\ OnlyClone(c) /\ old # Main /\ DOMAIN pulls' = DOMAIN pulls /\ Later
        /\ \A e \in DOMAIN pulls : pulls'[e] = "open" => pulls[e] = "open" /\ e # old
    <2>1. \A e \in DOMAIN pulls : \/ pulls'[e] = pulls[e] /\ ~(e = old /\ pulls[e] = "open")
                                  \/ pulls'[e] = "closed"
      BY <1>1 DEF RenameStep
    <2> QED
      BY <1>1, <2>1, LaterStill DEF RenameStep, TypeInv
  <1>3. /\ new # Main /\ old \in Work(c) /\ HeadCommit(c) = local[c][old]
        /\ \A b \in Work(c) : local[c][b] \in 1..Len(store') /\ \A k \in store[local[c][b]].anc : k \in Commits
    BY <1>1, <1>2, NotMain, RefFacts, AncestorsStay DEF Work, Commits
  <1>4. /\ DOMAIN local'[c] = (DOMAIN local[c] \ {old}) \cup {new}
        /\ local'[c][new] = local[c][old]
        /\ \A b \in DOMAIN local[c] : b # old => local'[c][b] = local[c][b]
    BY <1>1, <1>3 DEF Put, Without
  <1> DEFINE was == [b \in DOMAIN local'[c] |-> IF b = new THEN old ELSE b]
             m == remote[Main]
  <1>5. NoInit' /\ LocalApart' /\ PullsApart' /\ OpenApart' /\ OpenLeft'
    <2>1. \A b \in DOMAIN local'[c] \ {Main} :
            \/ b = new /\ was[b] = old
            \/ b \in Work(c) /\ b # old /\ b # new /\ was[b] = b
      BY <1>1, <1>4 DEF Work
    <2> HIDE DEF was
    <2>2. ASSUME NEW b \in DOMAIN local'[c] \ {Main}
          PROVE  /\ was[b] \in Work(c) /\ was[b].slug = b.slug /\ local'[c][b] \in 1..Len(store')
                 /\ \A k \in store'[local'[c][b]].anc : k \in store[local[c][was[b]]].anc /\ k \in Commits
      <3>1. was[b] \in Work(c) /\ was[b].slug = b.slug /\ local'[c][b] = local[c][was[b]]
        BY <1>1, <1>3, <1>4, <2>1 DEF Work
      <3> QED
        BY <1>2, <1>3, <3>1
    <2>3. \A a, b \in DOMAIN local'[c] \ {Main} : a # b =>
            /\ was[a] # was[b]
            /\ \A k \in store'[local'[c][a]].anc : k \in store'[local'[c][b]].anc => k \in Commits
      BY <2>1, <2>2
    <2>4. \A e \in DOMAIN pulls : pulls'[e] = "open" =>
            pulls[e] = "open" /\ \A b \in DOMAIN local'[c] \ {Main} : b # e => was[b] # e
      BY <1>2, <2>1
    <2>5. UNCHANGED remote /\ DOMAIN pulls' = DOMAIN pulls
      BY <1>2
    <2> QED
      BY <1>2, <2>2, <2>3, <2>4, <2>5, NumbersMove
  <1>6. MainFetched'
    <2>1. \A b \in DOMAIN local'[c] : m \in store'[local'[c][b]].anc => m \in Known(c)
      <3>1. \A b \in DOMAIN local'[c] : \E a \in DOMAIN local[c] : local'[c][b] = local[c][a]
        BY <1>3, <1>4 DEF Work
      <3> QED
        BY <1>2, <3>1, RefFacts, KnownFacts
    <2>2. remote'[Main] = m /\ track'[c] = track[c]
      BY <1>2
    <2> QED
      BY <1>2, <2>1, <2>2, MainKept
  <1>7. FreeInv'
    <2>1. Source(c)
      BY <1>2 DEF Source
    <2>2. \A k \in 1..Len(store') : k \in Commits
      BY <1>2 DEF Commits
    <2>3. remote'[Main] = remote[Main]
      BY <1>2
    <2> QED
      BY <1>2, <2>1, <2>2, <2>3, FreeUser
  <1> QED
    BY <1>5, <1>6, <1>7 DEF NumberInv

\* A branch is published: it left the default branch at the head, where its number is free.
LEMMA NumbersPublish ==
    ASSUME TypeInv, OrderInv, NumberInv, NEW c \in Clones, PublishStep(c), UserStep
    PROVE  NumberInv'
  <1> DEFINE m == remote[Main]
  <1>1. PICK b, h : b = head[c] /\ h = HeadCommit(c)
    OBVIOUS
  <1>2. /\ UNCHANGED <<store, local, head, wt>> /\ OnlyClone(c) /\ Later
        /\ b.n \in Numbers /\ wt[c].sets[b.n] # None /\ wt[c].sets[b.n].base = m
        /\ m \in store[h].anc
        /\ remote' = Put(remote, b, h) /\ track'[c] = remote' /\ pulls' = Put(pulls, b, "open")
    BY <1>1, LaterStill DEF PublishStep, isAncestor, TypeInv
  <1>3. /\ b # Main /\ b \in Work(c) /\ local[c][b] = h /\ h \in Commits /\ m \in Commits
        /\ m \in store[m].anc
    BY <1>1, <1>2, NotMain, RefFacts, AncestorsStay DEF Work
  <1>4. /\ remote'[b] = h /\ remote'[Main] = m
        /\ \A e \in DOMAIN pulls : e # b => remote'[e] = remote[e] /\ pulls'[e] = pulls[e]
        /\ DOMAIN pulls' = DOMAIN pulls \cup {b}
    <2>1. DOMAIN pulls \subseteq DOMAIN remote /\ Main \in DOMAIN remote
      BY RefFacts DEF TypeInv, HostOK
    <2> QED
      BY <1>2, <1>3, <2>1 DEF Put
  <1> HIDE DEF m
  <1>5. NoInit'
    BY <1>2 DEF NumberInv, NoInit, UserStep
  <1>6. LocalApart'
    BY <1>2, <1>4 DEF NumberInv, LocalApart, Work, m
  <1>7. ASSUME NEW d \in Clones, NEW a \in Work(d), a # b
        PROVE  Meet(store, m, local[d][a], h) /\ Meet(store, m, h, local[d][a])
    BY <1>3, <1>7 DEF NumberInv, LocalApart, Meet, m
  <1>8. PullsApart'
    <2>1. ASSUME NEW d \in Clones, NEW a \in Work(d), NEW e \in DOMAIN pulls', pulls'[e] = "open", a # e
          PROVE  Meet(store, m, local[d][a], remote'[e])
      <3>1. CASE e = b
        BY <1>4, <1>7, <2>1, <3>1
      <3>2. CASE e # b
        BY <1>4, <2>1, <3>2 DEF NumberInv, PullsApart, Open, m
      <3> QED
        BY <3>1, <3>2
    <2> QED
      BY <1>2, <1>4, <2>1 DEF PullsApart, Work, Open
  <1>9. OpenApart'
    <2>1. ASSUME NEW a \in DOMAIN pulls', NEW e \in DOMAIN pulls', pulls'[a] = "open", pulls'[e] = "open", a # e
          PROVE  Meet(store, m, remote'[a], remote'[e])
      <3>1. \A f \in DOMAIN pulls : f # b /\ pulls[f] = "open" => Meet(store, m, h, remote[f]) /\ Meet(store, m, remote[f], h)
        BY <1>3 DEF NumberInv, PullsApart, Open, Meet, m
      <3>2. CASE a = b \/ e = b
        BY <1>4, <2>1, <3>1, <3>2
      <3>3. CASE a # b /\ e # b
        BY <1>4, <2>1, <3>3 DEF NumberInv, OpenApart, Open, m
      <3> QED
        BY <3>2, <3>3
    <2> QED
      BY <1>2, <1>4, <2>1 DEF OpenApart, Open
  <1>10. OpenLeft'
    <2>1. Leaves(store, m, b, h, m)
      <3>1. store[m].tree.sets[b.n] = None
        BY <1>2 DEF NumberInv, FreeInv, FreeFiles, Free, m
      <3> QED
        BY <1>2, <1>3, <3>1 DEF Leaves
    <2>2. ASSUME NEW e \in DOMAIN pulls', pulls'[e] = "open"
          PROVE  \E d \in Commits : Leaves(store, m, e, remote'[e], d)
      <3>1. CASE e = b
        BY <1>3, <1>4, <2>1, <3>1
      <3>2. CASE e # b
        BY <1>4, <2>2, <3>2 DEF NumberInv, OpenLeft, Open, m
      <3> QED
        BY <3>1, <3>2
    <2> QED
      BY <1>2, <1>4, <2>2 DEF OpenLeft, Open, Commits
  <1>11. MainFetched'
    <2>1. track'[c][Main] = m
      BY <1>2, <1>4
    <2> QED
      BY <1>2, <1>4, <2>1, MainKept DEF m
  <1>12. FreeInv'
    <2>1. Source(c)
      BY <1>2 DEF Source
    <2>2. \A k \in 1..Len(store') : k \in Commits
      BY <1>2 DEF Commits
    <2> QED
      BY <1>2, <1>4, <2>1, <2>2, FreeUser DEF m
  <1> QED
    BY <1>5, <1>6, <1>8, <1>9, <1>10, <1>11, <1>12 DEF NumberInv

\* A pull request lands: only the default branch moves.
LEMMA NumbersLand ==
    ASSUME TypeInv, NumberInv, NEW b \in DOMAIN pulls, LandStep(b), UserStep
    PROVE  NumberInv'
  <1> DEFINE x == Len(store) + 1
             m == remote[Main]
             f == remote[b]
  <1>1. /\ UNCHANGED <<local, track, head, wt>> /\ pulls[b] = "open" /\ Later
        /\ Added(x, {m, f}, Merged(m, f))
        /\ remote' = [remote EXCEPT ![Main] = x] /\ pulls' = [pulls EXCEPT ![b] = "merged"]
    BY DEF LandStep
  <1>2. /\ m \in Commits /\ f \in Commits /\ x \notin Commits
        /\ \A k \in Commits : store'[k] = store[k] /\ \A a \in store[k].anc : a \in Commits
        /\ \A e \in DOMAIN pulls : e # Main /\ e \in DOMAIN remote /\ remote[e] \in Commits
    <2>1. x \notin Commits
      BY RefFacts DEF Commits
    <2> QED
      BY <1>1, <2>1, RefFacts, AncestorsStay DEF TypeInv, HostOK
  <1>3. /\ \A a : a \in store'[x].anc <=> a = x \/ a \in store[m].anc \/ a \in store[f].anc
        /\ store'[x].tree = Merged(m, f) /\ Len(store') = x
    BY <1>1 DEF Added
  <1>4. TreeOK(Merged(m, f), Len(store))
    <2>1. TreeOK(TreeOf(m), Len(store)) /\ TreeOK(TreeOf(f), Len(store))
      BY <1>2, RefFacts, Ancestors
    <2> QED
      BY <2>1, MergedFacts
  <1> HIDE DEF x, m, f
  <1>5. /\ remote'[Main] = x
        /\ \A e \in DOMAIN pulls : remote'[e] = remote[e] /\ (pulls'[e] = "open" => pulls[e] = "open" /\ e # b)
        /\ DOMAIN pulls' = DOMAIN pulls
    BY <1>1, <1>2, RefFacts
  <1>6. \A i, j \in Commits : Meet(store, m, i, j) => Meet(store', x, i, j)
    BY <1>2, <1>3 DEF Meet
  <1>7. NoInit'
    BY <1>1 DEF NumberInv, NoInit, UserStep
  <1>8. LocalApart'
    <2>1. ASSUME NEW c \in Clones, NEW d \in Clones, NEW a \in Work(c), NEW e \in Work(d), c # d \/ a # e
          PROVE  Meet(store', x, local[c][a], local[d][e])
      <3>1. Meet(store, m, local[c][a], local[d][e]) /\ local[c][a] \in Commits /\ local[d][e] \in Commits
        BY <2>1, RefFacts DEF NumberInv, LocalApart, Work, m
      <3> QED
        BY <1>6, <3>1
    <2> QED
      BY <1>1, <1>5, <2>1 DEF LocalApart, Work
  <1>9. PullsApart'
    <2>1. ASSUME NEW c \in Clones, NEW a \in Work(c), NEW e \in DOMAIN pulls, pulls[e] = "open", a # e
          PROVE  Meet(store', x, local[c][a], remote[e])
      <3>1. Meet(store, m, local[c][a], remote[e]) /\ local[c][a] \in Commits
        BY <2>1, RefFacts DEF NumberInv, PullsApart, Open, Work, m
      <3> QED
        BY <1>2, <1>6, <3>1
    <2> QED
      BY <1>1, <1>5, <2>1 DEF PullsApart, Work, Open
  <1>10. OpenApart'
    <2>1. ASSUME NEW a \in DOMAIN pulls, NEW e \in DOMAIN pulls, pulls[a] = "open", pulls[e] = "open", a # e
          PROVE  Meet(store', x, remote[a], remote[e])
      <3>1. Meet(store, m, remote[a], remote[e])
        BY <2>1 DEF NumberInv, OpenApart, Open, m
      <3> QED
        BY <1>2, <1>6, <3>1
    <2> QED
      BY <1>5, <2>1 DEF OpenApart, Open
  <1>11. OpenLeft'
    <2>1. ASSUME NEW e \in DOMAIN pulls, pulls[e] = "open", e # b
          PROVE  \E d \in 1..Len(store') : Leaves(store', x, e, remote[e], d)
      <3>1. PICK d \in Commits : Leaves(store, m, e, remote[e], d)
        BY <2>1 DEF NumberInv, OpenLeft, Open, m
      <3>2. Meet(store, m, remote[e], f)
        BY <1>1, <2>1 DEF NumberInv, OpenApart, Open, m, f
      <3>3. Leaves(store', x, e, remote[e], d)
        BY <1>2, <1>3, <3>1, <3>2 DEF Leaves, Meet
      <3>4. d \in 1..Len(store')
        BY <1>1, <3>1 DEF Later, Commits
      <3> QED
        BY <3>3, <3>4
    <2> QED
      BY <1>5, <2>1 DEF OpenLeft, Open, Commits
  <1>12. MainFetched'
    <2>1. ASSUME NEW c \in Clones PROVE x \notin Known(c)'
      <3>1. \A e \in DOMAIN local[c] : store'[local[c][e]].anc \subseteq Commits
        BY <1>2, RefFacts
      <3>2. \A e \in DOMAIN track[c] : store'[track[c][e]].anc \subseteq Commits
        BY <1>2, RefFacts
      <3> QED
        BY <1>1, <1>2, <3>1, <3>2 DEF Known
    <2> QED
      BY <1>5, <2>1 DEF MainFetched
  <1>13. FreeInv'
    <2>1. \A t : TreeOK(t, Len(store)) => Free(store', x, t)
      <3>1. ASSUME NEW t, TreeOK(t, Len(store)), NEW n \in Numbers, t.sets[n] # None PROVE t.sets[n].base # x
        <4>1. t.sets[n].base \in Commits
          BY <3>1 DEF TreeOK, Commits
        <4> QED
          BY <1>2, <4>1
      <3> QED
        BY <3>1 DEF Free
    <2>2. FreeTrees'
      <3>1. \A k \in 1..x : k \in Commits \/ k = x
        BY RefFacts DEF Commits, x
      <3>2. \A k \in Commits : TreeOK(store'[k].tree, Len(store))
        BY <1>2, RefFacts DEF StoreOK, CommitOK, Commits
      <3>3. \A k \in 1..Len(store') : TreeOK(store'[k].tree, Len(store))
        BY <1>3, <1>4, <3>1, <3>2
      <3> QED
        BY <1>5, <2>1, <3>3 DEF FreeTrees, Commits
    <2>3. FreeFiles'
      <3>1. \A c \in Clones : TreeOK(wt[c], Len(store))
        BY RefFacts DEF CloneOK
      <3> QED
        BY <1>1, <1>5, <2>1, <3>1 DEF FreeFiles
    <2>4. FreeRuns'
      <3>1. \A p \in Procs : proc[p].pc = "write" => TreeOK(proc[p].new, Len(store))
        BY RefFacts DEF RunOK
      <3> QED
        BY <1>5, <2>1, <3>1 DEF FreeRuns, UserStep
    <2> QED
      BY <2>2, <2>3, <2>4 DEF FreeInv
  <1> QED
    BY <1>7, <1>8, <1>9, <1>10, <1>11, <1>12, <1>13 DEF NumberInv

\* Every step keeps it.
LEMMA NumbersStep ==
    ASSUME Initialized, TypeInv, OrderInv, NumberInv, [Next]_vars
    PROVE  NumberInv'
  <1>1. CASE UNCHANGED vars
    BY <1>1 DEF vars, NumberInv, NoInit, LocalApart, PullsApart, OpenApart, OpenLeft, MainFetched, FreeInv,
                FreeTrees, FreeFiles, FreeRuns, Work, Open, Known, Commits
  <1>2. ASSUME NEW p \in Procs, CommandStep(p, cloneOf(p)) PROVE NumberInv'
    BY <1>2, NumbersCommand
  <1>3. ASSUME UserStep, NEW c \in Clones, CloneStep(c) PROVE NumberInv'
    BY <1>3, NumbersGrow, NumbersFetch, NumbersRename, NumbersPublish DEF CloneStep
  <1>4. ASSUME UserStep, NEW b \in DOMAIN pulls, LandStep(b) PROVE NumberInv'
    BY <1>4, NumbersLand
  <1> QED
    BY <1>1, <1>2, <1>3, <1>4, Steps

\* It holds at the start.
LEMMA NumbersInit ==
    ASSUME Initialized, Init
    PROVE  NumberInv
  <1>1. TypeInv /\ setup \in Setups /\ \A p \in Procs : proc[p] = Idle
    BY TypeInit DEF Init
  <1>2. setup.world # "init" /\ \A p \in Procs : setup.slug[p] # "project-init"
    BY <1>1 DEF Initialized
  <1>3. FreeRuns /\ Main.slug # "project-init" /\ \A p \in Procs : ~proc[p].cut
    BY <1>1, IdleOK DEF FreeRuns, Main, Branch
  <1>4. CASE StartProject
    <2>1. /\ Len(store) = 1 /\ DOMAIN remote = {Main} /\ DOMAIN pulls = {} /\ remote[Main] = 1
          /\ \E config \in BOOLEAN : store[1].tree = EmptyTree(config)
          /\ \A c \in Clones : track[c] = remote /\ wt[c] = EmptyTree(TRUE) /\ DOMAIN local[c] = {Main}
      BY <1>2, <1>4, ProjectFacts
    <2>2. FreeTrees /\ FreeFiles
      <3>1. \A n \in Numbers : store[1].tree.sets[n] = None /\ \A c \in Clones : wt[c].sets[n] = None
        BY <2>1 DEF EmptyTree
      <3> QED
        BY <2>1, <3>1 DEF FreeTrees, FreeFiles, Free, Commits
    <2>3. NoInit /\ LocalApart /\ PullsApart /\ OpenApart /\ OpenLeft /\ MainFetched
      BY <1>3, <2>1 DEF NoInit, LocalApart, PullsApart, OpenApart, OpenLeft, MainFetched, Work, Open
    <2> QED
      BY <1>3, <2>2, <2>3 DEF NumberInv, FreeInv
  <1>5. CASE StartReview
    <2>1. /\ Len(store) = 3 /\ store[1] = [tree |-> EmptyTree(TRUE), anc |-> {1}]
          /\ \A k \in {2, 3} : \E p \in Procs :
               store[k] = [tree |-> With(EmptyTree(TRUE), 1, NewManifest(p, 1)), anc |-> {1, k}]
          /\ \A p \in Procs : /\ setup.commit[p] \in {2, 3}
                              /\ ReviewBranch[p].slug = setup.slug[p]
                              /\ ReviewBranch[p] # Main /\ remote[ReviewBranch[p]] = setup.commit[p]
          /\ \A p, q \in Procs : /\ (ReviewBranch[p] = ReviewBranch[q]) <=> (cloneOf(p) = cloneOf(q))
                                 /\ (setup.commit[p] = setup.commit[q]) <=> (cloneOf(p) = cloneOf(q))
          /\ DOMAIN remote = {Main} \cup {ReviewBranch[p] : p \in Procs} /\ remote[Main] = 1
          /\ DOMAIN pulls = DOMAIN remote \ {Main}
          /\ \A c \in Clones : \E p \in Procs :
               /\ cloneOf(p) = c /\ DOMAIN local[c] = {Main, ReviewBranch[p]}
               /\ local[c][Main] = 1 /\ local[c][ReviewBranch[p]] = setup.commit[p]
               /\ track[c] = local[c]
      BY <1>1, <1>5, ReviewFacts
    <2>2. /\ store[1].anc = {1} /\ \A k \in {2, 3} : store[k].anc = {1, k}
          /\ \A n \in Numbers : store[1].tree.sets[n] = None
      BY <2>1 DEF EmptyTree
    <2>3. /\ \A i, j \in {2, 3} : i # j => Meet(store, 1, i, j)
          /\ \A i \in {2, 3} : \A k \in store[i].anc : k \in store[1].anc <=> k = 1
      BY <2>2 DEF Meet
    <2>4. \A c \in Clones : \A a \in Work(c) : \E p \in Procs :
            cloneOf(p) = c /\ a = ReviewBranch[p] /\ local[c][a] = setup.commit[p]
      BY <2>1 DEF Work
    <2>5. \A b \in DOMAIN pulls : \E p \in Procs : b = ReviewBranch[p] /\ remote[b] = setup.commit[p]
      BY <2>1
    <2>6. NoInit
      BY <1>2, <1>3, <2>1 DEF NoInit
    <2>7. LocalApart
      <3>1. ASSUME NEW c \in Clones, NEW d \in Clones, NEW a \in Work(c), NEW b \in Work(d), c # d \/ a # b
            PROVE  Meet(store, 1, local[c][a], local[d][b])
        <4>1. PICK p, q \in Procs : /\ cloneOf(p) = c /\ a = ReviewBranch[p] /\ local[c][a] = setup.commit[p]
                                    /\ cloneOf(q) = d /\ b = ReviewBranch[q] /\ local[d][b] = setup.commit[q]
          BY <2>4
        <4>2. setup.commit[p] # setup.commit[q]
          BY <2>1, <3>1, <4>1
        <4> QED
          BY <2>1, <2>3, <4>1, <4>2
      <3> QED
        BY <2>1, <3>1 DEF LocalApart
    <2>8. PullsApart
      <3>1. ASSUME NEW c \in Clones, NEW a \in Work(c), NEW b \in DOMAIN pulls, a # b
            PROVE  Meet(store, 1, local[c][a], remote[b])
        <4>1. PICK p, q \in Procs : /\ a = ReviewBranch[p] /\ local[c][a] = setup.commit[p]
                                    /\ b = ReviewBranch[q] /\ remote[b] = setup.commit[q]
          BY <2>4, <2>5
        <4>2. setup.commit[p] # setup.commit[q]
          BY <2>1, <3>1, <4>1
        <4> QED
          BY <2>1, <2>3, <4>1, <4>2
      <3> QED
        BY <2>1, <3>1 DEF PullsApart
    <2>9. OpenApart
      <3>1. ASSUME NEW a \in DOMAIN pulls, NEW b \in DOMAIN pulls, a # b
            PROVE  Meet(store, 1, remote[a], remote[b])
        <4>1. PICK p, q \in Procs : /\ a = ReviewBranch[p] /\ remote[a] = setup.commit[p]
                                    /\ b = ReviewBranch[q] /\ remote[b] = setup.commit[q]
          BY <2>5
        <4>2. setup.commit[p] # setup.commit[q]
          BY <2>1, <3>1, <4>1
        <4> QED
          BY <2>1, <2>3, <4>1, <4>2
      <3> QED
        BY <2>1, <3>1 DEF OpenApart
    <2>10. OpenLeft
      <3>1. ASSUME NEW b \in DOMAIN pulls PROVE Leaves(store, 1, b, remote[b], 1)
        <4>1. remote[b] \in {2, 3}
          BY <2>1, <2>5
        <4>2. store[1].tree.sets[b.n] = None
          <5>1. b.n \in Numbers
            BY <1>1, RefFacts DEF TypeInv, HostOK, RefsIn, NameOK
          <5> QED
            BY <2>2, <5>1
        <4>3. 1 \in store[remote[b]].anc /\ 1 \in store[1].anc
          BY <2>2, <4>1
        <4> QED
          BY <2>3, <4>1, <4>2, <4>3 DEF Leaves
      <3> QED
        BY <2>1, <3>1 DEF OpenLeft, Commits
    <2>11. MainFetched
      BY <2>1 DEF MainFetched
    <2>12. FreeTrees /\ FreeFiles
      BY <2>1, <2>2 DEF FreeTrees, FreeFiles, Free
    <2> QED
      BY <1>3, <2>6, <2>7, <2>8, <2>9, <2>10, <2>11, <2>12 DEF NumberInv, FreeInv
  <1> QED
    BY <1>4, <1>5 DEF Init

\* A branch that left the default branch at d, and has nothing else of it,
\* is merged against the tree of d.
LEMMA MergeBaseIs ==
    ASSUME StoreOK(store), NEW m \in Commits, NEW f \in Commits, NEW d \in Commits,
           d \in store[m].anc, d \in store[f].anc,
           \A k \in store[f].anc : k \in store[m].anc => k \in store[d].anc
    PROVE  MergeBase(m, f) = TreeOf(d)
  <1>1. \A k \in Commits : k \in Nat /\ \A a \in store[k].anc : a \in Commits /\ a <= k
    BY Ancestors DEF isAncestor
  <1>2. d \in Best(m, f)
    <2>1. \A k \in store[m].anc \cap store[f].anc : d \in store[k].anc => k = d
      BY <1>1
    <2> QED
      BY <2>1 DEF Best
  <1>3. \A k \in Best(m, f) : k = d
    <2>1. SUFFICES ASSUME NEW k \in Best(m, f) PROVE k = d
      OBVIOUS
    <2>2. k \in store[m].anc \cap store[f].anc /\ \A e \in store[m].anc \cap store[f].anc : k \in store[e].anc => e = k
      BY DEF Best
    <2> QED
      BY <2>2
  <1>4. Best(m, f) = {d}
    BY <1>2, <1>3
  <1>5. Cardinality({d}) = 1
    BY FS_Singleton
  <1>6. (CHOOSE k \in {d} : TRUE) = d
    OBVIOUS
  <1> QED
    BY <1>4, <1>5, <1>6 DEF MergeBase

\* The merge of a pull request keeps the manifest that the default branch has under its number.
LEMMA LandKeeps ==
    ASSUME TypeInv, NumberInv, NEW b \in DOMAIN pulls, Open(b), TreeOf(remote[Main]).sets[b.n] # None, b.n \in Numbers
    PROVE  Merged(remote[Main], remote[b]).sets[b.n] = TreeOf(remote[Main]).sets[b.n]
  <1> DEFINE m == remote[Main]
             f == remote[b]
  <1>1. PICK d \in Commits : Leaves(store, m, b, f, d)
    BY DEF NumberInv, OpenLeft
  <1>2. m \in Commits /\ f \in Commits /\ StoreOK(store)
    BY RefFacts DEF TypeInv, HostOK
  <1> HIDE DEF m, f
  <1>3. MergeBase(m, f) = TreeOf(d)
    BY <1>1, <1>2, MergeBaseIs DEF Leaves
  <1>4. TreeOf(d).sets[b.n] = None
    BY <1>1 DEF Leaves, TreeOf
  <1>5. Merged(m, f).sets[b.n] = TreeOf(m).sets[b.n]
    BY <1>3, <1>4 DEF Merged, Picked, m
  <1> QED
    BY <1>5 DEF m, f

\* No step approves a number twice.
LEMMA ApprovesOnce ==
    ASSUME TypeInv, NumberInv, [Next]_vars
    PROVE  \A b \in DOMAIN pulls :
             (/\ pulls[b] = "open" /\ pulls'[b] = "merged"
              /\ b.n \in Numbers /\ TreeOf(remote[Main]).sets[b.n] # None)
             => store'[remote'[Main]].tree.sets[b.n] = TreeOf(remote[Main]).sets[b.n]
  <1>1. SUFFICES ASSUME NEW b \in DOMAIN pulls, pulls[b] = "open", pulls'[b] = "merged",
                        b.n \in Numbers, TreeOf(remote[Main]).sets[b.n] # None
                 PROVE  store'[remote'[Main]].tree.sets[b.n] = TreeOf(remote[Main]).sets[b.n]
    OBVIOUS
  <1>2. pulls' # pulls
    BY <1>1
  <1>3. ASSUME NEW p \in Procs, CommandStep(p, cloneOf(p)) PROVE FALSE
    BY <1>2, <1>3, CommandRefs
  <1>4. ASSUME NEW c \in Clones, CloneStep(c) PROVE FALSE
    <2>1. RenameStep(c) \/ PublishStep(c)
      BY <1>2, <1>4 DEF CloneStep, Grows, FetchStep, SwitchStep
    <2>2. CASE RenameStep(c)
      <3>1. pulls'[b] = pulls[b] \/ pulls'[b] = "closed"
        BY <2>2 DEF RenameStep
      <3> QED
        BY <1>1, <3>1
    <2>3. CASE PublishStep(c)
      <3>1. pulls'[b] = pulls[b] \/ pulls'[b] = "open"
        BY <2>3 DEF PublishStep, Put
      <3> QED
        BY <1>1, <3>1
    <2> QED
      BY <2>1, <2>2, <2>3
  <1>5. PICK e \in DOMAIN pulls : LandStep(e)
    BY <1>2, <1>3, <1>4, Steps DEF vars
  <1>6. pulls' = [pulls EXCEPT ![e] = "merged"] /\ remote' = [remote EXCEPT ![Main] = Len(store) + 1]
        /\ store'[Len(store) + 1].tree = Merged(remote[Main], remote[e])
    BY <1>5 DEF LandStep, Added
  <1>7. e = b /\ remote'[Main] = Len(store) + 1
    BY <1>1, <1>6, RefFacts
  <1>8. store'[remote'[Main]].tree = Merged(remote[Main], remote[b])
    BY <1>6, <1>7
  <1> QED
    BY <1>1, <1>8, LandKeeps DEF Open

(* When the branch of a change set lands and its number is approved        *)
(* already, the approved manifest stays as it is (publish of the Source    *)
(* Control Manager and the number that create and renumber take).          *)
THEOREM NumberIsApprovedOnce == Initialized => (Spec => NumberApprovedOnce)
  <1> SUFFICES ASSUME Initialized PROVE Spec => NumberApprovedOnce
    OBVIOUS
  <1> DEFINE Inv == TypeInv /\ OrderInv /\ NumberInv
  <1>1. Init => Inv
    BY TypeInit, OrderInit, NumbersInit
  <1>2. Inv /\ [Next]_vars => Inv'
    BY TypeStep, OrderStep, NumbersStep
  <1>3. Inv /\ [Next]_vars =>
          [\A b \in DOMAIN pulls :
             (/\ pulls[b] = "open" /\ pulls'[b] = "merged"
              /\ b.n \in Numbers /\ TreeOf(remote[Main]).sets[b.n] # None)
             => store'[remote'[Main]].tree.sets[b.n] = TreeOf(remote[Main]).sets[b.n]]_vars
    BY ApprovesOnce
  <1> QED
    BY <1>1, <1>2, <1>3, PTL DEF Spec, NumberApprovedOnce
=============================================================================
