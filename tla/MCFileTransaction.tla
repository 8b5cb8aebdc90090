------------------------- MODULE MCFileTransaction -------------------------
(***************************************************************************)
(* Instances of FileTransaction for TLC: a change set, a requirement that  *)
(* exists and one that may be added, in the order of their paths.          *)
(***************************************************************************)
EXTENDS FileTransaction, TLC

CONSTANTS p1, p2,            \* processes
          cs, r1, r2,        \* record files
          v0, v1, v2, v3, w0, w1, w2 \* their contents

ControlDir == "control"
DirOf == (Config :> ControlDir) @@ (cs :> "change-sets")
           @@ (r1 :> "requirements") @@ (r2 :> "requirements")
PathOrder == (cs :> 1) @@ (Config :> 2) @@ (r1 :> 3) @@ (r2 :> 4)

\* The project before any command, and one a colleague pushed.
NoRequirements == (cs :> w0) @@ (r1 :> Absent) @@ (r2 :> Absent)
OneRequirement == (cs :> w0) @@ (r1 :> v0) @@ (r2 :> Absent)
Starts == {NoRequirements, OneRequirement}
Pushed == {(cs :> w0) @@ (r1 :> v3) @@ (r2 :> Absent),
           (cs :> w0) @@ (r1 :> v3) @@ (r2 :> v3)}

\* Every requirement command records its operation in the change set.
Add == [writes |-> (cs :> w1) @@ (r2 :> v2), existing |-> {cs}]
AddRelated == [writes |-> (cs :> w1) @@ (r1 :> v1) @@ (r2 :> v2),
               existing |-> {cs, r1}]
Update == [writes |-> (cs :> w1) @@ (r1 :> v1), existing |-> {cs, r1}]
UpdateAgain == [writes |-> (cs :> w2) @@ (r1 :> v2), existing |-> {cs, r1}]
Describe == [writes |-> (cs :> w2), existing |-> {cs}]
Delete == [writes |-> (cs :> w1) @@ (r1 :> Absent), existing |-> {cs, r1}]

Interfering == {Add, Update, Delete}
AllCommands == {Add, AddRelated, Update, UpdateAgain, Describe, Delete}

\* One way and back again.
HandEdits == {<<r1, v3>>, <<r1, v0>>}

-----------------------------------------------------------------------------
(* Three workloads in one run: two commands around each other and around a *)
(* checkout of Git; one command at a time around Git and hand edits that    *)
(* may be taken back; and commands that fail and die at any step.           *)

VARIABLE workload

Together == INSTANCE FileTransaction WITH
    Commands <- Interfering, Edits <- {}, Faults <- {"write"}, MaxCommands <- 1

Disturbed == INSTANCE FileTransaction WITH
    Procs <- {p1}, Faults <- {"write", "reload"}, MaxCommands <- 2

Failures == INSTANCE FileTransaction WITH
    Procs <- {p1}, Edits <- {}

RunsInit == Init /\ workload \in {"together", "disturbed", "failures"}

RunsNext ==
    /\ \/ workload = "together" /\ Together!Step
       \/ workload = "disturbed" /\ Disturbed!Step
       \/ workload = "failures" /\ Failures!Step
    /\ Watch
    /\ UNCHANGED workload

RunsSpec == RunsInit /\ [][RunsNext]_<<vars, workload>>
=============================================================================
