------------------------- MODULE LocalSessionProofs -------------------------
(***************************************************************************)
(* Proofs about LocalSession, for any callers, requests and limits.         *)
(*                                                                          *)
(* TypeOK ties the tracked processes to the calls in flight.  Counted: the  *)
(* tracked processes and the files the Worker added are finitely many and   *)
(* accounted for.  Ending: whoever holds the mutex to kill has set the      *)
(* cancelled flag, so that nothing starts or is accepted any more.          *)
(* Recorded: every file of the workspace is of the projection, left by a    *)
(* failed write, or recorded as created.                                    *)
(***************************************************************************)
EXTENDS LocalSession, FiniteSetTheorems, TLAPS

\* The parts of TypeOK.
FlagsOK == {opened, closed, cancelled, ctxDone, expired, ended} \subseteq BOOLEAN
BudgetOK == cpuUsed \in 0 .. LimitCPU /\ writtenFiles \in Nat /\ writtenBytes \in Nat
PathsOK ==
  /\ files \subseteq Projection \cup workload.paths
  /\ DOMAIN writes \subseteq workload.paths
CallsOK ==
  /\ mu \in Callers \cup {Free}
  /\ call \in [Callers -> CallType]
  /\ proc \in [Callers -> {NoProcess, "alive", "killed", "exited"}]
  /\ cmds = {c \in Callers : call[c].op \in {"git", "sleep"}}
  /\ cmds = {c \in Callers : proc[c] # NoProcess}

\* The files the Worker added, but for those a failed write left.
Added == (files \ Projection) \ torn

Counted ==
  /\ IsFiniteSet(cmds) /\ Cardinality(cmds) <= LimitProcs
  /\ IsFiniteSet(Added) /\ Cardinality(Added) <= writtenFiles
  /\ writtenFiles <= LimitFiles /\ writtenBytes <= LimitBytes

Ending ==
  /\ \A c \in Callers : /\ call[c].op \in {"cancel", "close"} => cancelled
                        /\ call[c].op = "close" => closed
  /\ ended => cancelled
  /\ EndIsFinal

Recorded ==
  /\ ~ opened => files = {} /\ writes = << >>
  /\ opened /\ ~ closed => Projection \subseteq files
  /\ \A p \in files : \/ p \in Projection \cup torn
                      \/ p \in DOMAIN writes /\ writes[p] = "create"
  /\ PatchMatchesBase

SessionInv ==
  /\ workload \in Workloads
  /\ TypeOK
  /\ Counted
  /\ Ending
  /\ Recorded

-----------------------------------------------------------------------------
\* What the calls that never wait and those that begin to wait do to the
\* session: they answer, or they leave a waiting call behind.
Answers(c) ==
  \E event \in {Accepted, Denied, LimitEvent} : Passes(c) /\ Answer(event)
Starts(c) ==
  /\ Passes(c) /\ ~ processLimitReached
  /\ \E op \in {"git", "sleep"} : Start(c, op)
Waits(c) ==
  /\ Passes(c)
  /\ \E op \in {"burn", "network"} : Wait(c, op)
  /\ UNCHANGED <<session, cmds, budget, tree, proc, last, ended>>

\* Every step is of one of these kinds.
Kinds(c) ==
  \/ CallerCancels(c)
  \/ Refused(c)
  \/ Answers(c)
  \/ Starts(c)
  \/ Waits(c)
  \/ \E path \in workload.paths, size \in workload.sizes : WritePath(c, path, size)
  \/ \E path \in workload.paths, size \in workload.sizes : WriteTorn(c, path, size)
  \/ ProcessExits(c)
  \/ OutputExceeds(c)
  \/ SelectDone(c)
  \/ SelectKill(c)
  \/ Finish(c)
  \/ Cancel(c)
  \/ CancelReturns(c)
  \/ Close(c)
  \/ CloseReturns(c)

(* Every step of the session is one of the clock's or the context's, or of  *)
(* one caller and of one of the kinds above.                                *)
LEMMA StepKinds ==
  ASSUME workload \in Workloads, Next
  PROVE  Open \/ DeadlineReached \/ ContextDone \/ \E c \in Callers : Kinds(c)
<1>1. workload.callers \subseteq Callers
  BY WorkloadAssumption
<1>2. ASSUME NEW c \in Callers, NEW path, ReadPath(c, path)  PROVE Answers(c)
  BY <1>2 DEF ReadPath, Answers
<1>3. ASSUME NEW c \in Callers, NEW path, NEW size, WriteRefused(c, path, size)
      PROVE  Answers(c)
  BY <1>3 DEF WriteRefused, Answers
<1>4. ASSUME NEW c \in Callers, NEW req, Git(c, req)  PROVE Answers(c) \/ Starts(c)
  BY <1>4 DEF Git, Answers, Starts
<1>5. ASSUME NEW c \in Callers, sleepLocked(c)  PROVE Answers(c) \/ Starts(c)
  BY <1>5 DEF sleepLocked, Answers, Starts
<1>6. ASSUME NEW c \in Callers, burnLocked(c)  PROVE Waits(c)
  BY <1>6 DEF burnLocked, Waits
<1>7. ASSUME NEW c \in Callers, NEW req, networkLocked(c, req)  PROVE Answers(c) \/ Waits(c)
  BY <1>7 DEF networkLocked, Answers, Waits
<1>8. ASSUME NEW c \in Callers, ExecuteDenied(c)  PROVE Answers(c)
  BY <1>8 DEF ExecuteDenied, Answers
<1> QED
  BY <1>1, <1>2, <1>3, <1>4, <1>5, <1>6, <1>7, <1>8 DEF Next, Kinds

-----------------------------------------------------------------------------
(* Types and the tracked processes.                                         *)

(* The parts of TypeOK are all of it.                                       *)
LEMMA TypeParts == TypeOK <=> FlagsOK /\ BudgetOK /\ PathsOK /\ CallsOK
BY DEF TypeOK, FlagsOK, BudgetOK, PathsOK, CallsOK

(* Charging a call leaves the CPU account within its limit.                 *)
LEMMA ChargedWithinLimit ==
  ASSUME NEW c, cpuUsed \in 0 .. LimitCPU
  PROVE  Charged(c) \subseteq 0 .. LimitCPU
<1>1. LimitCPU \in Nat
  BY LimitsAssumption
<1> DEFINE S == {cpuUsed + 1, LimitCPU}
<1>2. \E x \in S : \A y \in S : x =< y
  BY <1>1
<1>3. Min(S) \in S /\ \A y \in S : Min(S) =< y
  BY <1>2 DEF Min
<1>4. Min(S) \in 0 .. LimitCPU
  BY <1>1, <1>3
<1> QED
  BY <1>4 DEF Charged

(* No step makes a flag anything but a truth value.                         *)
LEMMA FlagsStep ==
  ASSUME FlagsOK, workload \in Workloads, Next
  PROVE  FlagsOK'
<1>1. ASSUME NEW c \in Callers, Kinds(c)  PROVE FlagsOK'
  <2>1. CASE CallerCancels(c)
    BY <2>1 DEF CallerCancels, FlagsOK, session
  <2>2. CASE Refused(c)
    BY <2>2 DEF Refused, FlagsOK
  <2>3. CASE Answers(c)
    BY <2>3 DEF Answers, Answer, FlagsOK, session
  <2>4. CASE Starts(c)
    BY <2>4 DEF Starts, Start, FlagsOK, session
  <2>5. CASE Waits(c)
    BY <2>5 DEF Waits, FlagsOK, session
  <2>6. CASE \E path \in workload.paths, size \in workload.sizes : WritePath(c, path, size)
    BY <2>6 DEF WritePath, FlagsOK, session
  <2>7. CASE \E path \in workload.paths, size \in workload.sizes : WriteTorn(c, path, size)
    BY <2>7 DEF WriteTorn, FlagsOK, session
  <2>8. CASE ProcessExits(c) \/ OutputExceeds(c) \/ SelectDone(c) \/ SelectKill(c)
    BY <2>8 DEF ProcessExits, OutputExceeds, SelectDone, SelectKill, FlagsOK, session
  <2>9. CASE Finish(c)
    BY <2>9 DEF Finish, FlagsOK
  <2>10. CASE Cancel(c) \/ Close(c)
    BY <2>10 DEF Cancel, Close, FlagsOK
  <2>11. CASE CancelReturns(c) \/ CloseReturns(c)
    BY <2>11 DEF CancelReturns, CloseReturns, FlagsOK
  <2> QED
    BY <1>1, <2>1, <2>2, <2>3, <2>4, <2>5, <2>6, <2>7, <2>8, <2>9, <2>10, <2>11 DEF Kinds
<1>2. CASE Open \/ DeadlineReached \/ ContextDone
  BY <1>2 DEF Open, DeadlineReached, ContextDone, FlagsOK
<1> QED
  BY <1>1, <1>2, StepKinds

(* No step takes the accounts below zero or the CPU account over its limit. *)
LEMMA BudgetStep ==
  ASSUME BudgetOK, workload \in Workloads, Next
  PROVE  BudgetOK'
<1>1. ASSUME NEW c \in Callers, Kinds(c)  PROVE BudgetOK'
  <2>1. CASE CallerCancels(c)
    BY <2>1 DEF CallerCancels, BudgetOK, budget
  <2>2. CASE Refused(c)
    BY <2>2 DEF Refused, BudgetOK, budget
  <2>3. CASE Answers(c)
    BY <2>3 DEF Answers, Answer, BudgetOK, budget
  <2>4. CASE Starts(c) \/ Waits(c)
    BY <2>4 DEF Starts, Start, Waits, BudgetOK, budget
  <2>5. ASSUME NEW path, NEW size \in workload.sizes, WritePath(c, path, size)
        PROVE  BudgetOK'
    <3>1. size \in Nat
      BY WorkloadAssumption
    <3> QED
      BY <2>5, <3>1 DEF WritePath, BudgetOK
  <2>6. CASE \E path \in workload.paths, size \in workload.sizes : WriteTorn(c, path, size)
    BY <2>6 DEF WriteTorn, BudgetOK, budget
  <2>7. CASE ProcessExits(c) \/ OutputExceeds(c) \/ SelectDone(c) \/ SelectKill(c)
    BY <2>7 DEF ProcessExits, OutputExceeds, SelectDone, SelectKill, BudgetOK, budget
  <2>8. CASE Finish(c)
    BY <2>8, ChargedWithinLimit DEF Finish, BudgetOK
  <2>9. CASE Cancel(c) \/ Close(c) \/ CancelReturns(c) \/ CloseReturns(c)
    BY <2>9 DEF Cancel, Close, CancelReturns, CloseReturns, BudgetOK, budget
  <2> QED
    BY <1>1, <2>1, <2>2, <2>3, <2>4, <2>5, <2>6, <2>7, <2>8, <2>9 DEF Kinds
<1>2. CASE Open \/ DeadlineReached \/ ContextDone
  BY <1>2 DEF Open, DeadlineReached, ContextDone, BudgetOK, budget
<1> QED
  BY <1>1, <1>2, StepKinds

(* Only paths of the projection and paths the callers named come to the     *)
(* workspace, and only the latter are recorded.                             *)
LEMMA PathsStep ==
  ASSUME PathsOK, workload \in Workloads, Next
  PROVE  PathsOK' /\ workload' = workload
<1> DEFINE Goal == PathsOK' /\ workload' = workload
<1>1. ASSUME NEW c \in Callers, Kinds(c)  PROVE Goal
  <2>1. CASE CallerCancels(c)
    BY <2>1 DEF CallerCancels, PathsOK, session, tree
  <2>2. CASE Refused(c)
    BY <2>2 DEF Refused, PathsOK, tree
  <2>3. CASE Answers(c)
    BY <2>3 DEF Answers, Answer, PathsOK, session, tree
  <2>4. CASE Starts(c) \/ Waits(c)
    BY <2>4 DEF Starts, Start, Waits, PathsOK, session, tree
  <2>5. CASE \E path \in workload.paths, size \in workload.sizes : WritePath(c, path, size)
    BY <2>5 DEF WritePath, PathsOK, session
  <2>6. CASE \E path \in workload.paths, size \in workload.sizes : WriteTorn(c, path, size)
    BY <2>6 DEF WriteTorn, PathsOK, session
  <2>7. CASE ProcessExits(c) \/ OutputExceeds(c) \/ SelectDone(c) \/ SelectKill(c)
    BY <2>7 DEF ProcessExits, OutputExceeds, SelectDone, SelectKill, PathsOK, session, tree
  <2>8. CASE Finish(c)
    BY <2>8 DEF Finish, PathsOK, tree
  <2>9. CASE Cancel(c) \/ Close(c) \/ CancelReturns(c)
    BY <2>9 DEF Cancel, Close, CancelReturns, PathsOK, tree
  <2>10. CASE CloseReturns(c)
    BY <2>10 DEF CloseReturns, PathsOK
  <2> QED
    BY <1>1, <2>1, <2>2, <2>3, <2>4, <2>5, <2>6, <2>7, <2>8, <2>9, <2>10 DEF Kinds
<1>2. CASE Open \/ DeadlineReached \/ ContextDone
  BY <1>2 DEF Open, DeadlineReached, ContextDone, PathsOK, tree
<1> QED
  BY <1>1, <1>2, StepKinds
(* An idle call is of the call type and tracks no process; so is a call     *)
(* that has just begun to wait or to kill.                                  *)
LEMMA CallTypes ==
  /\ Idle \in CallType
  /\ \A op \in {"git", "sleep", "burn", "network"} :
       [Idle EXCEPT !.at = "waiting", !.op = op] \in CallType
  /\ \A op \in {"cancel", "close"} :
       [Idle EXCEPT !.at = "killing", !.op = op] \in CallType
BY DEF Idle, CallType

(* A call stays of the call type when its output passes the memory limit    *)
(* and when its wait is over.                                               *)
LEMMA ExceptTypes ==
  ASSUME NEW r \in CallType
  PROVE  /\ [r EXCEPT !.memory = TRUE] \in CallType
         /\ \A why \in {"done", "memory", "caller", "session"} :
              [r EXCEPT !.at = "relock", !.why = why] \in CallType
<1>1. ASSUME NEW m \in BOOLEAN  PROVE [r EXCEPT !.memory = m] \in CallType
  BY DEF CallType
<1>2. [r EXCEPT !.at = "relock"] \in CallType
  BY DEF CallType
<1>3. ASSUME NEW q \in CallType, NEW why \in {"done", "memory", "caller", "session"}
      PROVE  [q EXCEPT !.why = why] \in CallType
  BY DEF CallType
<1>4. ASSUME NEW why
      PROVE  [r EXCEPT !.at = "relock", !.why = why] = [[r EXCEPT !.at = "relock"] EXCEPT !.why = why]
  OBVIOUS
<1> QED
  BY <1>1, <1>2, <1>3, <1>4

(* The tracked processes stay those of the Git and sleep calls in flight.   *)
LEMMA CallsStep ==
  ASSUME CallsOK, workload \in Workloads, Next
  PROVE  CallsOK'
<1> USE DEF CallsOK, NoProcess
<1>1. ASSUME NEW c \in Callers, Kinds(c)  PROVE CallsOK'
  <2>1. CASE CallerCancels(c)
    <3>1. call' \in [Callers -> CallType]
      BY <2>1 DEF CallerCancels, CallType
    <3>2. \A d \in Callers : call'[d].op = call[d].op
      BY <2>1 DEF CallerCancels, CallType
    <3> QED
      BY <2>1, <3>1, <3>2 DEF CallerCancels, session
  <2>2. CASE Refused(c)
    BY <2>2 DEF Refused
  <2>3. CASE Answers(c)
    BY <2>3 DEF Answers, Answer, session
  <2>4. CASE Starts(c)
    <3> PICK op \in {"git", "sleep"} : Start(c, op)
      BY <2>4 DEF Starts
    <3>1. call' \in [Callers -> CallType] /\ proc' \in [Callers -> {NoProcess, "alive", "killed", "exited"}]
      BY CallTypes DEF Start, Wait
    <3>2. call'[c].op = op /\ proc'[c] = "alive"
      BY DEF Start, Wait, Idle
    <3>3. \A d \in Callers \ {c} : call'[d] = call[d] /\ proc'[d] = proc[d]
      BY DEF Start, Wait
    <3> QED
      BY <3>1, <3>2, <3>3 DEF Start, session
  <2>5. CASE Waits(c)
    <3> PICK op \in {"burn", "network"} : Wait(c, op)
      BY <2>5 DEF Waits
    <3>1. call' \in [Callers -> CallType]
      BY CallTypes DEF Wait
    <3>2. call'[c].op = op /\ call[c].op = "none"
      BY <2>5 DEF Waits, Passes, Begin, Wait, Idle
    <3>3. \A d \in Callers \ {c} : call'[d] = call[d]
      BY DEF Wait
    <3> QED
      BY <2>5, <3>1, <3>2, <3>3 DEF Waits, session
  <2>6. CASE \E path \in workload.paths, size \in workload.sizes : WritePath(c, path, size)
    BY <2>6 DEF WritePath, session
  <2>7. CASE \E path \in workload.paths, size \in workload.sizes : WriteTorn(c, path, size)
    BY <2>7 DEF WriteTorn, session
  <2>8. CASE ProcessExits(c)
    BY <2>8 DEF ProcessExits, session
  <2>9. CASE OutputExceeds(c)
    <3> DEFINE r == [call[c] EXCEPT !.memory = TRUE]
    <3>a. r \in CallType
      BY ExceptTypes
    <3>b. call' = [call EXCEPT ![c] = r]
      BY <2>9 DEF OutputExceeds
    <3>1. call' \in [Callers -> CallType]
      <4> HIDE DEF r
      <4> QED  BY <3>a, <3>b
    <3>2. \A d \in Callers : call'[d].op = call[d].op
      BY <2>9 DEF OutputExceeds, CallType
    <3> QED
      BY <2>9, <3>1, <3>2 DEF OutputExceeds, session
  <2>10. CASE SelectDone(c) \/ SelectKill(c)
    <3> PICK why \in {"done", "memory", "caller", "session"} : ToRelock(c, why)
      BY <2>10 DEF SelectDone, SelectKill, Causes
    <3> DEFINE r == [call[c] EXCEPT !.at = "relock", !.why = why]
    <3>a. r \in CallType
      BY ExceptTypes
    <3>b. call' = [call EXCEPT ![c] = r]
      BY DEF ToRelock
    <3>1. call' \in [Callers -> CallType]
      <4> HIDE DEF r
      <4> QED  BY <3>a, <3>b
    <3>2. \A d \in Callers : call'[d].op = call[d].op
      BY DEF ToRelock, CallType
    <3>3. /\ proc' \in [Callers -> {NoProcess, "alive", "killed", "exited"}]
          /\ \A d \in Callers : proc'[d] = NoProcess <=> proc[d] = NoProcess
      BY <2>10 DEF SelectDone, SelectKill
    <3>4. cmds' = cmds /\ mu' = mu
      BY <2>10 DEF SelectDone, SelectKill, session
    <3> QED
      BY <3>1, <3>2, <3>3, <3>4
  <2>11. CASE Finish(c) \/ CancelReturns(c) \/ CloseReturns(c)
    <3>1. Leave(c) /\ cmds' = cmds \ {c} /\ mu' \in {mu, Free}
      BY <2>11 DEF Finish, CancelReturns, CloseReturns
    <3>2. call' \in [Callers -> CallType] /\ proc' \in [Callers -> {NoProcess, "alive", "killed", "exited"}]
      BY <3>1, CallTypes DEF Leave
    <3>3. call'[c].op = "none" /\ proc'[c] = NoProcess
      BY <3>1 DEF Leave, Idle
    <3>4. \A d \in Callers \ {c} : call'[d] = call[d] /\ proc'[d] = proc[d]
      BY <3>1 DEF Leave
    <3> QED
      BY <3>1, <3>2, <3>3, <3>4
  <2>12. CASE Cancel(c) \/ Close(c)
    <3> PICK op \in {"cancel", "close"} : Hold(c, op)
      BY <2>12 DEF Cancel, Close
    <3>1. proc' = Killed /\ cmds' = cmds /\ call[c].op = "none"
      BY <2>12 DEF Cancel, Close, Begin, Idle
    <3>2. call' \in [Callers -> CallType] /\ mu' \in Callers
      BY CallTypes DEF Hold
    <3>3. call'[c].op = op
      BY DEF Hold, Idle
    <3>4. \A d \in Callers \ {c} : call'[d] = call[d]
      BY DEF Hold
    <3>5. /\ proc' \in [Callers -> {NoProcess, "alive", "killed", "exited"}]
          /\ \A d \in Callers : proc'[d] = NoProcess <=> proc[d] = NoProcess
      BY <3>1 DEF Killed
    <3> QED
      BY <3>1, <3>2, <3>3, <3>4, <3>5
  <2> QED
    BY <1>1, <2>1, <2>2, <2>3, <2>4, <2>5, <2>6, <2>7, <2>8, <2>9, <2>10, <2>11, <2>12 DEF Kinds
<1>2. CASE Open \/ DeadlineReached \/ ContextDone
  BY <1>2 DEF Open, DeadlineReached, ContextDone
<1> QED
  BY <1>1, <1>2, StepKinds

(* Types hold initially and are kept by every step.                         *)
LEMMA TypeInit == Init => TypeOK /\ workload \in Workloads
<1> SUFFICES ASSUME Init PROVE TypeOK
  BY DEF Init
<1>1. FlagsOK
  BY DEF Init, FlagsOK
<1>2. BudgetOK
  BY LimitsAssumption DEF Init, BudgetOK
<1>3. PathsOK
  <2>1. DOMAIN writes = {}
    BY DEF Init
  <2> QED
    BY <2>1 DEF Init, PathsOK
<1>4. CallsOK
  <2>1. \A c \in Callers : call[c].op = "none" /\ proc[c] = NoProcess
    BY DEF Init, Idle
  <2> QED
    BY <2>1, CallTypes DEF Init, CallsOK, NoProcess
<1> QED
  BY <1>1, <1>2, <1>3, <1>4, TypeParts

(* ... and no step breaks them.                                             *)
LEMMA TypeStep ==
  ASSUME TypeOK, workload \in Workloads, [Next]_vars
  PROVE  TypeOK' /\ workload' \in Workloads
<1>1. CASE UNCHANGED vars
  BY <1>1 DEF TypeOK, vars, session, budget, tree
<1>2. CASE Next
  <2>1. FlagsOK' /\ BudgetOK' /\ PathsOK' /\ CallsOK' /\ workload' = workload
    BY <1>2, TypeParts, FlagsStep, BudgetStep, PathsStep, CallsStep
  <2> QED
    BY <2>1 DEF TypeOK, FlagsOK, BudgetOK, PathsOK, CallsOK
<1> QED
  BY <1>1, <1>2

-----------------------------------------------------------------------------
(* Limits.                                                                  *)

(* A part of a finite set of at most n elements is one.                     *)
LEMMA FewerStay ==
  ASSUME NEW S, NEW T, T \subseteq S, IsFiniteSet(S), NEW n \in Nat, Cardinality(S) <= n
  PROVE  IsFiniteSet(T) /\ Cardinality(T) <= n
<1>1. /\ IsFiniteSet(T) /\ Cardinality(T) <= Cardinality(S)
      /\ Cardinality(T) \in Nat /\ Cardinality(S) \in Nat
  BY FS_Subset, FS_CardinalityType
<1> QED
  BY <1>1

(* One element more raises the size by one at most.                         *)
LEMMA OneMore ==
  ASSUME NEW S, NEW x, IsFiniteSet(S)
  PROVE  /\ IsFiniteSet(S \cup {x}) /\ Cardinality(S) \in Nat
         /\ Cardinality(S \cup {x}) \in Nat
         /\ Cardinality(S \cup {x}) <= Cardinality(S) + 1
<1>1. /\ IsFiniteSet(S \cup {x})
      /\ Cardinality(S \cup {x}) = IF x \in S THEN Cardinality(S) ELSE Cardinality(S) + 1
  BY FS_AddElement
<1>2. Cardinality(S) \in Nat
  BY FS_CardinalityType
<1> QED
  BY <1>1, <1>2

(* A process is started below the limit, and a file or a byte is added      *)
(* below its limit and counted; a failed write adds to nothing that counts. *)
LEMMA CountedStep ==
  ASSUME TypeOK, workload \in Workloads, Counted, Next
  PROVE  Counted'
<1>0. /\ {LimitProcs, LimitFiles, LimitBytes} \subseteq Nat
      /\ writtenFiles \in Nat /\ writtenBytes \in Nat
  BY LimitsAssumption DEF TypeOK
<1> DEFINE Kept == UNCHANGED <<cmds, writtenFiles, writtenBytes, files, torn>>
<1>1. ASSUME Kept PROVE Counted'
  BY <1>1 DEF Counted, Added
<1>2. ASSUME NEW c \in Callers, Kinds(c)  PROVE Counted'
  <2>1. CASE CallerCancels(c) \/ Refused(c) \/ Answers(c) \/ Waits(c)
    BY <2>1, <1>1 DEF CallerCancels, Refused, Answers, Answer, Waits, budget, tree
  <2>2. CASE Starts(c)
    <3>1. /\ cmds' = cmds \cup {c} /\ Cardinality(cmds) + 1 <= LimitProcs
          /\ UNCHANGED <<writtenFiles, writtenBytes, files, torn>>
      <4>1. Cardinality(cmds) \in Nat
        BY OneMore DEF Counted
      <4> QED
        BY <2>2, <1>0, <4>1 DEF Starts, Start, processLimitReached, budget, tree
    <3>2. IsFiniteSet(cmds') /\ Cardinality(cmds') <= LimitProcs
      <4>1. /\ IsFiniteSet(cmds \cup {c}) /\ Cardinality(cmds) \in Nat
            /\ Cardinality(cmds \cup {c}) \in Nat
            /\ Cardinality(cmds \cup {c}) <= Cardinality(cmds) + 1
        BY OneMore DEF Counted
      <4> QED
        BY <4>1, <3>1, <1>0
    <3> QED
      BY <3>1, <3>2 DEF Counted, Added
  <2>3. ASSUME NEW path, NEW size \in workload.sizes, WritePath(c, path, size)
        PROVE  Counted'
    <3>1. size \in Nat
      BY WorkloadAssumption
    <3>2. writtenBytes' <= LimitBytes
      BY <2>3, <3>1, <1>0 DEF WritePath, writeLimitReached
    <3>3. UNCHANGED <<cmds, torn>> /\ files' = files \cup {path}
      BY <2>3 DEF WritePath
    <3>4. CASE path \in files
      <4>1. files' = files /\ writtenFiles' = writtenFiles
        BY <2>3, <3>4, <1>0 DEF WritePath
      <4> QED
        BY <4>1, <3>2, <3>3 DEF Counted, Added
    <3>5. CASE path \notin files
      <4>1. writtenFiles' = writtenFiles + 1 /\ writtenFiles + 1 <= LimitFiles
        BY <2>3, <3>5, <1>0 DEF WritePath, writeLimitReached
      <4>2. Added' \subseteq Added \cup {path}
        BY <3>3 DEF Added
      <4>3. IsFiniteSet(Added \cup {path}) /\ Cardinality(Added \cup {path}) <= writtenFiles + 1
        <5>1. /\ IsFiniteSet(Added \cup {path}) /\ Cardinality(Added) \in Nat
              /\ Cardinality(Added \cup {path}) \in Nat
              /\ Cardinality(Added \cup {path}) <= Cardinality(Added) + 1
          BY OneMore DEF Counted
        <5> QED
          BY <5>1, <1>0 DEF Counted
      <4>4. IsFiniteSet(Added') /\ Cardinality(Added') <= writtenFiles + 1
        BY <4>2, <4>3, <1>0, FewerStay
      <4> QED
        BY <4>1, <4>4, <3>2, <3>3 DEF Counted
    <3> QED
      BY <3>4, <3>5
  <2>4. CASE \E path \in workload.paths, size \in workload.sizes : WriteTorn(c, path, size)
    <3>1. Added' \subseteq Added
      BY <2>4 DEF WriteTorn, Added
    <3>2. IsFiniteSet(Added') /\ Cardinality(Added') <= writtenFiles
      BY <3>1, <1>0, FewerStay DEF Counted
    <3>3. UNCHANGED <<cmds, writtenFiles, writtenBytes>>
      BY <2>4 DEF WriteTorn, budget
    <3> QED
      BY <3>2, <3>3 DEF Counted
  <2>5. CASE ProcessExits(c) \/ OutputExceeds(c) \/ SelectDone(c) \/ SelectKill(c)
    BY <2>5, <1>1 DEF ProcessExits, OutputExceeds, SelectDone, SelectKill, budget, tree
  <2>6. CASE Finish(c)
    <3>1. cmds' \subseteq cmds /\ UNCHANGED <<writtenFiles, writtenBytes, files, torn>>
      BY <2>6 DEF Finish, tree
    <3>2. IsFiniteSet(cmds') /\ Cardinality(cmds') <= LimitProcs
      BY <3>1, <1>0, FewerStay DEF Counted
    <3> QED
      BY <3>1, <3>2 DEF Counted, Added
  <2>7. CASE Cancel(c) \/ Close(c) \/ CancelReturns(c)
    BY <2>7, <1>1 DEF Cancel, Close, CancelReturns, budget, tree
  <2>8. CASE CloseReturns(c)
    <3>1. Added' \subseteq Added /\ UNCHANGED <<cmds, writtenFiles, writtenBytes>>
      BY <2>8 DEF CloseReturns, Added, budget
    <3>2. IsFiniteSet(Added') /\ Cardinality(Added') <= writtenFiles
      BY <3>1, <1>0, FewerStay DEF Counted
    <3> QED
      BY <3>1, <3>2 DEF Counted
  <2> QED
    BY <1>2, <2>1, <2>2, <2>3, <2>4, <2>5, <2>6, <2>7, <2>8 DEF Kinds
<1>3. CASE Open
  <2>1. Added' = {} /\ UNCHANGED <<cmds, writtenFiles, writtenBytes>>
    BY <1>3 DEF Open, Added, budget
  <2>2. IsFiniteSet(Added') /\ Cardinality(Added') = 0
    BY <2>1, FS_EmptySet
  <2> QED
    BY <2>1, <2>2, <1>0 DEF Counted
<1>4. CASE DeadlineReached \/ ContextDone
  BY <1>4, <1>1 DEF DeadlineReached, ContextDone, budget, tree
<1> QED
  BY <1>2, <1>3, <1>4, StepKinds

(* The accounts bound what runs and what was written.                       *)
LEMMA CountedIsWithin ==
  ASSUME TypeOK, Counted
  PROVE  WithinLimits
<1>0. {LimitProcs, LimitFiles} \subseteq Nat /\ writtenFiles \in Nat
  BY LimitsAssumption DEF TypeOK
<1> DEFINE Running == {c \in Callers : proc[c] \in {"alive", "killed"}}
<1>1. Running \subseteq cmds
  BY DEF TypeOK, NoProcess
<1>2. Cardinality(Running) <= LimitProcs
  BY <1>0, <1>1, FewerStay DEF Counted
<1>3. Cardinality(Added) \in Nat
  BY FS_CardinalityType DEF Counted
<1>4. Cardinality(Added) <= LimitFiles
  BY <1>0, <1>3 DEF Counted
<1> QED
  BY <1>2, <1>4 DEF WithinLimits, Counted, Added

-----------------------------------------------------------------------------
(* The end of the session.                                                  *)

(* Once the cancelled flag is set it stays; while it is not, the session    *)
(* has not ended.  What keeps a process from running or a result from being *)
(* accepted afterwards is that starting and accepting re-read the flag.     *)
LEMMA EndingStep ==
  ASSUME TypeOK, workload \in Workloads, Ending, Next
  PROVE  Ending'
<1> USE DEF NoProcess, Accepted, Denied, LimitEvent, NoEvent
\* A step is harmless when it adds no holder, keeps the flags up, does not end
\* the session, and neither starts a process nor accepts work once cancelled.
<1> DEFINE Harmless ==
      /\ \A c \in Callers : call'[c].op \in {"cancel", "close"} => call'[c].op = call[c].op
      /\ cancelled => cancelled'
      /\ closed => closed'
      /\ ended' = ended
      /\ cancelled => /\ \A c \in Callers : proc'[c] \in {"alive", "killed"}
                                              => proc[c] \in {"alive", "killed"}
                      /\ last' = Accepted => last = Accepted
<1>1. ASSUME Harmless PROVE Ending'
  BY <1>1 DEF Ending, EndIsFinal, NothingRunsAfterEnd, NoWorkAfterEnd
<1>2. ASSUME NEW c \in Callers, Kinds(c)  PROVE Ending'
  <2>1. CASE CallerCancels(c)
    <3>1. \A d \in Callers : call'[d].op = call[d].op
      BY <2>1 DEF CallerCancels, TypeOK, CallType
    <3> QED
      BY <2>1, <3>1, <1>1 DEF CallerCancels, session
  <2>2. CASE Refused(c)
    BY <2>2, <1>1 DEF Refused, appendAudit
  <2>3. CASE Answers(c)
    <3>1. ~ cancelled
      BY <2>3 DEF Answers, Passes, guardLocked
    <3> QED
      BY <2>3, <3>1, <1>1 DEF Answers, Answer, session
  <2>4. CASE Starts(c) \/ Waits(c)
    <3>1. ~ cancelled
      BY <2>4 DEF Starts, Waits, Passes, guardLocked
    <3> PICK op \in {"git", "sleep", "burn", "network"} : Wait(c, op)
      BY <2>4 DEF Starts, Start, Waits
    <3>2. call'[c].op = op /\ \A d \in Callers \ {c} : call'[d] = call[d]
      BY DEF Wait, Idle, TypeOK
    <3>3. UNCHANGED <<closed, cancelled, ended>>
      BY <2>4 DEF Starts, Start, Waits, session
    <3> QED
      BY <3>1, <3>2, <3>3, <1>1
  <2>5. CASE \E path \in workload.paths, size \in workload.sizes : WritePath(c, path, size)
    <3>1. ~ cancelled
      BY <2>5 DEF WritePath, Passes, guardLocked
    <3> QED
      BY <2>5, <3>1, <1>1 DEF WritePath, session
  <2>6. CASE \E path \in workload.paths, size \in workload.sizes : WriteTorn(c, path, size)
    BY <2>6, <1>1 DEF WriteTorn, session
  <2>7. CASE ProcessExits(c)
    BY <2>7, <1>1 DEF ProcessExits, session, TypeOK
  <2>8. CASE OutputExceeds(c)
    <3>1. \A d \in Callers : call'[d].op = call[d].op
      BY <2>8 DEF OutputExceeds, TypeOK, CallType
    <3> QED
      BY <2>8, <3>1, <1>1 DEF OutputExceeds, session
  <2>9. CASE SelectDone(c) \/ SelectKill(c)
    <3> PICK why : ToRelock(c, why)
      BY <2>9 DEF SelectDone, SelectKill
    <3>1. \A d \in Callers : call'[d].op = call[d].op
      BY DEF ToRelock, TypeOK, CallType
    <3>2. \A d \in Callers : proc'[d] \in {"alive", "killed"} => proc[d] \in {"alive", "killed"}
      BY <2>9 DEF SelectDone, SelectKill, TypeOK
    <3>3. UNCHANGED <<closed, cancelled, ended, last>>
      BY <2>9 DEF SelectDone, SelectKill, session
    <3> QED
      BY <3>1, <3>2, <3>3, <1>1
  <2>10. CASE Finish(c)
    <3>1. call'[c].op = "none" /\ proc'[c] = NoProcess
      BY <2>10 DEF Finish, Leave, Idle, TypeOK
    <3>2. \A d \in Callers \ {c} : call'[d] = call[d] /\ proc'[d] = proc[d]
      BY <2>10 DEF Finish, Leave, TypeOK
    <3>3. cancelled => cancelled' /\ (last' = Accepted => last = Accepted)
      <4> SUFFICES ASSUME cancelled PROVE cancelled' /\ (last' = Accepted => last = Accepted)
        OBVIOUS
      <4>1. Recheck(c) \in {"limit", "cancelled"}
        BY DEF Recheck
      <4> QED
        BY <2>10, <4>1 DEF Finish, appendAudit
    <3>4. UNCHANGED <<closed, ended>>
      BY <2>10 DEF Finish
    <3> QED
      BY <3>1, <3>2, <3>3, <3>4, <1>1
  <2>11. CASE Cancel(c) \/ Close(c)
    <3> PICK op \in {"cancel", "close"} : Hold(c, op) /\ (op = "close" => closed')
      BY <2>11 DEF Cancel, Close
    <3>1. call'[c].op = op /\ \A d \in Callers \ {c} : call'[d] = call[d]
      BY DEF Hold, Idle, TypeOK
    <3>2. cancelled' /\ (closed => closed') /\ UNCHANGED <<ended, last>> /\ proc' = Killed
      BY <2>11 DEF Cancel, Close
    <3>3. \A d \in Callers : proc'[d] \in {"alive", "killed"} => proc[d] \in {"alive", "killed"}
      BY <3>2 DEF Killed
    <3> QED
      BY <3>1, <3>2, <3>3 DEF Ending, EndIsFinal, NothingRunsAfterEnd, NoWorkAfterEnd
  <2>12. CASE CancelReturns(c) \/ CloseReturns(c)
    <3>1. call'[c].op = "none" /\ proc'[c] = NoProcess
      BY <2>12 DEF CancelReturns, CloseReturns, Leave, Idle, TypeOK
    <3>2. \A d \in Callers \ {c} : call'[d] = call[d] /\ proc'[d] = proc[d]
      BY <2>12 DEF CancelReturns, CloseReturns, Leave, TypeOK
    <3>3. UNCHANGED <<closed, cancelled>> /\ cancelled /\ last' # Accepted
      BY <2>12 DEF CancelReturns, CloseReturns, appendAudit, Ending
    <3>4. \A d \in Callers : proc[d] \notin {"alive", "killed"}
      BY <2>12 DEF CancelReturns, CloseReturns, killAllLocked, TypeOK
    <3> QED
      BY <3>1, <3>2, <3>3, <3>4 DEF Ending, EndIsFinal, NothingRunsAfterEnd, NoWorkAfterEnd
  <2> QED
    BY <1>2, <2>1, <2>2, <2>3, <2>4, <2>5, <2>6, <2>7, <2>8, <2>9, <2>10, <2>11, <2>12 DEF Kinds
<1>3. CASE Open \/ DeadlineReached \/ ContextDone
  BY <1>3, <1>1 DEF Open, DeadlineReached, ContextDone, appendAudit
<1> QED
  BY <1>2, <1>3, StepKinds

-----------------------------------------------------------------------------
(* What a collected patch says.                                             *)

(* PatchMatchesBase, of the records themselves.                             *)
LEMMA PatchOfWrites ==
  PatchMatchesBase <=>
    \A p \in DOMAIN writes :
       /\ WritableBy(Classes, Role, p)
       /\ writes[p] = "create" => p \notin Projection
       /\ writes[p] = "update" => p \in Projection \cup torn
<1>1. ASSUME PatchMatchesBase, NEW p \in DOMAIN writes
      PROVE  /\ WritableBy(Classes, Role, p)
             /\ writes[p] = "create" => p \notin Projection
             /\ writes[p] = "update" => p \in Projection \cup torn
  <2> DEFINE op == [path |-> p, action |-> writes[p]]
  <2>1. op \in CollectPatch
    BY DEF CollectPatch
  <2>2. op.path = p /\ op.action = writes[p]
    OBVIOUS
  <2> HIDE DEF op
  <2>3. /\ WritableBy(Classes, Role, op.path)
        /\ op.action = "create" => op.path \notin Projection
        /\ op.action = "update" => op.path \in Projection \cup torn
    BY <1>1, <2>1 DEF PatchMatchesBase
  <2> QED
    BY <2>2, <2>3
<1>2. ASSUME \A p \in DOMAIN writes :
                /\ WritableBy(Classes, Role, p)
                /\ writes[p] = "create" => p \notin Projection
                /\ writes[p] = "update" => p \in Projection \cup torn
      PROVE  PatchMatchesBase
  BY <1>2 DEF PatchMatchesBase, CollectPatch
<1> QED
  BY <1>1, <1>2

(* A write records create exactly when the path was not there at first: as  *)
(* long as the session is open the projection is in the workspace, and what *)
(* else is there was created and is recorded so, or was torn.               *)
LEMMA RecordedStep ==
  ASSUME TypeOK, workload \in Workloads, Ending, Recorded, Next
  PROVE  Recorded'
<1> DEFINE Kept == UNCHANGED <<opened, closed, files, writes, torn>>
<1>1. ASSUME Kept PROVE Recorded'
  BY <1>1 DEF Recorded, PatchMatchesBase, CollectPatch
<1>2. ASSUME NEW c \in Callers, Kinds(c)  PROVE Recorded'
  <2>1. CASE CallerCancels(c) \/ Refused(c) \/ Answers(c) \/ Waits(c) \/ Starts(c)
    BY <2>1, <1>1 DEF CallerCancels, Refused, Answers, Answer, Waits, Starts, Start, session, tree
  <2>2. ASSUME NEW path, NEW size, WritePath(c, path, size)
        PROVE  Recorded'
    <3>1. opened /\ ~ closed /\ Projection \subseteq files
      BY <2>2 DEF WritePath, Passes, Begin, Unlocked, guardLocked, Recorded
    <3>2. WritableBy(Classes, Role, path)
      BY <2>2 DEF WritePath, writeAllowed
    <3>3. /\ DOMAIN writes' = DOMAIN writes \cup {path}
          /\ writes'[path] = recordedAction(path)
          /\ \A p \in DOMAIN writes \ {path} : writes'[p] = writes[p]
          /\ files' = files \cup {path}
          /\ UNCHANGED <<opened, closed, torn>>
      BY <2>2 DEF WritePath, session
    <3>4. /\ recordedAction(path) \in {"create", "update"}
          /\ recordedAction(path) = "create" => path \notin Projection
          /\ recordedAction(path) = "update" => path \in Projection \cup torn
      BY <3>1, PatchOfWrites DEF recordedAction, Recorded
    <3>5. \A p \in files' : \/ p \in Projection \cup torn'
                            \/ p \in DOMAIN writes' /\ writes'[p] = "create"
      BY <3>3, <3>4 DEF Recorded
    <3>6. \A p \in DOMAIN writes' :
             /\ WritableBy(Classes, Role, p)
             /\ writes'[p] = "create" => p \notin Projection
             /\ writes'[p] = "update" => p \in Projection \cup torn'
      BY <3>2, <3>3, <3>4, PatchOfWrites DEF Recorded
    <3>7. PatchMatchesBase'
      BY <3>6 DEF PatchMatchesBase, CollectPatch
    <3> QED
      BY <3>1, <3>3, <3>5, <3>7 DEF Recorded
  <2>3. ASSUME NEW path, NEW size, WriteTorn(c, path, size)
        PROVE  Recorded'
    <3>1. /\ opened /\ ~ closed /\ UNCHANGED <<opened, closed, writes>>
          /\ files' = files \cup {path} /\ torn' = torn \cup {path}
      BY <2>3 DEF WriteTorn, Passes, Begin, Unlocked, guardLocked, session
    <3>2. PatchMatchesBase'
      BY <3>1 DEF Recorded, PatchMatchesBase, CollectPatch
    <3> QED
      BY <3>1, <3>2 DEF Recorded
  <2>4. CASE ProcessExits(c) \/ OutputExceeds(c) \/ SelectDone(c) \/ SelectKill(c)
    BY <2>4, <1>1 DEF ProcessExits, OutputExceeds, SelectDone, SelectKill, session, tree
  <2>5. CASE Finish(c) \/ Cancel(c) \/ CancelReturns(c)
    BY <2>5, <1>1 DEF Finish, Cancel, CancelReturns, tree
  <2>6. CASE Close(c)
    <3>1. closed' /\ UNCHANGED <<opened, files, writes, torn>>
      BY <2>6 DEF Close, tree
    <3> QED
      BY <3>1 DEF Recorded, PatchMatchesBase, CollectPatch
  <2>7. CASE CloseReturns(c)
    <3>1. closed /\ UNCHANGED <<opened, closed, writes, torn>> /\ files' \in {files, {}}
      BY <2>7 DEF CloseReturns, Ending
    <3> QED
      BY <3>1 DEF Recorded, PatchMatchesBase, CollectPatch
  <2> QED
    BY <1>2, <2>1, <2>2, <2>3, <2>4, <2>5, <2>6, <2>7 DEF Kinds
<1>3. CASE Open
  <2>1. opened' /\ files' = Projection /\ UNCHANGED <<closed, writes, torn>>
    BY <1>3 DEF Open
  <2> QED
    BY <2>1 DEF Recorded, PatchMatchesBase, CollectPatch
<1>4. CASE DeadlineReached \/ ContextDone
  BY <1>4, <1>1 DEF DeadlineReached, ContextDone, tree
<1> QED
  BY <1>2, <1>3, <1>4, StepKinds

-----------------------------------------------------------------------------
(* The inductive invariant holds initially.                                 *)
LEMMA SessionInit == Init => SessionInv
<1> SUFFICES ASSUME Init PROVE SessionInv
  OBVIOUS
<1>1. TypeOK /\ workload \in Workloads
  BY TypeInit
<1>2. Counted
  <2>1. cmds = {} /\ Added = {} /\ writtenFiles = 0 /\ writtenBytes = 0
    BY DEF Init, Added
  <2> QED
    BY <2>1, FS_EmptySet, LimitsAssumption DEF Counted
<1>3. Ending
  BY DEF Init, Ending, EndIsFinal, NothingRunsAfterEnd, NoWorkAfterEnd, Idle
<1>4. Recorded
  <2>1. DOMAIN writes = {}
    BY DEF Init
  <2> QED
    BY <2>1, PatchOfWrites DEF Init, Recorded
<1> QED
  BY <1>1, <1>2, <1>3, <1>4 DEF SessionInv

(* Every step keeps it.                                                     *)
LEMMA SessionStep == SessionInv /\ [Next]_vars => SessionInv'
<1> SUFFICES ASSUME SessionInv, [Next]_vars PROVE SessionInv'
  OBVIOUS
<1>1. TypeOK' /\ workload' \in Workloads
  BY TypeStep DEF SessionInv
<1>2. CASE UNCHANGED vars
  <2>1. Counted'
    BY <1>2 DEF SessionInv, Counted, Added, vars, session, budget, tree
  <2>2. Ending'
    BY <1>2 DEF SessionInv, Ending, EndIsFinal, NothingRunsAfterEnd, NoWorkAfterEnd,
                vars, session
  <2>3. Recorded'
    BY <1>2 DEF SessionInv, Recorded, PatchMatchesBase, CollectPatch, vars, session, tree
  <2> QED
    BY <1>1, <2>1, <2>2, <2>3 DEF SessionInv
<1>3. CASE Next
  BY <1>1, <1>3, CountedStep, EndingStep, RecordedStep DEF SessionInv
<1> QED
  BY <1>2, <1>3

(* The inductive invariant holds throughout a session.                      *)
LEMMA SessionAlways == Spec => []SessionInv
BY SessionInit, SessionStep, PTL DEF Spec

(* TrackedWithinLimits: for any callers, requests and limits, the processes *)
(* that Cancel and Close kill are those of the calls in flight, and all     *)
(* callers together stay within the limits of processes, files and bytes,   *)
(* although every call checks them before it lets go of the mutex.          *)
THEOREM SessionWithinLimits == Spec => []TrackedWithinLimits
<1>1. SessionInv => TrackedWithinLimits
  BY CountedIsWithin DEF SessionInv, TrackedWithinLimits
<1> QED
  BY <1>1, SessionAlways, PTL

(* EndIsFinal: once Cancel or Close has returned, no process of the session *)
(* runs and no call, in flight or later, is recorded as accepted work.      *)
THEOREM SessionEnds == Spec => []EndIsFinal
<1>1. SessionInv => EndIsFinal
  BY DEF SessionInv, Ending
<1> QED
  BY <1>1, SessionAlways, PTL

(* PatchMatchesBase: the operations CollectPatch returns are create for     *)
(* paths the projection lacks and update for those it has, whatever the     *)
(* writes, but for paths a failed write left.                               *)
THEOREM PatchesMatch == Spec => []PatchMatchesBase
<1>1. SessionInv => PatchMatchesBase
  BY DEF SessionInv, Recorded
<1> QED
  BY <1>1, SessionAlways, PTL
=============================================================================
