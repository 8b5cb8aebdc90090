-------------------------- MODULE WorkItemContract --------------------------
(***************************************************************************)
(* What a WMS promises about build work items, whatever it stores and      *)
(* whoever calls it: a work item is worked on in numbered attempts, one at *)
(* a time; only an attempt whose work was inspected may merge; where a     *)
(* merge goes is settled once; and an outcome is final.                    *)
(***************************************************************************)
EXTENDS Naturals

CONSTANTS Items, Targets, None

VARIABLES phase,      \* "none", "open", "attempt", "merging" or an outcome
          attempt,    \* the number of the running attempt, or 0
          issued,     \* attempts started so far, of all items
          inspected,  \* the work of the running attempt has been inspected
          target      \* where the item is to be merged, once that is settled

contractVars == <<phase, attempt, issued, inspected, target>>

Open == "open"
Running == {"attempt", "merging"}

Init ==
    /\ phase = [i \in Items |-> "none"]
    /\ attempt = [i \in Items |-> 0]
    /\ issued = 0
    /\ inspected = [i \in Items |-> FALSE]
    /\ target = [i \in Items |-> None]

\* An item comes into being, with or without a merge target of its own.
Appear(i) ==
    /\ phase[i] = "none"
    /\ phase' = [phase EXCEPT ![i] = Open]
    /\ \E t \in Targets \cup {None} : target' = [target EXCEPT ![i] = t]
    /\ UNCHANGED <<attempt, issued, inspected>>

\* A new attempt, the first or one that replaces the running one: its number
\* was never used, and it starts without an inspection.
Begin(i) ==
    /\ phase[i] \in Running \cup {Open}
    /\ phase' = [phase EXCEPT ![i] = "attempt"]
    /\ issued' = issued + 1
    /\ attempt' = [attempt EXCEPT ![i] = issued + 1]
    /\ inspected' = [inspected EXCEPT ![i] = FALSE]
    /\ UNCHANGED target

Inspect(i) ==
    /\ phase[i] = "attempt"
    /\ \E complete \in BOOLEAN :
          inspected' = [inspected EXCEPT ![i] = complete]
    /\ UNCHANGED <<phase, attempt, issued, target>>

\* Inspected work goes to the target, which it settles if nothing has.
Merge(i) ==
    /\ phase[i] = "attempt" /\ inspected[i]
    /\ phase' = [phase EXCEPT ![i] = "merging"]
    /\ \E t \in Targets :
          /\ target[i] \in {None, t}
          /\ target' = [target EXCEPT ![i] = t]
    /\ UNCHANGED <<attempt, issued, inspected>>

\* The attempt is given up; what it inspected is worth nothing to the next.
Free(i) ==
    /\ phase[i] \in Running
    /\ phase' = [phase EXCEPT ![i] = Open]
    /\ attempt' = [attempt EXCEPT ![i] = 0]
    /\ inspected' = [inspected EXCEPT ![i] = FALSE]
    /\ UNCHANGED <<issued, target>>

Complete(i) ==
    /\ phase[i] = "merging"
    /\ phase' = [phase EXCEPT ![i] = "completed"]
    /\ attempt' = [attempt EXCEPT ![i] = 0]
    /\ UNCHANGED <<issued, inspected, target>>

\* Nothing is abandoned while its merge may be under way.
Abandon(i) ==
    /\ phase[i] \in {Open, "attempt"}
    /\ phase' = [phase EXCEPT ![i] = "abandoned"]
    /\ attempt' = [attempt EXCEPT ![i] = 0]
    /\ UNCHANGED <<issued, inspected, target>>

Next ==
    \E i \in Items :
        \/ Appear(i) \/ Begin(i) \/ Inspect(i) \/ Merge(i)
        \/ Free(i)   \/ Complete(i) \/ Abandon(i)

Spec == Init /\ [][Next]_contractVars
=============================================================================
