-------------------------- MODULE AssignmentState --------------------------
(***************************************************************************)
(* The AssignmentState of a signal (constraint_generation, slice_types.rs) *)
(* and what a further assignment does to it (perform_signal_assignment in  *)
(* assignment_utils.rs).  A condition is a pair <<id, branch>> of an `if`  *)
(* that is not decided at compile time.                                    *)
(***************************************************************************)
EXTENDS Naturals, Sequences, SequencesExt

NoAssigned == [state |-> "no", under |-> << >>]
Assigned == [state |-> "yes", under |-> << >>]
MightAssigned(cs) == [state |-> "might", under |-> cs]

\* The first position where two lists of conditions differ, or 0.
FirstDifference(a, b) ==
    LET shared == 1 .. (IF Len(a) < Len(b) THEN Len(a) ELSE Len(b))
    IN  IF \A i \in shared : a[i] = b[i] THEN 0
        ELSE CHOOSE i \in shared : a[i] # b[i] /\ \A j \in 1 .. i - 1 : a[j] = b[j]

\* A fault: conditions of two unrelated ifs taken for branches of one.
MayMergeAnyDifference(old, new) == FirstDifference(old, new) # 0

\* Two assignments are accepted when the first difference is the branch taken
\* in one and the same `if`.
MayMerge(old, new) ==
    LET d == FirstDifference(old, new)
    IN  d # 0 /\ old[d][1] = new[d][1]

\* A fault: two branches of one `if` are taken for a sure assignment whatever
\* stands above and below the difference.
MergedAlwaysAssigned(old, new) == Assigned

\* A fault: dropping the only condition leaves an empty list of conditions.
MergedWithoutSure(old, new) ==
    IF FirstDifference(old, new) = Len(new) /\ Len(old) = Len(new)
    THEN MightAssigned(Front(new)) ELSE MightAssigned(new)

\* Both branches of the innermost `if` assigned: the condition is dropped.
\* Otherwise only the newest conditions are kept.
Merged(old, new) ==
    IF FirstDifference(old, new) = Len(new) /\ Len(old) = Len(new)
    THEN IF Len(new) = 1 THEN Assigned ELSE MightAssigned(Front(new))
    ELSE MightAssigned(new)

Rejects(old, new) ==
    \/ old.state = "yes"
    \/ old.state = "might" /\ new.state = "yes"
    \/ old.state = "might" /\ new.state = "might" /\ ~ MayMerge(old.under, new.under)

AfterAssignment(old, new) ==
    IF old.state = "no" THEN new ELSE Merged(old.under, new.under)
=============================================================================
