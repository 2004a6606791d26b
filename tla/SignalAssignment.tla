-------------------------- MODULE SignalAssignment --------------------------
(***************************************************************************)
(* How the circom interpreter decides that a signal is assigned exactly    *)
(* once (constraint_generation: execute.rs, assignment_utils.rs).  A       *)
(* template is executed symbolically: both branches of an `if` whose       *)
(* condition is not known at compile time are executed, and the state of a *)
(* signal remembers under which conditions it got its value.               *)
(*                                                                         *)
(* The program is chosen step by step by the actions.  `path` and `writes` *)
(* are the meaning of the program: the decisions the running witness       *)
(* generator would really take around each statement.                      *)
(***************************************************************************)
EXTENDS AssignmentState

CONSTANTS
    Signals,    \* the signals of the template
    MaxIds,     \* bound on runtime.unknown_counter
    MaxDepth,   \* bound on the nesting of statements
    MaxWrites,  \* bound on the assignments executed
    LoopsUnderIf \* whether the program has a loop inside an unknown `if`

SignalAssignmentAssumption ==
    MaxIds \in Nat /\ MaxDepth \in Nat /\ MaxWrites \in Nat /\ LoopsUnderIf \in BOOLEAN

VARIABLES
    conds,      \* runtime.conditions_state: a sequence of <<id, branch>>
    counter,    \* runtime.unknown_counter
    slots,      \* the AssignmentState of each signal
    frames,     \* the open control statements, outermost first
    path,       \* the decisions really enclosing the statement
    writes,     \* for each signal, the path of every assignment executed
    verdict     \* "running", "accepted", "rejected" or "panic"

vars == <<conds, counter, slots, frames, path, writes, verdict>>

\* A frame is an open `if` on an unknown condition or an open loop.  `turn`
\* counts the evaluations of a loop's condition that gave true, or tells which
\* of the two executions of the body of an unknown loop an `if` stands for.
Frame(kind, phase) == [kind |-> kind, phase |-> phase, turn |-> 0]
Top == Last(frames)
InUnknown == \E i \in 1 .. Len(frames) : frames[i].kind = "if"

\* What an assignment executed now would record.
CurrentAssignment == IF conds = << >> THEN Assigned ELSE MightAssigned(conds)

Init ==
    /\ conds = << >>
    /\ counter = 0
    /\ slots = [s \in Signals |-> NoAssigned]
    /\ frames = << >>
    /\ path = << >>
    /\ writes = [s \in Signals |-> << >>]
    /\ verdict = "running"

\* Between two statements: no loop is about to evaluate its condition.
AtStatement ==
    /\ verdict = "running"
    /\ frames # << >> => Top.phase \in {"then", "else", "body"}

\* s <-- e or s <== e: perform_assign and perform_signal_assignment.
Assign(s) ==
    /\ AtStatement
    /\ Len(writes[s]) < MaxWrites
    /\ writes' = [writes EXCEPT ![s] = Append(@, path)]
    /\ IF Rejects(slots[s], CurrentAssignment)
       THEN verdict' = "rejected" /\ UNCHANGED slots
       ELSE /\ slots' = [slots EXCEPT ![s] = AfterAssignment(@, CurrentAssignment)]
            /\ UNCHANGED verdict
    /\ UNCHANGED <<conds, counter, frames, path>>

\* A new condition is pushed, with a fresh identifier.
PushCondition ==
    /\ counter < MaxIds
    /\ conds' = Append(conds, <<counter, TRUE>>)
    /\ counter' = counter + 1

\* The last condition is removed; popping an empty list does nothing.
PopCondition == conds' = IF conds = << >> THEN conds ELSE Front(conds)

\* if (c) with a condition that is not known at compile time.
EnterIf ==
    /\ AtStatement
    /\ Len(frames) < MaxDepth
    /\ PushCondition
    /\ frames' = Append(frames, Frame("if", "then"))
    /\ path' = Append(path, <<counter, TRUE>>)
    /\ UNCHANGED <<slots, writes, verdict>>

\* } else {: the last condition is turned into its negation, whatever it is.
EnterElse ==
    /\ AtStatement
    /\ frames # << >> /\ Top.phase = "then" /\ Top.turn = 0
    /\ IF conds = << >>
       THEN verdict' = "panic" /\ UNCHANGED <<conds, frames, path>>
       ELSE /\ conds' = [conds EXCEPT ![Len(conds)] = <<@[1], FALSE>>]
            /\ frames' = [frames EXCEPT ![Len(frames)].phase = "else"]
            /\ path' = [path EXCEPT ![Len(path)] = <<@[1], FALSE>>]
            /\ UNCHANGED verdict
    /\ UNCHANGED <<counter, slots, writes>>

\* The end of an unknown `if` that is a statement of the program.
EndIf ==
    /\ AtStatement
    /\ frames # << >> /\ Top.kind = "if" /\ Top.turn = 0
    /\ PopCondition
    /\ frames' = Front(frames)
    /\ path' = Front(path)
    /\ UNCHANGED <<counter, slots, writes, verdict>>

\* while: one condition is pushed before the loop.
EnterWhile ==
    /\ AtStatement
    /\ LoopsUnderIf \/ ~ InUnknown
    /\ Len(frames) < MaxDepth
    /\ PushCondition
    /\ frames' = Append(frames, Frame("while", "test"))
    /\ UNCHANGED <<slots, path, writes, verdict>>

Testing == verdict = "running" /\ frames # << >> /\ Top.phase = "test"

\* The condition is known to hold.  Inside an unknown `if` every assigned
\* variable becomes unknown, so there only the first evaluation can know it.
LoopTrue ==
    /\ Testing
    /\ InUnknown => Top.turn = 0
    /\ Top.turn < 2
    /\ frames' = [frames EXCEPT ![Len(frames)].phase = "body", ![Len(frames)].turn = @ + 1]
    /\ UNCHANGED <<conds, counter, slots, path, writes, verdict>>

\* The end of the body: "We remove the last conditions_state added", at the
\* end of every iteration.
EndIteration ==
    /\ AtStatement
    /\ frames # << >> /\ Top.phase = "body"
    /\ PopCondition
    /\ frames' = [frames EXCEPT ![Len(frames)].phase = "test"]
    /\ UNCHANGED <<counter, slots, path, writes, verdict>>

\* The condition is known not to hold: the loop ends.
LoopFalse ==
    /\ Testing
    /\ InUnknown => Top.turn = 0
    /\ frames' = Front(frames)
    /\ UNCHANGED <<conds, counter, slots, path, writes, verdict>>

\* The condition is unknown: the body is executed as the branch of an unknown
\* `if`, and then once more.  The phase of the loop counts the executions.
LoopUnknown ==
    /\ Testing
    /\ Len(frames) <= MaxDepth
    /\ PushCondition
    /\ frames' = Append([frames EXCEPT ![Len(frames)].phase = "unknown"],
                         [Frame("if", "then") EXCEPT !.turn = 1])
    /\ path' = Append(path, <<counter, TRUE>>)
    /\ UNCHANGED <<slots, writes, verdict>>

\* The end of the first of the two executions: the second is conditional on
\* the first, and has a condition of its own.
LoopUnknownAgain ==
    /\ AtStatement
    /\ frames # << >> /\ Top.kind = "if" /\ Top.turn = 1
    /\ counter < MaxIds
    /\ conds' = Append(IF conds = << >> THEN conds ELSE Front(conds), <<counter, TRUE>>)
    /\ counter' = counter + 1
    /\ frames' = [frames EXCEPT ![Len(frames)].turn = 2]
    /\ path' = Append(path, <<counter, TRUE>>)
    /\ UNCHANGED <<slots, writes, verdict>>

\* A fault: the condition pushed before the loop is removed here too.
EndUnknownLoopPopsTwice ==
    /\ AtStatement
    /\ frames # << >> /\ Top.kind = "if" /\ Top.turn = 2
    /\ conds' = IF Len(conds) < 2 THEN << >> ELSE Front(Front(conds))
    /\ frames' = Front(Front(frames))
    /\ path' = Front(Front(path))
    /\ UNCHANGED <<counter, slots, writes, verdict>>

\* The end of the second execution ends the loop.
EndUnknownLoop ==
    /\ AtStatement
    /\ frames # << >> /\ Top.kind = "if" /\ Top.turn = 2
    /\ PopCondition
    /\ frames' = Front(Front(frames))
    /\ path' = Front(Front(path))
    /\ UNCHANGED <<counter, slots, writes, verdict>>

EndTemplate ==
    /\ verdict = "running" /\ frames = << >>
    /\ verdict' = "accepted"
    /\ UNCHANGED <<conds, counter, slots, frames, path, writes>>

Next ==
    \/ \E s \in Signals : Assign(s)
    \/ EnterIf \/ EnterElse \/ EndIf
    \/ EnterWhile \/ LoopTrue \/ EndIteration \/ LoopFalse
    \/ LoopUnknown \/ LoopUnknownAgain \/ EndUnknownLoop
    \/ EndTemplate

Spec == Init /\ [][Next]_vars

-----------------------------------------------------------------------------
States == [state : {"no", "yes", "might"}, under : Seq((0 .. MaxIds - 1) \X BOOLEAN)]

TypeOK ==
    /\ conds \in Seq((0 .. MaxIds - 1) \X BOOLEAN)
    /\ counter \in 0 .. MaxIds
    /\ slots \in [Signals -> States]
    /\ \A s \in Signals : slots[s].state = "might" <=> slots[s].under # << >>
    /\ path \in Seq((0 .. MaxIds - 1) \X BOOLEAN)
    /\ verdict \in {"running", "accepted", "rejected", "panic"}

\* Two paths that no run of the witness generator can both take.
Exclusive(p, q) ==
    \E i \in 1 .. Len(p), j \in 1 .. Len(q) : p[i][1] = q[j][1] /\ p[i][2] # q[j][2]

\* As long as nothing was rejected, no run of the witness generator can
\* assign a signal twice: any two accepted assignments stand in different
\* branches of one `if` (perform_signal_assignment and the bookkeeping of
\* conditions_state by ifs and loops).
NeverAssignedTwice ==
    verdict # "rejected" =>
        \A s \in Signals : \A i, j \in 1 .. Len(writes[s]) :
            i < j => Exclusive(writes[s][i], writes[s][j])

\* A signal whose state is Assigned gets a value in every run, whatever the
\* unknown conditions turn out to be.
AssignedMeansAlways ==
    \A s \in Signals : slots[s].state = "yes" =>
        \A outcome \in [0 .. MaxIds - 1 -> BOOLEAN] :
            \E i \in 1 .. Len(writes[s]) : \A k \in 1 .. Len(writes[s][i]) :
                outcome[writes[s][i][k][1]] = writes[s][i][k][2]

\* Turning the last condition into its negation (execute.rs:2668) never finds
\* the list of conditions empty, although loops pop more than they push.
ElseFindsItsCondition == verdict # "panic"

\* "Signal has been already assigned" (execute.rs:4011) is said only of a
\* signal that some run would really assign twice.
RejectedMeansAssignedTwice ==
    verdict = "rejected" =>
        \E s \in Signals : \E i, j \in 1 .. Len(writes[s]) :
            i < j /\ ~ Exclusive(writes[s][i], writes[s][j])
=============================================================================
