------------------------------ MODULE Component ------------------------------
(***************************************************************************)
(* One component of a circom template while the template is executed:      *)
(* ComponentRepresentation and BusRepresentation, and the branches of      *)
(* perform_assign and execute_component that drive them.                   *)
(*                                                                         *)
(* A component is first only known by name.  Assigning a template to it    *)
(* preinitializes it; as long as an input with tags has no value the       *)
(* template cannot be executed, and assignments to inputs are delayed.     *)
(* Then it is initialized, the delayed assignments are replayed, and its   *)
(* outputs may be read once the counters of missing inputs are all gone.   *)
(***************************************************************************)
EXTENDS AssignmentState, Integers, FiniteSets

CONSTANTS
    Signals, Buses,  \* the inputs of the template that are signals, or buses
    Size,            \* Size[i]: the cells of input i (its array has one dimension)
    Fields,          \* the fields of a bus, all of them signals
    Tagged,          \* the inputs <<i, "all">> and bus fields <<b, f>> with a tag
    TagValues,       \* the values of a tag
    NoTag,           \* the value assigned lacks the tag
    Anonymous,       \* whether the component is anonymous
    MaxIfs,          \* bound on the unknown ifs of the program
    MaxWrites        \* bound on the assignments executed

ComponentAssumption ==
    /\ Signals \cap Buses = {} /\ "all" \notin Fields /\ NoTag \notin TagValues
    /\ Size \in [Signals \cup Buses -> Nat \ {0}]
    /\ Anonymous \in BOOLEAN /\ MaxIfs \in Nat /\ MaxWrites \in Nat

InputNames == Signals \cup Buses

VARIABLES
    phase,      \* "none", "preinitialized" or "initialized"
    slots,      \* the AssignmentState of every place of the inputs
    surely,     \* the cells <<b, k>> of buses with has_assignment
    fieldsLeft, \* unassigned_fields of every cell of the input buses
    left,       \* unassigned_inputs: the counter of each input, 0 for no entry
    tagsLeft,   \* unassigned_tags
    tags,       \* inputs_tags: the value of each tag
    delayed,    \* to_assign_inputs, to_assign_input_buses, to_assign_input_bus_fields
    conds,      \* runtime.conditions_state, with at most one `if` open
    nextIf,     \* runtime.unknown_counter
    written,    \* for each place, the conditions of every assignment executed
    carried,    \* every <<tagged, value>> an executed assignment brought
    verdict     \* "running", "outputs read", "accepted" or "rejected"

component == <<slots, surely, fieldsLeft, left>>
vars == <<phase, component, tagsLeft, tags, delayed, conds, nextIf, written, carried, verdict>>

\* The places of an input: its cells, or the fields of its cells.
PlacesOf(i, cells) ==
    IF i \in Signals THEN {<<i, k, "all">> : k \in cells}
    ELSE {<<i, k, f>> : k \in cells, f \in Fields}
Cells(i) == 1 .. Size[i]
Places == UNION {PlacesOf(i, Cells(i)) : i \in InputNames}
BusCells == {<<b, k>> : b \in Buses, k \in UNION {Cells(c) : c \in Buses}}

\* An assignment to an input: a cell or the whole array of it, or one field of
\* a cell of a bus.
Assignments ==
    [input : InputNames, cells : SUBSET UNION {Cells(i) : i \in InputNames},
     field : {"all"} \cup Fields, tag : TagValues \cup {NoTag}, under : {<< >>}]

\* The tags an assignment must bring: those of the input and of all its
\* fields, or those of the field assigned.
Required(a) == {t \in Tagged : t[1] = a.input /\ a.field \in {"all", t[2]}}
WellFormed(a) ==
    /\ a.cells # {} /\ a.cells \subseteq Cells(a.input)
    /\ Cardinality(a.cells) = 1 \/ a.cells = Cells(a.input)
    /\ a.input \in Signals => a.field = "all"
    /\ a.field # "all" => Cardinality(a.cells) = 1
    /\ Required(a) = {} => a.tag = NoTag
Target(a) ==
    IF a.field = "all" THEN PlacesOf(a.input, a.cells)
    ELSE {<<a.input, k, a.field>> : k \in a.cells}

AssignmentStateOf(a) == IF a.under = << >> THEN Assigned ELSE MightAssigned(a.under)

-----------------------------------------------------------------------------
\* The component before any input is assigned: initialize_component.
Fresh ==
    [slots |-> [p \in Places |-> NoAssigned],
     surely |-> {},
     fieldsLeft |-> [c \in BusCells |-> Fields],
     left |-> [i \in InputNames |-> Size[i]],
     ok |-> TRUE]

\* A fault: one assignment is taken for an assignment of the whole input.
CountedWhole(c, a, amount) == [c.left EXCEPT ![a.input] = 0]

\* update_unassigned_inputs.  The counter is a usize: an entry that misses 0
\* wraps around and never comes back to 0, as a negative number does here.
Counted(c, a, amount) ==
    [c.left EXCEPT ![a.input] = IF @ = 0 THEN 0 ELSE @ - amount]

\* A fault: a place that already has a value is assigned again.
AssignPlacesUnchecked(c, a) ==
    [c EXCEPT !.slots = [p \in Places |->
                            IF p \in Target(a) THEN AssignmentStateOf(a) ELSE @[p]]]

\* perform_signal_assignment on every place.
AssignPlaces(c, a) ==
    [c EXCEPT !.slots = [p \in Places |->
                            IF p \in Target(a) THEN AfterAssignment(@[p], AssignmentStateOf(a))
                            ELSE @[p]],
              !.ok = @ /\ \A p \in Target(a) : ~ Rejects(c.slots[p], AssignmentStateOf(a))]

\* assign_value_to_signal_init, after its checks.
ApplySignal(c, a) ==
    [AssignPlaces(c, a) EXCEPT !.left = Counted(c, a, Cardinality(a.cells))]

\* assign_value_to_bus_init and completely_assign_bus: has_assignment rejects
\* at once, and is only set by an assignment that is sure.
ApplyBus(c, a) ==
    LET touched == {<<a.input, k>> : k \in a.cells}
    IN  [AssignPlaces(c, a) EXCEPT
            !.ok = @ /\ c.surely \cap touched = {},
            !.surely = IF a.under = << >> THEN @ \cup touched ELSE @,
            !.fieldsLeft = [x \in BusCells |-> IF x \in touched THEN {} ELSE @[x]],
            !.left = Counted(c, a, Cardinality(a.cells))]

\* assign_value_to_bus_field_init and assign_value_to_field: the bus counts as
\* assigned when none of its fields is left.
ApplyField(c, a) ==
    LET touched == {<<a.input, k>> : k \in a.cells}
        rest == [x \in BusCells |->
                    IF x \in touched THEN c.fieldsLeft[x] \ {a.field} ELSE c.fieldsLeft[x]]
    IN  [AssignPlaces(c, a) EXCEPT
            !.surely = IF a.under = << >> THEN @ \cup touched ELSE @,
            !.fieldsLeft = rest,
            !.left = IF \A x \in touched : rest[x] = {} THEN Counted(c, a, 1) ELSE @]

Apply(c, a) ==
    IF ~ c.ok THEN c
    ELSE IF a.input \in Signals THEN ApplySignal(c, a)
    ELSE IF a.field = "all" THEN ApplyBus(c, a) ELSE ApplyField(c, a)

\* Assignments that wait: those of signals, of buses, and of fields of buses.
NothingDelayed == [signals |-> << >>, buses |-> << >>, fields |-> << >>]
ListOf(a) ==
    IF a.input \in Signals THEN "signals" ELSE IF a.field = "all" THEN "buses" ELSE "fields"
Delayed(d, a) == [d EXCEPT ![ListOf(a)] = Append(@, a)]

\* One list after another, each from its beginning.
ReplayList(c, as) ==
    LET after[n \in 0 .. Len(as)] == IF n = 0 THEN c ELSE Apply(after[n - 1], as[n])
    IN  after[Len(as)]

\* A fault: the lists of buses are forgotten when the component is initialized.
ReplayOnlySignals(d) == ReplayList(Fresh, d.signals)

Replay(d) == ReplayList(ReplayList(ReplayList(Fresh, d.signals), d.buses), d.fields)

\* A fault: the template is executed before its tags are known.
ReadyAlways(missing) == TRUE

\* is_ready_initialize.
Ready(missing) == missing = {}

SetComponent(c) ==
    /\ slots' = c.slots /\ surely' = c.surely
    /\ fieldsLeft' = c.fieldsLeft /\ left' = c.left

-----------------------------------------------------------------------------
Init ==
    /\ phase = "none"
    /\ slots = Fresh.slots /\ surely = {} /\ fieldsLeft = Fresh.fieldsLeft
    /\ left = [i \in InputNames |-> 0]
    /\ tagsLeft = {} /\ tags = [t \in Tagged |-> NoTag]
    /\ delayed = NothingDelayed
    /\ conds = << >> /\ nextIf = 0
    /\ written = [p \in Places |-> << >>] /\ carried = {}
    /\ verdict = "running"

Running == verdict \in {"running", "outputs read"}
Reject == verdict' = "rejected"

\* c = T(...): preinitialize_component, and the initialization at once when no
\* input has a tag.  The type analysis keeps it out of unknown ifs.
Create ==
    /\ Running /\ conds = << >>
    /\ IF phase # "none" /\ ~ Anonymous
       THEN Reject /\ UNCHANGED <<phase, component, tagsLeft, tags, delayed, written, carried>>
       ELSE /\ phase' = IF Ready(Tagged) THEN "initialized" ELSE "preinitialized"
            /\ left' = IF Ready(Tagged) THEN Fresh.left ELSE [i \in InputNames |-> 0]
            /\ slots' = Fresh.slots /\ surely' = {} /\ fieldsLeft' = Fresh.fieldsLeft
            /\ tagsLeft' = Tagged /\ tags' = [t \in Tagged |-> NoTag]
            /\ delayed' = NothingDelayed
            /\ written' = [p \in Places |-> << >>] /\ carried' = {}
            /\ verdict' = "running"
    /\ UNCHANGED <<conds, nextIf>>

\* A fault: later assignments are not compared with the first.
TagsAgreeOnce(a) == Required(a) # {} => a.tag # NoTag

\* handle_tag_assignment_no_init and _init: the first assignment of a tagged
\* input gives the tag its value, the others must bring the same value.
TagsAgree(a) ==
    /\ Required(a) # {} => a.tag # NoTag
    /\ \A t \in Required(a) \ tagsLeft : tags[t] = a.tag

\* The component once an assignment counts, with those that waited for it.
AfterInput(a) ==
    IF phase = "initialized"
    THEN Apply([slots |-> slots, surely |-> surely, fieldsLeft |-> fieldsLeft,
                left |-> left, ok |-> TRUE], a)
    ELSE Replay(Delayed(delayed, a))

\* c.i[...] <-- e: assign_value_to_signal, _to_bus and _to_bus_field, and the
\* execution of the template when the last tag is known.
AssignInput(a) ==
    /\ Running
    /\ IF phase = "none" \/ ~ TagsAgree(a)
       THEN Reject /\ UNCHANGED <<phase, component, tagsLeft, tags, delayed, written, carried>>
       ELSE LET rest == tagsLeft \ Required(a)
                next == AfterInput(a)
            IN  /\ tagsLeft' = rest
                /\ tags' = [t \in Tagged |-> IF t \in Required(a) THEN a.tag ELSE tags[t]]
                /\ carried' = carried \cup {<<t, a.tag>> : t \in Required(a)}
                /\ written' = [p \in Places |->
                                 IF p \in Target(a) THEN Append(written[p], a.under) ELSE written[p]]
                /\ IF phase = "preinitialized" /\ ~ Ready(rest)
                   THEN /\ delayed' = Delayed(delayed, a)
                        /\ UNCHANGED <<phase, component, verdict>>
                   ELSE /\ phase' = "initialized" /\ delayed' = NothingDelayed
                        /\ SetComponent(next)
                        /\ IF next.ok THEN UNCHANGED verdict ELSE Reject
    /\ UNCHANGED <<conds, nextIf>>

Assign ==
    /\ Cardinality(UNION {{p} \X (1 .. Len(written[p])) : p \in Places}) < MaxWrites
    /\ \E a \in Assignments : WellFormed(a) /\ AssignInput([a EXCEPT !.under = conds])

\* The value of an output: check_initialized_inputs and get_io_value.
ReadOutput ==
    /\ Running
    /\ IF phase = "initialized" /\ \A i \in InputNames : left[i] = 0
       THEN verdict' = "outputs read" ELSE Reject
    /\ UNCHANGED <<phase, component, tagsLeft, tags, delayed, conds, nextIf, written, carried>>

\* An `if` on an unknown condition, its else branch and its end.
EnterIf ==
    /\ Running /\ conds = << >> /\ nextIf < MaxIfs
    /\ conds' = <<<<nextIf, TRUE>>>> /\ nextIf' = nextIf + 1
    /\ UNCHANGED <<phase, component, tagsLeft, tags, delayed, written, carried, verdict>>

EnterElse ==
    /\ Running /\ conds # << >> /\ conds[1][2]
    /\ conds' = <<<<conds[1][1], FALSE>>>>
    /\ UNCHANGED <<phase, component, tagsLeft, tags, delayed, nextIf, written, carried, verdict>>

EndIf ==
    /\ Running /\ conds # << >>
    /\ conds' = << >>
    /\ UNCHANGED <<phase, component, tagsLeft, tags, delayed, nextIf, written, carried, verdict>>

\* The end of the enclosing template: environment_check_all_components_assigned.
EndTemplate ==
    /\ Running /\ conds = << >>
    /\ verdict' = IF phase = "none" \/ (tagsLeft = {} /\ \A i \in InputNames : left[i] = 0)
                  THEN "accepted" ELSE "rejected"
    /\ UNCHANGED <<phase, component, tagsLeft, tags, delayed, conds, nextIf, written, carried>>

Next == Create \/ Assign \/ ReadOutput \/ EnterIf \/ EnterElse \/ EndIf \/ EndTemplate

Spec == Init /\ [][Next]_vars

-----------------------------------------------------------------------------
Accepted == verdict # "rejected"

TypeOK ==
    /\ phase \in {"none", "preinitialized", "initialized"}
    /\ slots \in [Places -> [state : {"no", "yes", "might"}, under : Seq((0 .. MaxIfs) \X BOOLEAN)]]
    /\ surely \subseteq BusCells /\ fieldsLeft \in [BusCells -> SUBSET Fields]
    /\ left \in [InputNames -> Int]
    /\ tagsLeft \subseteq Tagged /\ tags \in [Tagged -> TagValues \cup {NoTag}]
    /\ phase = "initialized" => tagsLeft = {} /\ delayed = NothingDelayed

\* "The output signals of a component can only be used when all inputs are
\* set": once an output was read, or the template was accepted, every place
\* of every input got a value.
OutputsNeedInputs ==
    verdict \in {"outputs read", "accepted"} /\ phase # "none" =>
        \A p \in Places : written[p] # << >>

\* The counters of missing inputs, which are unsigned, never go below zero.
CountersDoNotWrap == Accepted => \A i \in InputNames : left[i] >= 0

\* No assignment gets lost or invented while it waits for the tags: after the
\* initialization exactly the places written are assigned.
DelayedAssignmentsApplied ==
    phase = "initialized" /\ Accepted =>
        \A p \in Places : slots[p].state = "no" <=> written[p] = << >>

\* The replay in three groups lets no double assignment through that the order
\* of the program would have stopped.
PlacesWrittenOnce ==
    phase = "initialized" /\ Accepted =>
        \A p \in Places : \A i, j \in 1 .. Len(written[p]) :
            i < j => /\ written[p][i] # << >> /\ written[p][j] # << >>
                     /\ written[p][i][1][1] = written[p][j][1][1]
                     /\ written[p][i][1][2] # written[p][j][1][2]

\* Every assignment to an input with a tag, before or after the template was
\* executed, brought the value of the tag the template was executed with.
TagsOfOneInstance ==
    Accepted => \A c \in carried : c[1] \notin tagsLeft /\ tags[c[1]] = c[2]
=============================================================================
