-------------------------------- MODULE Tags --------------------------------
(***************************************************************************)
(* The tags of signals and buses while a template is executed              *)
(* (constraint_generation: assignment_utils.rs, environment.rs and the     *)
(* signal and bus cases of perform_assign in execute.rs).                  *)
(*                                                                         *)
(* Three wires: "s", a signal array of SCells cells; "b", an array of BCells *)
(* buses; "f", the only field of that bus, a signal array of FCells cells. *)
(* A tag of a wire is Absent, present without a value (None), or valued.   *)
(*                                                                         *)
(* `carried` remembers the tags of every expression assigned to a cell.    *)
(***************************************************************************)
EXTENDS AssignmentState, Integers, FiniteSets

CONSTANTS
    TagNames,   \* the tags of the program
    Values,     \* the values of tags
    Absent, None,
    SCells, BCells, FCells,
    Wires,      \* the wires of this template: {"s"}, {"b", "f"} or all
    MaxIfs,     \* bound on the unknown ifs
    UsizeRange  \* 2^64: usize arithmetic wraps around

TagsAssumption ==
    /\ Wires \in {{"s"}, {"b", "f"}, {"s", "b", "f"}}
    /\ SCells \in Nat \ {0} /\ BCells \in Nat \ {0} /\ FCells \in Nat \ {0}
    /\ MaxIfs \in Nat
    /\ UsizeRange \in Nat /\ UsizeRange > SCells + BCells * FCells
    /\ Absent \notin Values /\ None \notin Values /\ Absent # None

VARIABLES
    tags,       \* tags: for each wire, its TagInfo
    defs,       \* definitions: which tags the program declared and valued
    remaining,  \* remaining_inserts
    isInit,     \* is_init
    slots,      \* the AssignmentState of each cell of "s" and "f"
    carried,    \* for each cell of a wire, the TagInfos assigned to it
    late,       \* wires whose tag got a value after one of their cells did
    exported,   \* the values handed to the parent when the template ends
    conds, ids, \* runtime.conditions_state, runtime.unknown_counter
    verdict     \* "running", "accepted", "rejected"

vars == <<tags, defs, remaining, isInit, slots, carried, late, exported, conds, ids, verdict>>
wires == <<tags, defs, remaining, isInit>>

TagInfo == [TagNames -> {Absent, None} \cup Values]
NoTags == [t \in TagNames |-> Absent]

CellsOf(w) ==
    CASE w = "s" -> 1 .. SCells
      [] w = "b" -> 1 .. BCells
      [] w = "f" -> (1 .. BCells) \X (1 .. FCells)
Slots == (IF "s" \in Wires THEN {<<"s", c>> : c \in CellsOf("s")} ELSE {})
             \cup (IF "f" \in Wires THEN {<<"f", c>> : c \in CellsOf("f")} ELSE {})
\* The slots behind a cell of a wire.
Behind(w, c) == IF w = "b" THEN {<<"f", <<c, k>>>> : k \in 1 .. FCells} ELSE {<<w, c>>}

\* What an assignment executed now would record.
CurrentAssignment == IF conds = << >> THEN Assigned ELSE MightAssigned(conds)

-----------------------------------------------------------------------------
\* compute_propagated_tags: the tags an expression takes from a wire.
Visible(w) ==
    [t \in TagNames |->
        IF tags[w][t] # Absent /\ (defs[w][t].valued \/ remaining[w] = 0) THEN tags[w][t]
        ELSE IF defs[w][t].defined THEN None ELSE Absent]

\* A fault: a declared tag takes the value of the last assignment.
PropagatedLast(w, new) ==
    [t \in TagNames |->
        IF defs[w][t].valued THEN tags[w][t]
        ELSE IF defs[w][t].defined THEN IF new[t] = Absent THEN None ELSE new[t]
        ELSE IF tags[w][t] # Absent THEN IF new[t] = tags[w][t] THEN tags[w][t] ELSE Absent
        ELSE IF isInit[w] THEN Absent ELSE new[t]]

\* A fault: a tag that was not declared survives an assignment without it.
PropagatedSticky(w, new) ==
    [t \in TagNames |->
        IF defs[w][t].valued THEN tags[w][t]
        ELSE IF defs[w][t].defined
             THEN IF new[t] # Absent /\ (isInit[w] => new[t] = tags[w][t]) THEN new[t] ELSE None
        ELSE IF tags[w][t] # Absent THEN tags[w][t]
        ELSE IF isInit[w] THEN Absent ELSE new[t]]

\* perform_tag_propagation: the tags of wire w after an expression with tags
\* `new` is assigned to some of its cells.
Propagated(w, new) ==
    [t \in TagNames |->
        IF defs[w][t].valued THEN tags[w][t]
        ELSE IF defs[w][t].defined
             THEN IF new[t] # Absent /\ (isInit[w] => new[t] = tags[w][t]) THEN new[t] ELSE None
        ELSE IF tags[w][t] # Absent THEN IF new[t] = tags[w][t] THEN tags[w][t] ELSE Absent
        ELSE IF isInit[w] THEN Absent ELSE new[t]]

\* The bus subtracts the cells assigned without looking whether enough remain.
BusRemaining(w, n) == (remaining[w] - n) % UsizeRange

\* A fault: the cells left are not compared with the cells assigned.
SignalRemainingUnchecked(n) == remaining["s"] - n

\* A fault: an element counts as the whole array.
SignalRemainingArray(n) == IF remaining["s"] >= SCells THEN remaining["s"] - SCells ELSE 0

\* A fault: every assignment, of however many cells, counts as one.
SignalRemainingOne(n) == IF remaining["s"] >= 1 THEN remaining["s"] - 1 ELSE 0

\* The signal stops at zero.
SignalRemaining(n) == IF remaining["s"] >= n THEN remaining["s"] - n ELSE 0

\* w.t read in an expression: anything else is an error.
TagCanBeRead(w, t) == tags[w][t] \in Values /\ (defs[w][t].valued \/ remaining[w] = 0)

-----------------------------------------------------------------------------
\* Declared wires: outputs and intermediates, with declared tags without value.
Init ==
    /\ defs \in {[w \in Wires |-> [t \in TagNames |->
                    [defined |-> t \in d[w], valued |-> FALSE]]] : d \in [Wires -> SUBSET TagNames]}
    /\ tags = [w \in Wires |-> [t \in TagNames |-> IF defs[w][t].defined THEN None ELSE Absent]]
    /\ remaining = [w \in Wires |-> Cardinality(CellsOf(w))]
    /\ isInit = [w \in Wires |-> FALSE]
    /\ slots = [c \in Slots |-> NoAssigned]
    /\ carried = [w \in Wires |-> [c \in CellsOf(w) |-> {}]]
    /\ late = {}
    /\ exported = [w \in Wires |-> NoTags]
    /\ conds = << >> /\ ids = 0
    /\ verdict = "running"

\* The cells cs of slots are assigned: rejected when one of them may not be.
WriteSlots(cs) ==
    IF \E c \in cs : Rejects(slots[c], CurrentAssignment)
    THEN verdict' = "rejected" /\ UNCHANGED slots
    ELSE /\ slots' = [c \in Slots |->
                         IF c \in cs THEN AfterAssignment(slots[c], CurrentAssignment) ELSE slots[c]]
         /\ UNCHANGED verdict

\* `<==` is refused inside an unknown if by the type analysis.
Operators == IF conds = << >> THEN {"<==", "<--"} ELSE {"<--"}

Carry(w, cs, new) == [c \in CellsOf(w) |-> IF c \in cs THEN carried[w][c] \cup {new} ELSE carried[w][c]]

\* s[..] <== e, s[..] <-- e: only `<==` hands on the tags of e.
AssignSignal(cs, e, op) ==
    LET new == IF op = "<==" THEN e ELSE NoTags
    IN  /\ tags' = [tags EXCEPT !["s"] = Propagated("s", new)]
        /\ remaining' = [remaining EXCEPT !["s"] = SignalRemaining(Cardinality(cs))]
        /\ isInit' = [isInit EXCEPT !["s"] = TRUE]
        /\ carried' = [carried EXCEPT !["s"] = Carry("s", cs, new)]
        /\ WriteSlots({<<"s", c>> : c \in cs})
        /\ UNCHANGED <<defs, late, exported, conds, ids>>

\* b[i].f[..] <== e: the tags of the field change, those of the bus do not.
AssignField(cs, e, op) ==
    LET new == IF op = "<==" THEN e ELSE NoTags
    IN  /\ tags' = [tags EXCEPT !["f"] = Propagated("f", new)]
        /\ remaining' = [remaining EXCEPT !["f"] = BusRemaining("f", Cardinality(cs))]
        /\ isInit' = [isInit EXCEPT !["f"] = TRUE]
        /\ carried' = [carried EXCEPT !["f"] = Carry("f", cs, new)]
        /\ WriteSlots({<<"f", c>> : c \in cs})
        /\ UNCHANGED <<defs, late, exported, conds, ids>>

\* b[..] <== e or b[..] <-- e, where e is a bus: both hand on the tags of e
\* and of its fields.
AssignBus(is, e, ef) ==
    LET fs == is \X (1 .. FCells)
    IN  /\ tags' = [tags EXCEPT !["b"] = Propagated("b", e), !["f"] = Propagated("f", ef)]
        /\ remaining' = [remaining EXCEPT !["b"] = BusRemaining("b", Cardinality(is)),
                                          !["f"] = BusRemaining("f", FCells * Cardinality(is))]
        /\ isInit' = [isInit EXCEPT !["b"] = TRUE, !["f"] = TRUE]
        /\ carried' = [carried EXCEPT !["b"] = Carry("b", is, e), !["f"] = Carry("f", fs, ef)]
        /\ WriteSlots({<<"f", c>> : c \in fs})
        /\ UNCHANGED <<defs, late, exported, conds, ids>>

Touched(w) == \E c \in CellsOf(w), x \in Slots : x \in Behind(w, c) /\ slots[x].state # "no"

\* A fault: the tag may be valued after the wire has received a value.
AssignTagLate(w, t, v) ==
    IF conds # << >> \/ tags[w][t] \in Values
    THEN verdict' = "rejected" /\ UNCHANGED <<wires, slots, carried, late, exported, conds, ids>>
    ELSE /\ tags' = [tags EXCEPT ![w][t] = v]
         /\ defs' = [defs EXCEPT ![w][t].valued = TRUE]
         /\ late' = IF Touched(w) THEN late \cup {w} ELSE late
         /\ UNCHANGED <<remaining, isInit, slots, carried, exported, conds, ids, verdict>>

\* w.t = v: rejected in an unknown block, after the wire received a value, and
\* when the tag has a value already.
AssignTag(w, t, v) ==
    IF conds # << >> \/ isInit[w] \/ tags[w][t] \in Values
    THEN verdict' = "rejected" /\ UNCHANGED <<wires, slots, carried, late, exported, conds, ids>>
    ELSE /\ tags' = [tags EXCEPT ![w][t] = v]
         /\ defs' = [defs EXCEPT ![w][t].valued = TRUE]
         /\ late' = IF Touched(w) THEN late \cup {w} ELSE late
         /\ UNCHANGED <<remaining, isInit, slots, carried, exported, conds, ids, verdict>>

EnterIf ==
    /\ conds = << >> /\ ids < MaxIfs
    /\ conds' = <<<<ids, TRUE>>>> /\ ids' = ids + 1
    /\ UNCHANGED <<wires, slots, carried, late, exported, verdict>>

EnterElse ==
    /\ conds # << >> /\ conds[1][2]
    /\ conds' = <<<<conds[1][1], FALSE>>>>
    /\ UNCHANGED <<wires, slots, carried, late, exported, ids, verdict>>

EndIf ==
    /\ conds # << >>
    /\ conds' = << >>
    /\ UNCHANGED <<wires, slots, carried, late, exported, ids, verdict>>

\* A fault: the values of tags are exported whether or not the wire is complete.
EndTemplateUnfinished ==
    /\ conds = << >>
    /\ exported' = [w \in Wires |-> [t \in TagNames |->
                       IF tags[w][t] \in Values /\ defs[w][t].defined
                       THEN tags[w][t] ELSE Absent]]
    /\ verdict' = "accepted"
    /\ UNCHANGED <<wires, slots, carried, late, conds, ids>>

\* environment_get_value_tags_signal and _bus: the declared tags that have a
\* value are handed to the parent.
EndTemplate ==
    /\ conds = << >>
    /\ exported' = [w \in Wires |-> [t \in TagNames |->
                       IF TagCanBeRead(w, t) /\ defs[w][t].defined
                       THEN tags[w][t] ELSE Absent]]
    /\ verdict' = "accepted"
    /\ UNCHANGED <<wires, slots, carried, late, conds, ids>>

\* One cell or the whole wire is assigned at a time.
Some(w) == {CellsOf(w)} \cup {{c} : c \in CellsOf(w)}

Next ==
    /\ verdict = "running"
    /\ \/ \E op \in Operators, e \in TagInfo :
            \/ "s" \in Wires /\ \E cs \in Some("s") : AssignSignal(cs, e, op)
            \/ "f" \in Wires /\ \E cs \in Some("f") : AssignField(cs, e, op)
       \/ "b" \in Wires /\ \E is \in Some("b"), e, ef \in TagInfo : AssignBus(is, e, ef)
       \/ \E w \in Wires, t \in TagNames, v \in Values : defs[w][t].defined /\ AssignTag(w, t, v)
       \/ EnterIf \/ EnterElse \/ EndIf \/ EndTemplate

Spec == Init /\ [][Next]_vars

-----------------------------------------------------------------------------
TypeOK ==
    /\ tags \in [Wires -> TagInfo]
    /\ \A w \in Wires : remaining[w] \in 0 .. UsizeRange - 1
    /\ \A w \in Wires, t \in TagNames : defs[w][t].defined => tags[w][t] # Absent
    /\ \A w \in Wires, t \in TagNames : defs[w][t].valued => tags[w][t] \in Values
    /\ verdict \in {"running", "accepted", "rejected"}

\* Not valued by the program itself.
Inherited(w, t) == ~ defs[w][t].valued
Filled(w) == \A c \in CellsOf(w) : carried[w][c] # {}
Clean == verdict # "rejected"

\* A tag that a wire hands on was carried, with the same value, by every
\* expression assigned to the wire so far, unless the program declared it
\* (and then only its value must have been carried) or valued it itself.
VisibleTagsCarried ==
    Clean => \A w \in Wires, t \in TagNames :
        LET v == Visible(w)[t]
        IN  Inherited(w, t) /\ (v \in Values \/ (v = None /\ ~ defs[w][t].defined)) =>
                \A c \in CellsOf(w) : \A e \in carried[w][c] : e[t] = v

\* tags.md: the tags are always inherited.  When every cell has been assigned,
\* by expressions that agree on a tag and its value, the wire hands it on.
AgreedTagsInherited ==
    Clean => \A w \in Wires, t \in TagNames, v \in {None} \cup Values :
        Filled(w) /\ Inherited(w, t) /\ (\A c \in CellsOf(w) : \A e \in carried[w][c] : e[t] = v)
            => Visible(w)[t] = v

\* execute.rs: the value of a tag can be read only when the program valued it
\* or the wire is completely assigned.
ReadableMeansComplete ==
    Clean => \A w \in Wires, t \in TagNames :
        TagCanBeRead(w, t) /\ Inherited(w, t) => Filled(w)

\* The value of a tag is never modified once a cell of the wire, or of one of
\* its fields, has received a value.
TagValuedBeforeWire == late = {}

\* The parent receives no value of a tag that some cell was assigned without.
ExportedTagsCarried ==
    \A w \in Wires, t \in TagNames :
        exported[w][t] # Absent /\ Inherited(w, t) =>
            \A c \in CellsOf(w) : carried[w][c] # {} /\ \A e \in carried[w][c] : e[t] = exported[w][t]

\* Valued tags behave like parameters: once the wire has received a value,
\* further assignments may take the value of a tag away but never change it.
ValuesOnlyLost ==
    \A w \in Wires, t \in TagNames :
        isInit[w] /\ tags[w][t] \in Values => tags'[w][t] \in {tags[w][t], None, Absent}
=============================================================================
