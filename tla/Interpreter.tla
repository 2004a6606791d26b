---------------------------- MODULE Interpreter ----------------------------
(***************************************************************************)
(* What the interpreter of circom keeps about the assignments of a         *)
(* template, three things that share no state: the signals assigned under  *)
(* unknown conditions (SignalAssignment), the inputs of a component        *)
(* (Component) and the tags of signals and buses (Tags).  A behaviour is   *)
(* that of one of them, "running", and a variable it has not is off.       *)
(***************************************************************************)
EXTENDS Integers

CONSTANTS SignalNames, MaxIds, MaxDepth, MaxWrites,     \* of SignalAssignment
          NamedInputs, MaxNamedWrites,                  \* of Component
          AnonymousInputs, MaxAnonymousWrites, MaxIfs,
          Fields, TagValues, NoTag,
          TagNames, Absent, None, UsizeRange,           \* of Tags
          SCells, BCells, FCells, MaxBusIfs

VARIABLES running,
          phase, written, conds, counter, slots, frames, path, writes, verdict,
          surely, fieldsLeft, left, tagsLeft, tags, delayed, nextIf, carried,
          defs, remaining, isInit, late, exported, ids

\* ifs and loops, where no loop stands under an `if`, and where some may
OneTemplate == INSTANCE SignalAssignment WITH Signals <- SignalNames, LoopsUnderIf <- FALSE
WithLoops == INSTANCE SignalAssignment WITH Signals <- SignalNames, LoopsUnderIf <- TRUE

\* a component by its name, which no unknown `if` may hold, and an anonymous one
Named == INSTANCE Component
           WITH Signals <- NamedInputs.signals, Buses <- NamedInputs.buses,
                Size <- NamedInputs.size, Tagged <- NamedInputs.tagged,
                Anonymous <- FALSE, MaxIfs <- 0, MaxWrites <- MaxNamedWrites
UnderIfs == INSTANCE Component
              WITH Signals <- AnonymousInputs.signals, Buses <- AnonymousInputs.buses,
                   Size <- AnonymousInputs.size, Tagged <- AnonymousInputs.tagged,
                   Anonymous <- TRUE, MaxWrites <- MaxAnonymousWrites

\* an array of signals; an array of buses and a field of it
OfSignal == INSTANCE Tags WITH Values <- TagValues, Wires <- {"s"}
OfBus == INSTANCE Tags WITH Values <- TagValues, Wires <- {"b", "f"}, MaxIfs <- MaxBusIfs

ASSUME InterpreterAssumption ==
    /\ OneTemplate!SignalAssignmentAssumption
    /\ Named!ComponentAssumption /\ UnderIfs!ComponentAssumption
    /\ OfSignal!TagsAssumption /\ OfBus!TagsAssumption

-----------------------------------------------------------------------------
(* One of them in each behaviour.                                          *)
Off == "off"

SignalsRest ==
    <<phase, written, surely, fieldsLeft, left, tagsLeft, tags, delayed, nextIf,
      carried, defs, remaining, isInit, late, exported, ids>>
SignalsAlone ==
    /\ phase = Off /\ written = Off /\ surely = Off /\ fieldsLeft = Off
    /\ left = Off /\ tagsLeft = Off /\ tags = Off /\ delayed = Off
    /\ nextIf = Off /\ carried = Off /\ defs = Off /\ remaining = Off
    /\ isInit = Off /\ late = Off /\ exported = Off /\ ids = Off

ComponentRest ==
    <<counter, frames, path, writes, defs, remaining, isInit, late, exported, ids>>
ComponentAlone ==
    /\ counter = Off /\ frames = Off /\ path = Off /\ writes = Off
    /\ defs = Off /\ remaining = Off /\ isInit = Off /\ late = Off
    /\ exported = Off /\ ids = Off

TagsRest ==
    <<phase, written, counter, frames, path, writes, surely, fieldsLeft, left,
      tagsLeft, delayed, nextIf>>
TagsAlone ==
    /\ phase = Off /\ written = Off /\ counter = Off /\ frames = Off
    /\ path = Off /\ writes = Off /\ surely = Off /\ fieldsLeft = Off
    /\ left = Off /\ tagsLeft = Off /\ delayed = Off /\ nextIf = Off

vars ==
    <<running, phase, written, conds, counter, slots, frames, path, writes,
      verdict, surely, fieldsLeft, left, tagsLeft, tags, delayed, nextIf,
      carried, defs, remaining, isInit, late, exported, ids>>

Init ==
    \/ running = "signals" /\ OneTemplate!Init /\ SignalsAlone
    \/ running = "loops" /\ WithLoops!Init /\ SignalsAlone
    \/ running = "component" /\ Named!Init /\ ComponentAlone
    \/ running = "component under ifs" /\ UnderIfs!Init /\ ComponentAlone
    \/ running = "tags" /\ OfSignal!Init /\ TagsAlone
    \/ running = "bus tags" /\ OfBus!Init /\ TagsAlone

Next ==
    \/ running = "signals" /\ OneTemplate!Next /\ UNCHANGED <<running, SignalsRest>>
    \/ running = "loops" /\ WithLoops!Next /\ UNCHANGED <<running, SignalsRest>>
    \/ running = "component" /\ Named!Next /\ UNCHANGED <<running, ComponentRest>>
    \/ running = "component under ifs" /\ UnderIfs!Next /\ UNCHANGED <<running, ComponentRest>>
    \/ running = "tags" /\ OfSignal!Next /\ UNCHANGED <<running, TagsRest>>
    \/ running = "bus tags" /\ OfBus!Next /\ UNCHANGED <<running, TagsRest>>

Spec == Init /\ [][Next]_vars

-----------------------------------------------------------------------------
\* execute_signal_declaration to perform_signal_assignment: as long as nothing is
\* rejected no run of the witness generator can assign a signal twice, a signal
\* in the state Assigned gets a value in every run, and the list of conditions is
\* never empty when an else branch negates the last one, although loops take more
\* out of it than they put in.
SignalsAssignedOnce ==
    /\ running = "signals" =>
          OneTemplate!TypeOK /\ OneTemplate!NeverAssignedTwice /\ OneTemplate!AssignedMeansAlways
    /\ running = "loops" => WithLoops!ElseFindsItsCondition

\* "if a signal is assigned twice, a compilation error is generated"
\* (signals.md:82), in templates with a loop under an if.
LoopsAssignOnce == running = "loops" => WithLoops!NeverAssignedTwice

\* ComponentRepresentation: outputs are read only when every input has a value,
\* the counters of missing inputs never go below zero, no assignment is lost or
\* invented while it waits for the tags, its replay lets no double assignment
\* through, and every assignment brings the tag values the template was executed
\* with.
ComponentsComplete ==
    /\ running = "component" =>
          /\ Named!TypeOK
          /\ Named!OutputsNeedInputs
          /\ Named!CountersDoNotWrap
          /\ Named!DelayedAssignmentsApplied
          /\ Named!TagsOfOneInstance
    /\ running = "component under ifs" =>
          UnderIfs!DelayedAssignmentsApplied /\ UnderIfs!PlacesWrittenOnce

\* Tags behave like parameters: a wire hands on a tag only with the value every
\* expression assigned to it carried, hands it on when they agree, lets the value
\* be read only when the wire is complete, exports nothing a cell was assigned
\* without, and once it has received a value loses the value of a tag or keeps it.
TagsLikeParameters ==
    /\ [](running = "tags" =>
            /\ OfSignal!TypeOK
            /\ OfSignal!VisibleTagsCarried
            /\ OfSignal!AgreedTagsInherited
            /\ OfSignal!ReadableMeansComplete
            /\ OfSignal!TagValuedBeforeWire
            /\ OfSignal!ExportedTagsCarried)
    /\ [](running = "bus tags" => OfBus!VisibleTagsCarried)
    /\ [][(running = "tags" => OfSignal!ValuesOnlyLost)
          /\ (running = "bus tags" => OfBus!ValuesOnlyLost)]_vars
=============================================================================
