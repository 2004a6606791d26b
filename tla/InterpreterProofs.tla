------------------------- MODULE InterpreterProofs --------------------------
(***************************************************************************)
(* What Interpreter promises of signals, components and tags.  The modules *)
(* of proofs about each of them are taken here with the values that        *)
(* Interpreter gives to their constants.  `running` never changes, so a    *)
(* behaviour of Interpreter is one of the part that runs, and has the      *)
(* properties that are proved of it.                                       *)
(*                                                                         *)
(* A definition has one name in the instance that Interpreter makes and    *)
(* another in that of the proofs; that both mean the same is said first.   *)
(***************************************************************************)
EXTENDS Interpreter, Sequences, TLAPS

Runs(part) == running = part

-----------------------------------------------------------------------------
(***************************************************************************)
(* Signals.                                                                *)
(***************************************************************************)
OneSignals == INSTANCE SignalProofs WITH Signals <- SignalNames, LoopsUnderIf <- FALSE

LEMMA OneSignalsSame ==
    /\ OneTemplate!Init <=> OneSignals!Init
    /\ OneTemplate!Next <=> OneSignals!Next
    /\ OneTemplate!SignalAssignmentAssumption <=> OneSignals!SignalAssignmentAssumption
    /\ OneTemplate!TypeOK <=> OneSignals!TypeOK
    /\ OneTemplate!NeverAssignedTwice <=> OneSignals!NeverAssignedTwice
    /\ OneTemplate!AssignedMeansAlways <=> OneSignals!AssignedMeansAlways
  <1>1. OneTemplate!Init <=> OneSignals!Init
    BY DEF OneTemplate!Init, OneSignals!Init, OneTemplate!NoAssigned,
           OneSignals!NoAssigned
  <1>2. OneTemplate!Next <=> OneSignals!Next
    BY DEF OneTemplate!FirstDifference, OneSignals!FirstDifference,
           OneTemplate!MayMerge, OneSignals!MayMerge, OneTemplate!Merged,
           OneSignals!Merged, OneTemplate!Rejects, OneSignals!Rejects,
           OneTemplate!AfterAssignment, OneSignals!AfterAssignment,
           OneTemplate!NoAssigned, OneSignals!NoAssigned, OneTemplate!Assigned,
           OneSignals!Assigned, OneTemplate!MightAssigned, OneSignals!MightAssigned,
           OneTemplate!Frame, OneSignals!Frame, OneTemplate!Top, OneSignals!Top,
           OneTemplate!InUnknown, OneSignals!InUnknown,
           OneTemplate!CurrentAssignment, OneSignals!CurrentAssignment,
           OneTemplate!AtStatement, OneSignals!AtStatement, OneTemplate!Assign,
           OneSignals!Assign, OneTemplate!PushCondition, OneSignals!PushCondition,
           OneTemplate!PopCondition, OneSignals!PopCondition, OneTemplate!EnterIf,
           OneSignals!EnterIf, OneTemplate!EnterElse, OneSignals!EnterElse,
           OneTemplate!EndIf, OneSignals!EndIf, OneTemplate!EnterWhile,
           OneSignals!EnterWhile, OneTemplate!Testing, OneSignals!Testing,
           OneTemplate!LoopTrue, OneSignals!LoopTrue, OneTemplate!EndIteration,
           OneSignals!EndIteration, OneTemplate!LoopFalse, OneSignals!LoopFalse,
           OneTemplate!LoopUnknown, OneSignals!LoopUnknown,
           OneTemplate!LoopUnknownAgain, OneSignals!LoopUnknownAgain,
           OneTemplate!EndUnknownLoop, OneSignals!EndUnknownLoop,
           OneTemplate!EndTemplate, OneSignals!EndTemplate, OneTemplate!Next,
           OneSignals!Next, OneTemplate!Front, OneSignals!Front, OneTemplate!Last,
           OneSignals!Last
  <1>3. OneTemplate!SignalAssignmentAssumption <=> OneSignals!SignalAssignmentAssumption
    BY DEF OneTemplate!SignalAssignmentAssumption,
           OneSignals!SignalAssignmentAssumption
  <1>4. OneTemplate!TypeOK <=> OneSignals!TypeOK
    BY DEF OneTemplate!TypeOK, OneSignals!TypeOK, OneTemplate!States,
           OneSignals!States
  <1>5. OneTemplate!NeverAssignedTwice <=> OneSignals!NeverAssignedTwice
    BY DEF OneTemplate!NeverAssignedTwice, OneSignals!NeverAssignedTwice,
           OneTemplate!Exclusive, OneSignals!Exclusive
  <1>6. OneTemplate!AssignedMeansAlways <=> OneSignals!AssignedMeansAlways
    BY DEF OneTemplate!AssignedMeansAlways, OneSignals!AssignedMeansAlways
  <1>7. QED
    BY <1>1, <1>2, <1>3, <1>4, <1>5, <1>6

LEMMA OneSignalsStep ==
    ASSUME Runs("signals"), [Next]_vars
    PROVE  [OneSignals!Next]_(OneSignals!vars) /\ Runs("signals")'
  <1>1. CASE Next
    BY <1>1, OneSignalsSame DEF Next, Runs
  <1>2. CASE UNCHANGED vars
    BY <1>2 DEF vars, OneSignals!vars, Runs
  <1>3. QED
    BY <1>1, <1>2

\* A behaviour in which "signals" runs is one of SignalAssignment.
LEMMA OneSignalsRun ==
    Spec /\ Runs("signals") => []Runs("signals") /\ OneSignals!Spec
  <1>1. Init /\ Runs("signals") => OneSignals!Init
    BY OneSignalsSame DEF Init, Runs
  <1>2. Runs("signals") /\ [Next]_vars
          => [OneSignals!Next]_(OneSignals!vars) /\ Runs("signals")'
    BY OneSignalsStep
  <1>3. QED
    BY <1>1, <1>2, PTL DEF Spec, OneSignals!Spec

LEMMA OneSignalsOther ==
    Spec /\ ~ Runs("signals") => []~ Runs("signals")
  <1>1. ~ Runs("signals") /\ [Next]_vars => ~ Runs("signals")'
    BY DEF Next, vars, Runs
  <1>2. QED
    BY <1>1, PTL DEF Spec

LoopSignals == INSTANCE SignalProofs WITH Signals <- SignalNames, LoopsUnderIf <- TRUE

LEMMA LoopSignalsSame ==
    /\ WithLoops!Init <=> LoopSignals!Init
    /\ WithLoops!Next <=> LoopSignals!Next
    /\ WithLoops!SignalAssignmentAssumption <=> LoopSignals!SignalAssignmentAssumption
    /\ WithLoops!ElseFindsItsCondition <=> LoopSignals!ElseFindsItsCondition
  <1>1. WithLoops!Init <=> LoopSignals!Init
    BY DEF WithLoops!Init, LoopSignals!Init, WithLoops!NoAssigned,
           LoopSignals!NoAssigned
  <1>2. WithLoops!Next <=> LoopSignals!Next
    BY DEF WithLoops!FirstDifference, LoopSignals!FirstDifference,
           WithLoops!MayMerge, LoopSignals!MayMerge, WithLoops!Merged,
           LoopSignals!Merged, WithLoops!Rejects, LoopSignals!Rejects,
           WithLoops!AfterAssignment, LoopSignals!AfterAssignment,
           WithLoops!NoAssigned, LoopSignals!NoAssigned, WithLoops!Assigned,
           LoopSignals!Assigned, WithLoops!MightAssigned, LoopSignals!MightAssigned,
           WithLoops!Frame, LoopSignals!Frame, WithLoops!Top, LoopSignals!Top,
           WithLoops!InUnknown, LoopSignals!InUnknown, WithLoops!CurrentAssignment,
           LoopSignals!CurrentAssignment, WithLoops!AtStatement,
           LoopSignals!AtStatement, WithLoops!Assign, LoopSignals!Assign,
           WithLoops!PushCondition, LoopSignals!PushCondition,
           WithLoops!PopCondition, LoopSignals!PopCondition, WithLoops!EnterIf,
           LoopSignals!EnterIf, WithLoops!EnterElse, LoopSignals!EnterElse,
           WithLoops!EndIf, LoopSignals!EndIf, WithLoops!EnterWhile,
           LoopSignals!EnterWhile, WithLoops!Testing, LoopSignals!Testing,
           WithLoops!LoopTrue, LoopSignals!LoopTrue, WithLoops!EndIteration,
           LoopSignals!EndIteration, WithLoops!LoopFalse, LoopSignals!LoopFalse,
           WithLoops!LoopUnknown, LoopSignals!LoopUnknown,
           WithLoops!LoopUnknownAgain, LoopSignals!LoopUnknownAgain,
           WithLoops!EndUnknownLoop, LoopSignals!EndUnknownLoop,
           WithLoops!EndTemplate, LoopSignals!EndTemplate, WithLoops!Next,
           LoopSignals!Next, WithLoops!Front, LoopSignals!Front, WithLoops!Last,
           LoopSignals!Last
  <1>3. WithLoops!SignalAssignmentAssumption <=> LoopSignals!SignalAssignmentAssumption
    BY DEF WithLoops!SignalAssignmentAssumption,
           LoopSignals!SignalAssignmentAssumption
  <1>4. WithLoops!ElseFindsItsCondition <=> LoopSignals!ElseFindsItsCondition
    BY DEF WithLoops!ElseFindsItsCondition, LoopSignals!ElseFindsItsCondition
  <1>5. QED
    BY <1>1, <1>2, <1>3, <1>4

LEMMA LoopSignalsStep ==
    ASSUME Runs("loops"), [Next]_vars
    PROVE  [LoopSignals!Next]_(LoopSignals!vars) /\ Runs("loops")'
  <1>1. CASE Next
    BY <1>1, LoopSignalsSame DEF Next, Runs
  <1>2. CASE UNCHANGED vars
    BY <1>2 DEF vars, LoopSignals!vars, Runs
  <1>3. QED
    BY <1>1, <1>2

\* A behaviour in which "loops" runs is one of SignalAssignment.
LEMMA LoopSignalsRun ==
    Spec /\ Runs("loops") => []Runs("loops") /\ LoopSignals!Spec
  <1>1. Init /\ Runs("loops") => LoopSignals!Init
    BY LoopSignalsSame DEF Init, Runs
  <1>2. Runs("loops") /\ [Next]_vars
          => [LoopSignals!Next]_(LoopSignals!vars) /\ Runs("loops")'
    BY LoopSignalsStep
  <1>3. QED
    BY <1>1, <1>2, PTL DEF Spec, LoopSignals!Spec

LEMMA LoopSignalsOther ==
    Spec /\ ~ Runs("loops") => []~ Runs("loops")
  <1>1. ~ Runs("loops") /\ [Next]_vars => ~ Runs("loops")'
    BY DEF Next, vars, Runs
  <1>2. QED
    BY <1>1, PTL DEF Spec

\* What the interpreter accepts assigns no signal twice in any run, a signal taken as
\* assigned has a value in every run, and an else always finds the condition it negates
\* (perform_signal_assignment and the conditions_state of execute.rs), for every set of
\* signals, every bound and every program.
THEOREM SignalsOnce == Spec => []SignalsAssignedOnce
  <1>1. OneSignals!SignalAssignmentAssumption /\ LoopSignals!SignalAssignmentAssumption
    BY InterpreterAssumption, OneSignalsSame
       DEF OneSignals!SignalAssignmentAssumption, LoopSignals!SignalAssignmentAssumption
  <1>2. OneSignals!Spec => []OneSignals!TypeOK
    BY <1>1, OneSignals!SignalTypeOK
  <1>3. OneSignals!Spec => []OneSignals!NeverAssignedTwice
    BY <1>1, OneSignals!AssignedOnce
  <1>4. OneSignals!Spec => []OneSignals!AssignedMeansAlways
    BY <1>1, OneSignals!AssignedAlways
  <1>5. LoopSignals!Spec => []LoopSignals!ElseFindsItsCondition
    BY <1>1, LoopSignals!ElseNeverPanics
  <1>6. /\ ~ Runs("loops")
        /\ Runs("signals") => /\ OneSignals!TypeOK /\ OneSignals!NeverAssignedTwice
                              /\ OneSignals!AssignedMeansAlways
        => SignalsAssignedOnce
    BY OneSignalsSame DEF SignalsAssignedOnce, Runs
  <1>7. Runs("loops") /\ LoopSignals!ElseFindsItsCondition => SignalsAssignedOnce
    BY LoopSignalsSame DEF SignalsAssignedOnce, Runs
  <1>8. QED
    BY <1>2, <1>3, <1>4, <1>5, <1>6, <1>7, OneSignalsRun, OneSignalsOther, LoopSignalsRun,
       LoopSignalsOther, PTL

-----------------------------------------------------------------------------
(***************************************************************************)
(* Components.                                                             *)
(***************************************************************************)
ByName == INSTANCE ComponentProofs
            WITH Signals <- NamedInputs.signals, Buses <- NamedInputs.buses,
                 Size <- NamedInputs.size, Tagged <- NamedInputs.tagged,
                 Anonymous <- FALSE, MaxIfs <- 0, MaxWrites <- MaxNamedWrites

LEMMA ByNameNext == Named!Next <=> ByName!Next
  <1>1. Named!InputNames = ByName!InputNames
    BY DEF Named!InputNames, ByName!InputNames
  <1>2. Named!Places = ByName!Places
    BY DEF Named!Places, ByName!Places, Named!Cells, ByName!Cells, Named!PlacesOf,
           ByName!PlacesOf, Named!InputNames, ByName!InputNames
  <1>3. Named!BusCells = ByName!BusCells
    BY DEF Named!BusCells, ByName!BusCells, Named!Cells, ByName!Cells,
           Named!InputNames, ByName!InputNames
  <1>4. Named!Fresh = ByName!Fresh
    BY DEF Named!Fresh, ByName!Fresh, Named!NoAssigned, ByName!NoAssigned,
           Named!BusCells, ByName!BusCells, Named!Places, ByName!Places, Named!Cells,
           ByName!Cells, Named!PlacesOf, ByName!PlacesOf, Named!InputNames,
           ByName!InputNames
  <1>5. \A a : Named!Target(a) = ByName!Target(a)
    BY DEF Named!Target, ByName!Target, Named!PlacesOf, ByName!PlacesOf
  <1>6. \A a : Named!Required(a) = ByName!Required(a)
    BY DEF Named!Required, ByName!Required
  <1>7. \A a : Named!AssignmentStateOf(a) = ByName!AssignmentStateOf(a)
    BY DEF Named!AssignmentStateOf, ByName!AssignmentStateOf, Named!Assigned,
           ByName!Assigned, Named!MightAssigned, ByName!MightAssigned
  <1>8. \A st, new : Named!AfterAssignment(st, new) = ByName!AfterAssignment(st, new)
    BY DEF Named!AfterAssignment, ByName!AfterAssignment, Named!Merged,
           ByName!Merged, Named!MayMerge, ByName!MayMerge, Named!FirstDifference,
           ByName!FirstDifference, Named!Assigned, ByName!Assigned,
           Named!MightAssigned, ByName!MightAssigned, Named!Front, ByName!Front
  <1>9. \A st, new : (Named!Rejects(st, new) <=> ByName!Rejects(st, new))
    BY DEF Named!Rejects, ByName!Rejects, Named!MayMerge, ByName!MayMerge,
           Named!FirstDifference, ByName!FirstDifference
  <1>10. \A S : Named!Cardinality(S) = ByName!Cardinality(S)
    BY DEF Named!Cardinality, ByName!Cardinality, Named!IsFiniteSet,
           ByName!IsFiniteSet
  <1>11. \A c, a, n : Named!Counted(c, a, n) = ByName!Counted(c, a, n)
    BY DEF Named!Counted, ByName!Counted
  <1>12. \A c, a : Named!AssignPlaces(c, a) = ByName!AssignPlaces(c, a)
    BY <1>2, <1>5, <1>7, <1>8, <1>9, Zenon DEF Named!AssignPlaces, ByName!AssignPlaces
  <1>13. \A c, a : Named!ApplySignal(c, a) = ByName!ApplySignal(c, a)
    BY <1>12, <1>11, <1>10 DEF Named!ApplySignal, ByName!ApplySignal
  <1>14. \A c, a : Named!ApplyBus(c, a) = ByName!ApplyBus(c, a)
    <2> TAKE c, a
    <2>1. Named!AssignPlaces(c, a) = ByName!AssignPlaces(c, a)
      BY <1>12
    <2>2. Named!Counted(c, a, Named!Cardinality(a.cells))
          = ByName!Counted(c, a, ByName!Cardinality(a.cells))
      BY <1>11, <1>10
    <2>3. QED
      BY <2>1, <2>2, <1>3 DEF Named!ApplyBus, ByName!ApplyBus
  <1>15. \A c, a : Named!ApplyField(c, a) = ByName!ApplyField(c, a)
    <2> TAKE c, a
    <2>1. Named!AssignPlaces(c, a) = ByName!AssignPlaces(c, a)
      BY <1>12
    <2>2. Named!Counted(c, a, 1)
          = ByName!Counted(c, a, 1)
      BY <1>11
    <2>3. QED
      BY <2>1, <2>2, <1>3 DEF Named!ApplyField, ByName!ApplyField
  <1>16. \A c, a : Named!Apply(c, a) = ByName!Apply(c, a)
    BY <1>13, <1>14, <1>15 DEF Named!Apply, ByName!Apply
  <1>17. \A c, as : Named!ReplayList(c, as) = ByName!ReplayList(c, as)
    <2> TAKE c, as
    <2>1. \A f : [n \in 0 .. Len(as) |-> IF n = 0 THEN c ELSE Named!Apply(f[n - 1], as[n])]
                = [n \in 0 .. Len(as) |-> IF n = 0 THEN c ELSE ByName!Apply(f[n - 1], as[n])]
      BY <1>16, Zenon
    <2>2. (CHOOSE f : f = [n \in 0 .. Len(as) |-> IF n = 0 THEN c ELSE Named!Apply(f[n - 1], as[n])])
          = (CHOOSE f : f = [n \in 0 .. Len(as) |-> IF n = 0 THEN c ELSE ByName!Apply(f[n - 1], as[n])])
      BY <2>1, Zenon
    <2>3. QED
      BY <2>2, Zenon DEF Named!ReplayList, ByName!ReplayList
  <1>18. \A d : Named!Replay(d) = ByName!Replay(d)
    BY <1>4, <1>17 DEF Named!Replay, ByName!Replay
  <1>19. \A d, a : Named!Delayed(d, a) = ByName!Delayed(d, a)
    BY DEF Named!Delayed, ByName!Delayed, Named!ListOf, ByName!ListOf
  <1>20. \A a : (Named!WellFormed(a) <=> ByName!WellFormed(a))
    BY <1>6, <1>10 DEF Named!WellFormed, ByName!WellFormed, Named!Cells, ByName!Cells
  <1>21. \A a : (Named!TagsAgree(a) <=> ByName!TagsAgree(a))
    BY <1>6 DEF Named!TagsAgree, ByName!TagsAgree
  <1>22. Named!Assignments = ByName!Assignments
    BY <1>1 DEF Named!Assignments, ByName!Assignments, Named!Cells, ByName!Cells
  <1>23. \A a : Named!AfterInput(a) = ByName!AfterInput(a)
    BY <1>16, <1>18, <1>19 DEF Named!AfterInput, ByName!AfterInput
  <1>24. \A a : (Named!AssignInput(a) <=> ByName!AssignInput(a))
    <2> TAKE a
    <2>1. /\ Named!TagsAgree(a) <=> ByName!TagsAgree(a)
          /\ Named!Required(a) = ByName!Required(a)
          /\ Named!Target(a) = ByName!Target(a)
          /\ Named!AfterInput(a) = ByName!AfterInput(a)
          /\ Named!Delayed(delayed, a) = ByName!Delayed(delayed, a)
      BY <1>21, <1>6, <1>5, <1>23, <1>19
    <2>2. CASE phase = "none" \/ ~ Named!TagsAgree(a)
      BY <2>1, <2>2, Zenon
         DEF Named!AssignInput, ByName!AssignInput, Named!SetComponent,
             ByName!SetComponent, Named!Running, ByName!Running, Named!Reject,
             ByName!Reject, Named!Ready, ByName!Ready, Named!NothingDelayed,
             ByName!NothingDelayed, Named!component, ByName!component
    <2>3. CASE ~ (phase = "none" \/ ~ Named!TagsAgree(a))
      BY <2>1, <2>3, <1>2, Zenon
         DEF Named!AssignInput, ByName!AssignInput, Named!SetComponent,
             ByName!SetComponent, Named!Running, ByName!Running, Named!Reject,
             ByName!Reject, Named!Ready, ByName!Ready, Named!NothingDelayed,
             ByName!NothingDelayed, Named!component, ByName!component
    <2>4. QED
      BY <2>2, <2>3
  <1>25. (Named!Assign <=> ByName!Assign)
    BY <1>24, <1>20, <1>22, <1>10, <1>2 DEF Named!Assign, ByName!Assign
  <1>26. (Named!Create <=> ByName!Create)
    BY <1>4, <1>1, <1>2 DEF Named!Create, ByName!Create, Named!Running, ByName!Running, Named!Reject,
           ByName!Reject, Named!Ready, ByName!Ready, Named!NothingDelayed,
           ByName!NothingDelayed, Named!component, ByName!component
  <1>27. /\ Named!ReadOutput <=> ByName!ReadOutput
         /\ Named!EnterIf <=> ByName!EnterIf
         /\ Named!EnterElse <=> ByName!EnterElse
         /\ Named!EndIf <=> ByName!EndIf
         /\ Named!EndTemplate <=> ByName!EndTemplate
    BY <1>1 DEF Named!ReadOutput, ByName!ReadOutput, Named!EnterIf, ByName!EnterIf,
           Named!EnterElse, ByName!EnterElse, Named!EndIf, ByName!EndIf,
           Named!EndTemplate, ByName!EndTemplate, Named!Running, ByName!Running,
           Named!Reject, ByName!Reject, Named!component, ByName!component
  <1>28. QED
    BY <1>26, <1>25, <1>27 DEF Named!Next, ByName!Next

LEMMA ByNameSame ==
    /\ Named!Init <=> ByName!Init
    /\ Named!ComponentAssumption <=> ByName!ComponentAssumption
    /\ Named!TypeOK <=> ByName!TypeOK
    /\ Named!OutputsNeedInputs <=> ByName!OutputsNeedInputs
    /\ Named!CountersDoNotWrap <=> ByName!CountersDoNotWrap
    /\ Named!DelayedAssignmentsApplied <=> ByName!DelayedAssignmentsApplied
    /\ Named!TagsOfOneInstance <=> ByName!TagsOfOneInstance
  <1>1. Named!Init <=> ByName!Init
    BY DEF Named!Init, ByName!Init, Named!Fresh, ByName!Fresh, Named!NothingDelayed,
           ByName!NothingDelayed, Named!NoAssigned, ByName!NoAssigned,
           Named!BusCells, ByName!BusCells, Named!Places, ByName!Places, Named!Cells,
           ByName!Cells, Named!PlacesOf, ByName!PlacesOf, Named!InputNames,
           ByName!InputNames
  <1>2. Named!ComponentAssumption <=> ByName!ComponentAssumption
    BY DEF Named!ComponentAssumption, ByName!ComponentAssumption
  <1>3. Named!TypeOK <=> ByName!TypeOK
    BY DEF Named!TypeOK, ByName!TypeOK, Named!NothingDelayed, ByName!NothingDelayed,
           Named!BusCells, ByName!BusCells, Named!Places, ByName!Places, Named!Cells,
           ByName!Cells, Named!PlacesOf, ByName!PlacesOf, Named!InputNames,
           ByName!InputNames
  <1>4. Named!OutputsNeedInputs <=> ByName!OutputsNeedInputs
    BY DEF Named!OutputsNeedInputs, ByName!OutputsNeedInputs, Named!Places,
           ByName!Places, Named!Cells, ByName!Cells, Named!PlacesOf, ByName!PlacesOf,
           Named!InputNames, ByName!InputNames
  <1>5. Named!CountersDoNotWrap <=> ByName!CountersDoNotWrap
    BY DEF Named!CountersDoNotWrap, ByName!CountersDoNotWrap, Named!Accepted,
           ByName!Accepted, Named!InputNames, ByName!InputNames
  <1>6. Named!DelayedAssignmentsApplied <=> ByName!DelayedAssignmentsApplied
    BY DEF Named!DelayedAssignmentsApplied, ByName!DelayedAssignmentsApplied,
           Named!Accepted, ByName!Accepted, Named!Places, ByName!Places, Named!Cells,
           ByName!Cells, Named!PlacesOf, ByName!PlacesOf, Named!InputNames,
           ByName!InputNames
  <1>7. Named!TagsOfOneInstance <=> ByName!TagsOfOneInstance
    BY DEF Named!TagsOfOneInstance, ByName!TagsOfOneInstance, Named!Accepted,
           ByName!Accepted
  <1>8. QED
    BY <1>1, <1>2, <1>3, <1>4, <1>5, <1>6, <1>7

LEMMA ByNameStep ==
    ASSUME Runs("component"), [Next]_vars
    PROVE  [ByName!Next]_(ByName!vars) /\ Runs("component")'
  <1>1. CASE Next
    BY <1>1, ByNameNext DEF Next, Runs
  <1>2. CASE UNCHANGED vars
    BY <1>2 DEF vars, ByName!vars, Runs, ByName!vars, ByName!component
  <1>3. QED
    BY <1>1, <1>2

\* A behaviour in which "component" runs is one of Component.
LEMMA ByNameRun ==
    Spec /\ Runs("component") => []Runs("component") /\ ByName!Spec
  <1>1. Init /\ Runs("component") => ByName!Init
    BY ByNameSame DEF Init, Runs
  <1>2. Runs("component") /\ [Next]_vars
          => [ByName!Next]_(ByName!vars) /\ Runs("component")'
    BY ByNameStep
  <1>3. QED
    BY <1>1, <1>2, PTL DEF Spec, ByName!Spec

LEMMA ByNameOther ==
    Spec /\ ~ Runs("component") => []~ Runs("component")
  <1>1. ~ Runs("component") /\ [Next]_vars => ~ Runs("component")'
    BY DEF Next, vars, Runs
  <1>2. QED
    BY <1>1, PTL DEF Spec

Nameless == INSTANCE ComponentProofs
              WITH Signals <- AnonymousInputs.signals, Buses <- AnonymousInputs.buses,
                   Size <- AnonymousInputs.size, Tagged <- AnonymousInputs.tagged,
                   Anonymous <- TRUE, MaxWrites <- MaxAnonymousWrites

LEMMA NamelessNext == UnderIfs!Next <=> Nameless!Next
  <1>1. UnderIfs!InputNames = Nameless!InputNames
    BY DEF UnderIfs!InputNames, Nameless!InputNames
  <1>2. UnderIfs!Places = Nameless!Places
    BY DEF UnderIfs!Places, Nameless!Places, UnderIfs!Cells, Nameless!Cells,
           UnderIfs!PlacesOf, Nameless!PlacesOf, UnderIfs!InputNames,
           Nameless!InputNames
  <1>3. UnderIfs!BusCells = Nameless!BusCells
    BY DEF UnderIfs!BusCells, Nameless!BusCells, UnderIfs!Cells, Nameless!Cells,
           UnderIfs!InputNames, Nameless!InputNames
  <1>4. UnderIfs!Fresh = Nameless!Fresh
    BY DEF UnderIfs!Fresh, Nameless!Fresh, UnderIfs!NoAssigned, Nameless!NoAssigned,
           UnderIfs!BusCells, Nameless!BusCells, UnderIfs!Places, Nameless!Places,
           UnderIfs!Cells, Nameless!Cells, UnderIfs!PlacesOf, Nameless!PlacesOf,
           UnderIfs!InputNames, Nameless!InputNames
  <1>5. \A a : UnderIfs!Target(a) = Nameless!Target(a)
    BY DEF UnderIfs!Target, Nameless!Target, UnderIfs!PlacesOf, Nameless!PlacesOf
  <1>6. \A a : UnderIfs!Required(a) = Nameless!Required(a)
    BY DEF UnderIfs!Required, Nameless!Required
  <1>7. \A a : UnderIfs!AssignmentStateOf(a) = Nameless!AssignmentStateOf(a)
    BY DEF UnderIfs!AssignmentStateOf, Nameless!AssignmentStateOf, UnderIfs!Assigned,
           Nameless!Assigned, UnderIfs!MightAssigned, Nameless!MightAssigned
  <1>8. \A st, new : UnderIfs!AfterAssignment(st, new) = Nameless!AfterAssignment(st, new)
    BY DEF UnderIfs!AfterAssignment, Nameless!AfterAssignment, UnderIfs!Merged,
           Nameless!Merged, UnderIfs!MayMerge, Nameless!MayMerge,
           UnderIfs!FirstDifference, Nameless!FirstDifference, UnderIfs!Assigned,
           Nameless!Assigned, UnderIfs!MightAssigned, Nameless!MightAssigned,
           UnderIfs!Front, Nameless!Front
  <1>9. \A st, new : (UnderIfs!Rejects(st, new) <=> Nameless!Rejects(st, new))
    BY DEF UnderIfs!Rejects, Nameless!Rejects, UnderIfs!MayMerge, Nameless!MayMerge,
           UnderIfs!FirstDifference, Nameless!FirstDifference
  <1>10. \A S : UnderIfs!Cardinality(S) = Nameless!Cardinality(S)
    BY DEF UnderIfs!Cardinality, Nameless!Cardinality, UnderIfs!IsFiniteSet,
           Nameless!IsFiniteSet
  <1>11. \A c, a, n : UnderIfs!Counted(c, a, n) = Nameless!Counted(c, a, n)
    BY DEF UnderIfs!Counted, Nameless!Counted
  <1>12. \A c, a : UnderIfs!AssignPlaces(c, a) = Nameless!AssignPlaces(c, a)
    BY <1>2, <1>5, <1>7, <1>8, <1>9, Zenon DEF UnderIfs!AssignPlaces, Nameless!AssignPlaces
  <1>13. \A c, a : UnderIfs!ApplySignal(c, a) = Nameless!ApplySignal(c, a)
    BY <1>12, <1>11, <1>10 DEF UnderIfs!ApplySignal, Nameless!ApplySignal
  <1>14. \A c, a : UnderIfs!ApplyBus(c, a) = Nameless!ApplyBus(c, a)
    <2> TAKE c, a
    <2>1. UnderIfs!AssignPlaces(c, a) = Nameless!AssignPlaces(c, a)
      BY <1>12
    <2>2. UnderIfs!Counted(c, a, UnderIfs!Cardinality(a.cells))
          = Nameless!Counted(c, a, Nameless!Cardinality(a.cells))
      BY <1>11, <1>10
    <2>3. QED
      BY <2>1, <2>2, <1>3 DEF UnderIfs!ApplyBus, Nameless!ApplyBus
  <1>15. \A c, a : UnderIfs!ApplyField(c, a) = Nameless!ApplyField(c, a)
    <2> TAKE c, a
    <2>1. UnderIfs!AssignPlaces(c, a) = Nameless!AssignPlaces(c, a)
      BY <1>12
    <2>2. UnderIfs!Counted(c, a, 1)
          = Nameless!Counted(c, a, 1)
      BY <1>11
    <2>3. QED
      BY <2>1, <2>2, <1>3 DEF UnderIfs!ApplyField, Nameless!ApplyField
  <1>16. \A c, a : UnderIfs!Apply(c, a) = Nameless!Apply(c, a)
    BY <1>13, <1>14, <1>15 DEF UnderIfs!Apply, Nameless!Apply
  <1>17. \A c, as : UnderIfs!ReplayList(c, as) = Nameless!ReplayList(c, as)
    <2> TAKE c, as
    <2>1. \A f : [n \in 0 .. Len(as) |-> IF n = 0 THEN c ELSE UnderIfs!Apply(f[n - 1], as[n])]
                = [n \in 0 .. Len(as) |-> IF n = 0 THEN c ELSE Nameless!Apply(f[n - 1], as[n])]
      BY <1>16, Zenon
    <2>2. (CHOOSE f : f = [n \in 0 .. Len(as) |-> IF n = 0 THEN c ELSE UnderIfs!Apply(f[n - 1], as[n])])
          = (CHOOSE f : f = [n \in 0 .. Len(as) |-> IF n = 0 THEN c ELSE Nameless!Apply(f[n - 1], as[n])])
      BY <2>1, Zenon
    <2>3. QED
      BY <2>2, Zenon DEF UnderIfs!ReplayList, Nameless!ReplayList
  <1>18. \A d : UnderIfs!Replay(d) = Nameless!Replay(d)
    BY <1>4, <1>17 DEF UnderIfs!Replay, Nameless!Replay
  <1>19. \A d, a : UnderIfs!Delayed(d, a) = Nameless!Delayed(d, a)
    BY DEF UnderIfs!Delayed, Nameless!Delayed, UnderIfs!ListOf, Nameless!ListOf
  <1>20. \A a : (UnderIfs!WellFormed(a) <=> Nameless!WellFormed(a))
    BY <1>6, <1>10 DEF UnderIfs!WellFormed, Nameless!WellFormed, UnderIfs!Cells, Nameless!Cells
  <1>21. \A a : (UnderIfs!TagsAgree(a) <=> Nameless!TagsAgree(a))
    BY <1>6 DEF UnderIfs!TagsAgree, Nameless!TagsAgree
  <1>22. UnderIfs!Assignments = Nameless!Assignments
    BY <1>1 DEF UnderIfs!Assignments, Nameless!Assignments, UnderIfs!Cells,
           Nameless!Cells
  <1>23. \A a : UnderIfs!AfterInput(a) = Nameless!AfterInput(a)
    BY <1>16, <1>18, <1>19 DEF UnderIfs!AfterInput, Nameless!AfterInput
  <1>24. \A a : (UnderIfs!AssignInput(a) <=> Nameless!AssignInput(a))
    <2> TAKE a
    <2>1. /\ UnderIfs!TagsAgree(a) <=> Nameless!TagsAgree(a)
          /\ UnderIfs!Required(a) = Nameless!Required(a)
          /\ UnderIfs!Target(a) = Nameless!Target(a)
          /\ UnderIfs!AfterInput(a) = Nameless!AfterInput(a)
          /\ UnderIfs!Delayed(delayed, a) = Nameless!Delayed(delayed, a)
      BY <1>21, <1>6, <1>5, <1>23, <1>19
    <2>2. CASE phase = "none" \/ ~ UnderIfs!TagsAgree(a)
      BY <2>1, <2>2, Zenon
         DEF UnderIfs!AssignInput, Nameless!AssignInput, UnderIfs!SetComponent,
             Nameless!SetComponent, UnderIfs!Running, Nameless!Running,
             UnderIfs!Reject, Nameless!Reject, UnderIfs!Ready, Nameless!Ready,
             UnderIfs!NothingDelayed, Nameless!NothingDelayed, UnderIfs!component,
             Nameless!component
    <2>3. CASE ~ (phase = "none" \/ ~ UnderIfs!TagsAgree(a))
      BY <2>1, <2>3, <1>2, Zenon
         DEF UnderIfs!AssignInput, Nameless!AssignInput, UnderIfs!SetComponent,
             Nameless!SetComponent, UnderIfs!Running, Nameless!Running,
             UnderIfs!Reject, Nameless!Reject, UnderIfs!Ready, Nameless!Ready,
             UnderIfs!NothingDelayed, Nameless!NothingDelayed, UnderIfs!component,
             Nameless!component
    <2>4. QED
      BY <2>2, <2>3
  <1>25. (UnderIfs!Assign <=> Nameless!Assign)
    BY <1>24, <1>20, <1>22, <1>10, <1>2 DEF UnderIfs!Assign, Nameless!Assign
  <1>26. (UnderIfs!Create <=> Nameless!Create)
    BY <1>4, <1>1, <1>2 DEF UnderIfs!Create, Nameless!Create, UnderIfs!Running, Nameless!Running,
           UnderIfs!Reject, Nameless!Reject, UnderIfs!Ready, Nameless!Ready,
           UnderIfs!NothingDelayed, Nameless!NothingDelayed, UnderIfs!component,
           Nameless!component
  <1>27. /\ UnderIfs!ReadOutput <=> Nameless!ReadOutput
         /\ UnderIfs!EnterIf <=> Nameless!EnterIf
         /\ UnderIfs!EnterElse <=> Nameless!EnterElse
         /\ UnderIfs!EndIf <=> Nameless!EndIf
         /\ UnderIfs!EndTemplate <=> Nameless!EndTemplate
    BY <1>1 DEF UnderIfs!ReadOutput, Nameless!ReadOutput, UnderIfs!EnterIf,
           Nameless!EnterIf, UnderIfs!EnterElse, Nameless!EnterElse, UnderIfs!EndIf,
           Nameless!EndIf, UnderIfs!EndTemplate, Nameless!EndTemplate,
           UnderIfs!Running, Nameless!Running, UnderIfs!Reject, Nameless!Reject,
           UnderIfs!component, Nameless!component
  <1>28. QED
    BY <1>26, <1>25, <1>27 DEF UnderIfs!Next, Nameless!Next

LEMMA NamelessSame ==
    /\ UnderIfs!Init <=> Nameless!Init
    /\ UnderIfs!ComponentAssumption <=> Nameless!ComponentAssumption
    /\ UnderIfs!DelayedAssignmentsApplied <=> Nameless!DelayedAssignmentsApplied
    /\ UnderIfs!PlacesWrittenOnce <=> Nameless!PlacesWrittenOnce
  <1>1. UnderIfs!Init <=> Nameless!Init
    BY DEF UnderIfs!Init, Nameless!Init, UnderIfs!Fresh, Nameless!Fresh,
           UnderIfs!NothingDelayed, Nameless!NothingDelayed, UnderIfs!NoAssigned,
           Nameless!NoAssigned, UnderIfs!BusCells, Nameless!BusCells,
           UnderIfs!Places, Nameless!Places, UnderIfs!Cells, Nameless!Cells,
           UnderIfs!PlacesOf, Nameless!PlacesOf, UnderIfs!InputNames,
           Nameless!InputNames
  <1>2. UnderIfs!ComponentAssumption <=> Nameless!ComponentAssumption
    BY DEF UnderIfs!ComponentAssumption, Nameless!ComponentAssumption
  <1>3. UnderIfs!DelayedAssignmentsApplied <=> Nameless!DelayedAssignmentsApplied
    BY DEF UnderIfs!DelayedAssignmentsApplied, Nameless!DelayedAssignmentsApplied,
           UnderIfs!Accepted, Nameless!Accepted, UnderIfs!Places, Nameless!Places,
           UnderIfs!Cells, Nameless!Cells, UnderIfs!PlacesOf, Nameless!PlacesOf,
           UnderIfs!InputNames, Nameless!InputNames
  <1>4. UnderIfs!PlacesWrittenOnce <=> Nameless!PlacesWrittenOnce
    BY DEF UnderIfs!PlacesWrittenOnce, Nameless!PlacesWrittenOnce, UnderIfs!Accepted,
           Nameless!Accepted, UnderIfs!Places, Nameless!Places, UnderIfs!Cells,
           Nameless!Cells, UnderIfs!PlacesOf, Nameless!PlacesOf, UnderIfs!InputNames,
           Nameless!InputNames
  <1>5. QED
    BY <1>1, <1>2, <1>3, <1>4

LEMMA NamelessStep ==
    ASSUME Runs("component under ifs"), [Next]_vars
    PROVE  [Nameless!Next]_(Nameless!vars) /\ Runs("component under ifs")'
  <1>1. CASE Next
    BY <1>1, NamelessNext DEF Next, Runs
  <1>2. CASE UNCHANGED vars
    BY <1>2 DEF vars, Nameless!vars, Runs, Nameless!vars, Nameless!component
  <1>3. QED
    BY <1>1, <1>2

\* A behaviour in which "component under ifs" runs is one of Component.
LEMMA NamelessRun ==
    Spec /\ Runs("component under ifs") => []Runs("component under ifs") /\ Nameless!Spec
  <1>1. Init /\ Runs("component under ifs") => Nameless!Init
    BY NamelessSame DEF Init, Runs
  <1>2. Runs("component under ifs") /\ [Next]_vars
          => [Nameless!Next]_(Nameless!vars) /\ Runs("component under ifs")'
    BY NamelessStep
  <1>3. QED
    BY <1>1, <1>2, PTL DEF Spec, Nameless!Spec

LEMMA NamelessOther ==
    Spec /\ ~ Runs("component under ifs") => []~ Runs("component under ifs")
  <1>1. ~ Runs("component under ifs") /\ [Next]_vars => ~ Runs("component under ifs")'
    BY DEF Next, vars, Runs
  <1>2. QED
    BY <1>1, PTL DEF Spec

\* Outputs of a component are read only when every input has a value, no assignment is
\* lost while it waits and no double one gets through, and all bring the tags of one
\* instance (ComponentRepresentation), for every template, number of cells and tags.
THEOREM ComponentsSound == Spec => []ComponentsComplete
  <1> DEFINE NamedPart == running = "component" =>
                            /\ Named!TypeOK /\ Named!OutputsNeedInputs
                            /\ Named!CountersDoNotWrap /\ Named!DelayedAssignmentsApplied
                            /\ Named!TagsOfOneInstance
             AnonymousPart == running = "component under ifs" =>
                                /\ UnderIfs!DelayedAssignmentsApplied
                                /\ UnderIfs!PlacesWrittenOnce
  <1>1. ByName!ComponentAssumption /\ Nameless!ComponentAssumption
    BY InterpreterAssumption, ByNameSame, NamelessSame
  <1>2. ByName!Spec => [](/\ ByName!TypeOK
                         /\ ByName!OutputsNeedInputs
                         /\ ByName!CountersDoNotWrap
                         /\ ByName!DelayedAssignmentsApplied
                         /\ ByName!TagsOfOneInstance)
    <2>1. 0 = 0
      OBVIOUS
    <2>2. QED
      BY <1>1, <2>1, ByName!ComponentTypeOK, ByName!InputsAreCounted,
         ByName!DelayedApplied, ByName!OneInstance, PTL
  <1>3. Nameless!Spec => [](/\ Nameless!DelayedAssignmentsApplied
                           /\ Nameless!PlacesWrittenOnce)
    BY <1>1, Nameless!DelayedApplied, Nameless!WrittenOnce, PTL
  <1>4. /\ ~ Runs("component") => NamedPart
        /\ (ByName!TypeOK /\ ByName!OutputsNeedInputs
            /\ ByName!CountersDoNotWrap /\ ByName!DelayedAssignmentsApplied
            /\ ByName!TagsOfOneInstance) => NamedPart
    BY ByNameSame DEF Runs
  <1>5. /\ ~ Runs("component under ifs") => AnonymousPart
        /\ (Nameless!DelayedAssignmentsApplied
            /\ Nameless!PlacesWrittenOnce) => AnonymousPart
    BY NamelessSame DEF Runs
  <1> HIDE DEF NamedPart, AnonymousPart
  <1>6. Spec => []NamedPart /\ []AnonymousPart
    BY <1>2, <1>3, <1>4, <1>5, ByNameRun, ByNameOther,
       NamelessRun, NamelessOther, PTL
  <1>7. NamedPart /\ AnonymousPart => ComponentsComplete
    BY DEF NamedPart, AnonymousPart, ComponentsComplete
  <1>8. QED
    BY <1>6, <1>7, PTL

-----------------------------------------------------------------------------
(***************************************************************************)
(* Tags.                                                                   *)
(***************************************************************************)
SignalTags == INSTANCE TagsProofs WITH Values <- TagValues, Wires <- {"s"}

LEMMA SignalTagsSame ==
    /\ OfSignal!Init <=> SignalTags!Init
    /\ OfSignal!Next <=> SignalTags!Next
    /\ OfSignal!TagsAssumption <=> SignalTags!TagsAssumption
    /\ OfSignal!TypeOK <=> SignalTags!TypeOK
    /\ OfSignal!VisibleTagsCarried <=> SignalTags!VisibleTagsCarried
    /\ OfSignal!AgreedTagsInherited <=> SignalTags!AgreedTagsInherited
    /\ OfSignal!ReadableMeansComplete <=> SignalTags!ReadableMeansComplete
    /\ OfSignal!TagValuedBeforeWire <=> SignalTags!TagValuedBeforeWire
    /\ OfSignal!ExportedTagsCarried <=> SignalTags!ExportedTagsCarried
    /\ OfSignal!ValuesOnlyLost <=> SignalTags!ValuesOnlyLost
  <1>1. OfSignal!Init <=> SignalTags!Init
    BY DEF OfSignal!Init, SignalTags!Init, OfSignal!CellsOf, SignalTags!CellsOf,
           OfSignal!Slots, SignalTags!Slots, OfSignal!NoAssigned,
           SignalTags!NoAssigned, OfSignal!NoTags, SignalTags!NoTags,
           OfSignal!Cardinality, SignalTags!Cardinality, OfSignal!IsFiniteSet,
           SignalTags!IsFiniteSet
  <1>2. OfSignal!Next <=> SignalTags!Next
    BY DEF OfSignal!Next, SignalTags!Next, OfSignal!Operators, SignalTags!Operators,
           OfSignal!TagInfo, SignalTags!TagInfo, OfSignal!Some, SignalTags!Some,
           OfSignal!CellsOf, SignalTags!CellsOf, OfSignal!AssignSignal,
           SignalTags!AssignSignal, OfSignal!AssignField, SignalTags!AssignField,
           OfSignal!AssignBus, SignalTags!AssignBus, OfSignal!AssignTag,
           SignalTags!AssignTag, OfSignal!EnterIf, SignalTags!EnterIf,
           OfSignal!EnterElse, SignalTags!EnterElse, OfSignal!EndIf,
           SignalTags!EndIf, OfSignal!EndTemplate, SignalTags!EndTemplate,
           OfSignal!NoTags, SignalTags!NoTags, OfSignal!Propagated,
           SignalTags!Propagated, OfSignal!SignalRemaining,
           SignalTags!SignalRemaining, OfSignal!BusRemaining,
           SignalTags!BusRemaining, OfSignal!Carry, SignalTags!Carry,
           OfSignal!WriteSlots, SignalTags!WriteSlots, OfSignal!Slots,
           SignalTags!Slots, OfSignal!CurrentAssignment,
           SignalTags!CurrentAssignment, OfSignal!Rejects, SignalTags!Rejects,
           OfSignal!AfterAssignment, SignalTags!AfterAssignment, OfSignal!Merged,
           SignalTags!Merged, OfSignal!MayMerge, SignalTags!MayMerge,
           OfSignal!FirstDifference, SignalTags!FirstDifference, OfSignal!Assigned,
           SignalTags!Assigned, OfSignal!MightAssigned, SignalTags!MightAssigned,
           OfSignal!Touched, SignalTags!Touched, OfSignal!Behind, SignalTags!Behind,
           OfSignal!TagCanBeRead, SignalTags!TagCanBeRead, OfSignal!wires,
           SignalTags!wires, OfSignal!Front, SignalTags!Front, OfSignal!Cardinality,
           SignalTags!Cardinality, OfSignal!IsFiniteSet, SignalTags!IsFiniteSet
  <1>3. OfSignal!TagsAssumption <=> SignalTags!TagsAssumption
    BY DEF OfSignal!TagsAssumption, SignalTags!TagsAssumption
  <1>4. OfSignal!TypeOK <=> SignalTags!TypeOK
    BY DEF OfSignal!TypeOK, SignalTags!TypeOK, OfSignal!TagInfo, SignalTags!TagInfo
  <1>5. OfSignal!VisibleTagsCarried <=> SignalTags!VisibleTagsCarried
    BY DEF OfSignal!VisibleTagsCarried, SignalTags!VisibleTagsCarried,
           OfSignal!Clean, SignalTags!Clean, OfSignal!Visible, SignalTags!Visible,
           OfSignal!Inherited, SignalTags!Inherited, OfSignal!CellsOf,
           SignalTags!CellsOf
  <1>6. OfSignal!AgreedTagsInherited <=> SignalTags!AgreedTagsInherited
    BY DEF OfSignal!AgreedTagsInherited, SignalTags!AgreedTagsInherited,
           OfSignal!Clean, SignalTags!Clean, OfSignal!Visible, SignalTags!Visible,
           OfSignal!Inherited, SignalTags!Inherited, OfSignal!Filled,
           SignalTags!Filled, OfSignal!CellsOf, SignalTags!CellsOf
  <1>7. OfSignal!ReadableMeansComplete <=> SignalTags!ReadableMeansComplete
    BY DEF OfSignal!ReadableMeansComplete, SignalTags!ReadableMeansComplete,
           OfSignal!Clean, SignalTags!Clean, OfSignal!TagCanBeRead,
           SignalTags!TagCanBeRead, OfSignal!Inherited, SignalTags!Inherited,
           OfSignal!Filled, SignalTags!Filled, OfSignal!CellsOf, SignalTags!CellsOf
  <1>8. OfSignal!TagValuedBeforeWire <=> SignalTags!TagValuedBeforeWire
    BY DEF OfSignal!TagValuedBeforeWire, SignalTags!TagValuedBeforeWire
  <1>9. OfSignal!ExportedTagsCarried <=> SignalTags!ExportedTagsCarried
    BY DEF OfSignal!ExportedTagsCarried, SignalTags!ExportedTagsCarried,
           OfSignal!Inherited, SignalTags!Inherited, OfSignal!CellsOf,
           SignalTags!CellsOf
  <1>10. OfSignal!ValuesOnlyLost <=> SignalTags!ValuesOnlyLost
    BY DEF OfSignal!ValuesOnlyLost, SignalTags!ValuesOnlyLost
  <1>11. QED
    BY <1>1, <1>2, <1>3, <1>4, <1>5, <1>6, <1>7, <1>8, <1>9, <1>10

LEMMA SignalTagsStep ==
    ASSUME Runs("tags"), [Next]_vars
    PROVE  [SignalTags!Next]_(SignalTags!vars) /\ Runs("tags")'
  <1>1. CASE Next
    BY <1>1, SignalTagsSame DEF Next, Runs
  <1>2. CASE UNCHANGED vars
    BY <1>2 DEF vars, SignalTags!vars, Runs, SignalTags!wires
  <1>3. QED
    BY <1>1, <1>2

\* A behaviour in which "tags" runs is one of Tags.
LEMMA SignalTagsRun ==
    Spec /\ Runs("tags") => []Runs("tags") /\ SignalTags!Spec
  <1>1. Init /\ Runs("tags") => SignalTags!Init
    BY SignalTagsSame DEF Init, Runs
  <1>2. Runs("tags") /\ [Next]_vars
          => [SignalTags!Next]_(SignalTags!vars) /\ Runs("tags")'
    BY SignalTagsStep
  <1>3. QED
    BY <1>1, <1>2, PTL DEF Spec, SignalTags!Spec

LEMMA SignalTagsOther ==
    Spec /\ ~ Runs("tags") => []~ Runs("tags")
  <1>1. ~ Runs("tags") /\ [Next]_vars => ~ Runs("tags")'
    BY DEF Next, vars, Runs
  <1>2. QED
    BY <1>1, PTL DEF Spec

BusTags == INSTANCE TagsProofs
             WITH Values <- TagValues, Wires <- {"b", "f"}, MaxIfs <- MaxBusIfs

LEMMA BusTagsSame ==
    /\ OfBus!Init <=> BusTags!Init
    /\ OfBus!Next <=> BusTags!Next
    /\ OfBus!TagsAssumption <=> BusTags!TagsAssumption
    /\ OfBus!VisibleTagsCarried <=> BusTags!VisibleTagsCarried
    /\ OfBus!ValuesOnlyLost <=> BusTags!ValuesOnlyLost
  <1>1. OfBus!Init <=> BusTags!Init
    BY DEF OfBus!Init, BusTags!Init, OfBus!CellsOf, BusTags!CellsOf, OfBus!Slots,
           BusTags!Slots, OfBus!NoAssigned, BusTags!NoAssigned, OfBus!NoTags,
           BusTags!NoTags, OfBus!Cardinality, BusTags!Cardinality, OfBus!IsFiniteSet,
           BusTags!IsFiniteSet
  <1>2. OfBus!Next <=> BusTags!Next
    BY DEF OfBus!Next, BusTags!Next, OfBus!Operators, BusTags!Operators,
           OfBus!TagInfo, BusTags!TagInfo, OfBus!Some, BusTags!Some, OfBus!CellsOf,
           BusTags!CellsOf, OfBus!AssignSignal, BusTags!AssignSignal,
           OfBus!AssignField, BusTags!AssignField, OfBus!AssignBus,
           BusTags!AssignBus, OfBus!AssignTag, BusTags!AssignTag, OfBus!EnterIf,
           BusTags!EnterIf, OfBus!EnterElse, BusTags!EnterElse, OfBus!EndIf,
           BusTags!EndIf, OfBus!EndTemplate, BusTags!EndTemplate, OfBus!NoTags,
           BusTags!NoTags, OfBus!Propagated, BusTags!Propagated,
           OfBus!SignalRemaining, BusTags!SignalRemaining, OfBus!BusRemaining,
           BusTags!BusRemaining, OfBus!Carry, BusTags!Carry, OfBus!WriteSlots,
           BusTags!WriteSlots, OfBus!Slots, BusTags!Slots, OfBus!CurrentAssignment,
           BusTags!CurrentAssignment, OfBus!Rejects, BusTags!Rejects,
           OfBus!AfterAssignment, BusTags!AfterAssignment, OfBus!Merged,
           BusTags!Merged, OfBus!MayMerge, BusTags!MayMerge, OfBus!FirstDifference,
           BusTags!FirstDifference, OfBus!Assigned, BusTags!Assigned,
           OfBus!MightAssigned, BusTags!MightAssigned, OfBus!Touched,
           BusTags!Touched, OfBus!Behind, BusTags!Behind, OfBus!TagCanBeRead,
           BusTags!TagCanBeRead, OfBus!wires, BusTags!wires, OfBus!Front,
           BusTags!Front, OfBus!Cardinality, BusTags!Cardinality, OfBus!IsFiniteSet,
           BusTags!IsFiniteSet
  <1>3. OfBus!TagsAssumption <=> BusTags!TagsAssumption
    BY DEF OfBus!TagsAssumption, BusTags!TagsAssumption
  <1>4. OfBus!VisibleTagsCarried <=> BusTags!VisibleTagsCarried
    BY DEF OfBus!VisibleTagsCarried, BusTags!VisibleTagsCarried, OfBus!Clean,
           BusTags!Clean, OfBus!Visible, BusTags!Visible, OfBus!Inherited,
           BusTags!Inherited, OfBus!CellsOf, BusTags!CellsOf
  <1>5. OfBus!ValuesOnlyLost <=> BusTags!ValuesOnlyLost
    BY DEF OfBus!ValuesOnlyLost, BusTags!ValuesOnlyLost
  <1>6. QED
    BY <1>1, <1>2, <1>3, <1>4, <1>5

LEMMA BusTagsStep ==
    ASSUME Runs("bus tags"), [Next]_vars
    PROVE  [BusTags!Next]_(BusTags!vars) /\ Runs("bus tags")'
  <1>1. CASE Next
    BY <1>1, BusTagsSame DEF Next, Runs
  <1>2. CASE UNCHANGED vars
    BY <1>2 DEF vars, BusTags!vars, Runs, BusTags!wires
  <1>3. QED
    BY <1>1, <1>2

\* A behaviour in which "bus tags" runs is one of Tags.
LEMMA BusTagsRun ==
    Spec /\ Runs("bus tags") => []Runs("bus tags") /\ BusTags!Spec
  <1>1. Init /\ Runs("bus tags") => BusTags!Init
    BY BusTagsSame DEF Init, Runs
  <1>2. Runs("bus tags") /\ [Next]_vars
          => [BusTags!Next]_(BusTags!vars) /\ Runs("bus tags")'
    BY BusTagsStep
  <1>3. QED
    BY <1>1, <1>2, PTL DEF Spec, BusTags!Spec

LEMMA BusTagsOther ==
    Spec /\ ~ Runs("bus tags") => []~ Runs("bus tags")
  <1>1. ~ Runs("bus tags") /\ [Next]_vars => ~ Runs("bus tags")'
    BY DEF Next, vars, Runs
  <1>2. QED
    BY <1>1, PTL DEF Spec

\* Tags behave like parameters, in arrays of signals and, as far as it is true of them,
\* in buses (compute_propagated_tags, perform_tag_propagation and
\* environment_get_value_tags_signal), for every set of tags and values and wires of
\* every size.
THEOREM TagsAreParameters == Spec => TagsLikeParameters
  <1> DEFINE SignalPart == running = "tags" =>
                             /\ OfSignal!TypeOK /\ OfSignal!VisibleTagsCarried
                             /\ OfSignal!AgreedTagsInherited /\ OfSignal!ReadableMeansComplete
                             /\ OfSignal!TagValuedBeforeWire /\ OfSignal!ExportedTagsCarried
             BusPart == running = "bus tags" => OfBus!VisibleTagsCarried
             Lost == /\ running = "tags" => OfSignal!ValuesOnlyLost
                     /\ running = "bus tags" => OfBus!ValuesOnlyLost
  <1>1. SignalTags!TagsAssumption /\ BusTags!TagsAssumption
    BY InterpreterAssumption, SignalTagsSame, BusTagsSame
  <1>2. SignalTags!Spec => [](/\ SignalTags!TypeOK /\ SignalTags!VisibleTagsCarried
                              /\ SignalTags!AgreedTagsInherited
                              /\ SignalTags!ReadableMeansComplete
                              /\ SignalTags!TagValuedBeforeWire
                              /\ SignalTags!ExportedTagsCarried)
    <2>1. {"s"} = {"s"}
      OBVIOUS
    <2>2. QED
      BY <1>1, <2>1, SignalTags!SignalTagsSound, PTL
  <1>3. SignalTags!Spec => []SignalTags!TagsInv
    BY <1>1, SignalTags!TagsHold
  <1>4. BusTags!Spec => []BusTags!TagsInv
    BY <1>1, BusTags!TagsHold
  <1>5. /\ ~ Runs("tags") => SignalPart
        /\ (SignalTags!TypeOK /\ SignalTags!VisibleTagsCarried /\ SignalTags!AgreedTagsInherited
            /\ SignalTags!ReadableMeansComplete /\ SignalTags!TagValuedBeforeWire
            /\ SignalTags!ExportedTagsCarried) => SignalPart
    BY SignalTagsSame DEF Runs
  <1>6. (~ Runs("bus tags") => BusPart) /\ (BusTags!TagsInv => BusPart)
    BY <1>1, BusTags!VisibleOf, BusTagsSame DEF Runs
  <1>7. (Runs("tags") => SignalTags!TagsInv) /\ (Runs("bus tags") => BusTags!TagsInv) /\ [Next]_vars
          => [Lost]_vars
    <2>1. ASSUME Runs("tags"), SignalTags!TagsInv, [Next]_vars PROVE OfSignal!ValuesOnlyLost
      BY <1>1, <2>1, SignalTagsStep, SignalTags!LostStep, SignalTagsSame
    <2>2. ASSUME Runs("bus tags"), BusTags!TagsInv, [Next]_vars PROVE OfBus!ValuesOnlyLost
      BY <1>1, <2>2, BusTagsStep, BusTags!LostStep, BusTagsSame
    <2>3. QED
      BY <2>1, <2>2 DEF Runs
  <1> HIDE DEF SignalPart, BusPart, Lost
  <1>8. Spec => []SignalPart /\ []BusPart /\ [][Lost]_vars
    BY <1>2, <1>3, <1>4, <1>5, <1>6, <1>7, SignalTagsRun, SignalTagsOther, BusTagsRun,
       BusTagsOther, PTL DEF Spec
  <1>9. QED
    BY <1>8, PTL DEF TagsLikeParameters, SignalPart, BusPart, Lost
=============================================================================
