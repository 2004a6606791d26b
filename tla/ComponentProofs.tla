-------------------------- MODULE ComponentProofs --------------------------
(***************************************************************************)
(* Proofs about the inputs of a component (Component).                     *)
(*                                                                         *)
(* The invariant says what the representation and the history of the       *)
(* program's assignments have to do with each other.  While the template   *)
(* waits for its tags, the three lists hold the assignments executed       *)
(* (Waiting).  From then on the state of each place is accounted for by    *)
(* the assignments made to it: none, one of a branch of an `if`, or some   *)
(* that are in two branches of one (Accounts).  The replay, in whatever    *)
(* order, establishes it, since AccountsNext asks for no order.  Where no  *)
(* `if` is unknown the counters count the cells that miss a value          *)
(* (Counts); under unknown ifs they do not, and nothing is proved of them. *)
(***************************************************************************)
EXTENDS Component, FiniteSetTheorems, SequenceTheorems, WellFoundedInduction, TLAPS

\* The conditions an assignment stands under: none, or a branch of one `if`.
Unders == {<< >>} \cup {<<<<i, b>>>> : i \in 0 .. MaxIfs - 1, b \in BOOLEAN}
SlotStates == [state : {"no", "yes", "might"}, under : Unders]
Given ==
    {a \in [input : InputNames, cells : SUBSET UNION {Cells(i) : i \in InputNames},
            field : {"all"} \cup Fields, tag : TagValues \cup {NoTag}, under : Unders] :
        WellFormed(a)}

Components ==
    [slots : [Places -> SlotStates], surely : SUBSET BusCells,
     fieldsLeft : [BusCells -> SUBSET Fields], left : [InputNames -> Int], ok : BOOLEAN]
Current ==
    [slots |-> slots, surely |-> surely, fieldsLeft |-> fieldsLeft, left |-> left, ok |-> TRUE]

-----------------------------------------------------------------------------
\* In two branches of one `if`.
Exclusive(u, v) == u # << >> /\ v # << >> /\ u[1][1] = v[1][1] /\ u[1][2] # v[1][2]

\* The state of a place to which the assignments X were made, x of them under u[x].
Accounts(st, X, u) ==
    /\ st.state = "no" <=> X = {}
    /\ st.state = "might" => \E x \in X : X = {x} /\ u[x] # << >> /\ st.under = u[x]
    /\ \A x, y \in X : x # y => Exclusive(u[x], u[y])

\* Places in the lists of assignments that wait, and the assignments to p among them.
Lists == {"signals", "buses", "fields"}
InList(d, k) == {k} \X (1 .. Len(d[k]))
Positions(d) == UNION {InList(d, k) : k \in Lists}
UnderOf(d) == [x \in Positions(d) |-> d[x[1]][x[2]].under]
To(d, X, p) == {x \in X : p \in Target(d[x[1]][x[2]])}

\* The assignments executed so far are those that wait.
Waiting(d, w) ==
    \A p \in Places :
        LET X == To(d, Positions(d), p)
        IN  /\ w[p] = << >> => X = {}
            /\ \A i \in 1 .. Len(w[p]) : \E x \in X : UnderOf(d)[x] = w[p][i]
            /\ \A i, j \in 1 .. Len(w[p]) : i # j =>
                   \E x, y \in X : x # y /\ UnderOf(d)[x] = w[p][i] /\ UnderOf(d)[y] = w[p][j]

\* The cells of an input that count as missing.
OpenCells(c, i) ==
    IF i \in Signals THEN {k \in Cells(i) : c.slots[<<i, k, "all">>].state = "no"}
    ELSE {k \in Cells(i) : <<i, k>> \notin c.surely \/ c.fieldsLeft[<<i, k>>] # {}}
Counts(c) ==
    /\ \A i \in InputNames : c.left[i] = Cardinality(OpenCells(c, i))
    /\ \A b \in Buses : \A k \in Cells(b) :
          /\ <<b, k>> \notin c.surely => c.fieldsLeft[<<b, k>>] = Fields
          /\ \A f \in Fields : c.slots[<<b, k, f>>].state = "no" <=> f \in c.fieldsLeft[<<b, k>>]

ComponentType ==
    /\ phase \in {"none", "preinitialized", "initialized"}
    /\ Current \in Components
    /\ tagsLeft \subseteq Tagged /\ tags \in [Tagged -> TagValues \cup {NoTag}]
    /\ delayed \in [Lists -> Seq(Given)]
    /\ conds \in Unders /\ nextIf \in 0 .. MaxIfs
    /\ written \in [Places -> Seq(Unders)] /\ \A x \in carried : x[1] \in Tagged

ComponentInv ==
    /\ ComponentType
    /\ phase = "initialized" => tagsLeft = {} /\ delayed = NothingDelayed
    /\ phase = "preinitialized" => tagsLeft # {} /\ Waiting(delayed, written)
    /\ phase # "initialized" => \A i \in InputNames : left[i] = 0
    /\ phase = "initialized" /\ Accepted =>
          /\ \A p \in Places : Accounts(slots[p], 1 .. Len(written[p]), written[p])
          /\ MaxIfs = 0 => Counts(Current)
    /\ TagsOfOneInstance
    /\ MaxIfs = 0 => OutputsNeedInputs
-----------------------------------------------------------------------------
(***************************************************************************)
(* A place and the assignments made to it.                                 *)
(***************************************************************************)
LEMMA StateOf ==
    ASSUME NEW a, a.under \in Unders
    PROVE  /\ AssignmentStateOf(a) \in SlotStates /\ AssignmentStateOf(a).state # "no"
           /\ AssignmentStateOf(a).under = a.under
           /\ AssignmentStateOf(a).state = "might" <=> a.under # << >>
  BY DEF AssignmentStateOf, Assigned, MightAssigned, SlotStates

\* Conditions of at most one `if` merge into at most one.
LEMMA MergedType ==
    ASSUME NEW u \in Unders, NEW v \in Unders
    PROVE  Merged(u, v) \in SlotStates /\ Merged(u, v).state # "no"
  <1>1. Assigned \in SlotStates /\ MightAssigned(v) \in SlotStates
    BY DEF Assigned, MightAssigned, SlotStates, Unders
  <1>2. ASSUME Len(u) = Len(v), Len(v) # 1
        PROVE  Front(v) \in Unders
    <2>1. v = << >>
      BY <1>2 DEF Unders
    <2>2. Front(v) = << >>
      BY <2>1 DEF Front
    <2>3. QED
      BY <2>2 DEF Unders
  <1>3. ASSUME Len(u) = Len(v), Len(v) # 1
        PROVE  MightAssigned(Front(v)) \in SlotStates
    BY <1>2, <1>3 DEF MightAssigned, SlotStates
  <1>4. Merged(u, v) \in SlotStates
    BY <1>1, <1>3 DEF Merged
  <1>5. Merged(u, v).state # "no"
    BY DEF Merged, Assigned, MightAssigned
  <1>6. QED
    BY <1>4, <1>5

LEMMA AfterType ==
    ASSUME NEW st \in SlotStates, NEW new \in SlotStates, new.state # "no"
    PROVE  AfterAssignment(st, new) \in SlotStates /\ AfterAssignment(st, new).state # "no"
  <1>1. Merged(st.under, new.under) \in SlotStates /\ Merged(st.under, new.under).state # "no"
    <2>1. st.under \in Unders /\ new.under \in Unders
      BY DEF SlotStates
    <2>2. QED
      BY <2>1, MergedType
  <1>2. QED
    BY <1>1 DEF AfterAssignment

\* Two branches that merge are those of one `if`, and together they are sure.
LEMMA BothBranches ==
    ASSUME NEW u \in Unders, NEW v \in Unders, u # << >>, v # << >>, MayMerge(u, v)
    PROVE  Exclusive(u, v) /\ Merged(u, v) = Assigned
  <1>1. PICK i \in 0 .. MaxIfs - 1, b \in BOOLEAN : u = <<<<i, b>>>>
    BY DEF Unders
  <1>2. PICK j \in 0 .. MaxIfs - 1, c \in BOOLEAN : v = <<<<j, c>>>>
    BY DEF Unders
  <1>3. Len(u) = 1 /\ Len(v) = 1 /\ u[1] = <<i, b>> /\ v[1] = <<j, c>>
    BY <1>1, <1>2
  <1>4. FirstDifference(u, v) \in {0, 1} /\ (FirstDifference(u, v) = 1 => u[1] # v[1])
    <2>1. 1 .. (IF Len(u) < Len(v) THEN Len(u) ELSE Len(v)) = {1}
      BY <1>3
    <2>2. QED
      BY <2>1 DEF FirstDifference
  <1>5. FirstDifference(u, v) = 1 /\ u[1][1] = v[1][1]
    BY <1>4 DEF MayMerge
  <1>6. u[1][2] # v[1][2]
    BY <1>3, <1>4, <1>5
  <1>7. QED
    BY <1>3, <1>5, <1>6 DEF Exclusive, Merged

LEMMA AccountsNext ==
    ASSUME NEW st \in SlotStates, NEW a, a.under \in Unders,
           NEW X, NEW u, NEW x, x \notin X, NEW v,
           \A y \in X : u[y] \in Unders /\ v[y] = u[y], v[x] = a.under,
           Accounts(st, X, u), ~ Rejects(st, AssignmentStateOf(a))
    PROVE  Accounts(AfterAssignment(st, AssignmentStateOf(a)), X \cup {x}, v)
  <1> DEFINE new == AssignmentStateOf(a)
  <1>1. new \in SlotStates /\ new.state # "no" /\ new.under = a.under
        /\ (new.state = "might" <=> a.under # << >>)
    BY StateOf
  <1>2. new.state \in {"yes", "might"} /\ st.state \in {"no", "yes", "might"}
    BY <1>1 DEF SlotStates
  <1> HIDE DEF new
  <1>3. CASE st.state = "no"
    <2>1. X = {}
      BY <1>3 DEF Accounts
    <2>2. AfterAssignment(st, new) = new
      BY <1>3 DEF AfterAssignment
    <2>3. QED
      BY <1>1, <2>1, <2>2 DEF Accounts, new
  <1>4. CASE st.state = "might"
    <2>1. PICK y \in X : X = {y} /\ u[y] # << >> /\ st.under = u[y]
      BY <1>4 DEF Accounts
    <2>2. new.state = "might" /\ MayMerge(st.under, new.under)
      BY <1>2, <1>4 DEF Rejects, new
    <2>3. Exclusive(u[y], a.under) /\ Merged(st.under, new.under) = Assigned
      BY <1>1, <2>1, <2>2, BothBranches
    <2>4. AfterAssignment(st, new) = Assigned
      BY <1>4, <2>3 DEF AfterAssignment
    <2>5. Exclusive(v[y], v[x]) /\ Exclusive(v[x], v[y])
      BY <2>1, <2>3 DEF Exclusive
    <2>6. \A z, w \in X \cup {x} : z # w => Exclusive(v[z], v[w])
      BY <2>1, <2>5
    <2>7. QED
      BY <2>1, <2>4, <2>6 DEF Accounts, Assigned, new
  <1>5. CASE st.state = "yes"
    BY <1>5 DEF Rejects
  <1>6. QED
    BY <1>2, <1>3, <1>4, <1>5
-----------------------------------------------------------------------------
(***************************************************************************)
(* The cells and places of an assignment.                                  *)
(***************************************************************************)
LEMMA GivenFacts ==
    ASSUME ComponentAssumption, NEW a \in Given
    PROVE  /\ a.input \in InputNames /\ a.cells \subseteq Cells(a.input) /\ a.cells # {}
           /\ a.field \in {"all"} \cup Fields /\ a.tag \in TagValues \cup {NoTag}
           /\ a.under \in Unders
           /\ a.input \in Signals => a.field = "all"
           /\ a.field # "all" => \E k \in Cells(a.input) : a.cells = {k}
           /\ IsFiniteSet(a.cells) /\ Cardinality(a.cells) \in Nat \ {0}
  <1>1. /\ a.input \in InputNames /\ a.field \in {"all"} \cup Fields
        /\ a.tag \in TagValues \cup {NoTag} /\ a.under \in Unders /\ WellFormed(a)
    BY DEF Given
  <1>2. /\ a.cells \subseteq Cells(a.input) /\ a.cells # {}
        /\ a.input \in Signals => a.field = "all"
        /\ a.field # "all" => Cardinality(a.cells) = 1
    BY <1>1 DEF WellFormed
  <1>3. IsFiniteSet(a.cells)
    <2>1. Size[a.input] \in Nat
      BY <1>1 DEF ComponentAssumption, InputNames
    <2>2. IsFiniteSet(1 .. Size[a.input])
      BY <2>1, FS_Interval
    <2>3. QED
      BY <1>2, <2>2, FS_Subset DEF Cells
  <1>4. Cardinality(a.cells) \in Nat /\ Cardinality(a.cells) # 0
    BY <1>2, <1>3, FS_CardinalityType, FS_EmptySet
  <1>5. ASSUME a.field # "all" PROVE \E k \in Cells(a.input) : a.cells = {k}
    <2>1. PICK k : a.cells = {k}
      BY <1>2, <1>3, <1>5, FS_Singleton
    <2>2. QED
      BY <1>2, <2>1
  <1>6. QED
    BY <1>1, <1>2, <1>3, <1>4, <1>5

LEMMA TargetPlaces ==
    ASSUME ComponentAssumption, NEW a \in Given
    PROVE  Target(a) \subseteq Places
  <1>1. /\ a.input \in InputNames /\ a.cells \subseteq Cells(a.input)
        /\ a.field \in {"all"} \cup Fields
        /\ a.input \in Signals => a.field = "all"
    BY GivenFacts
  <1>2. Target(a) \subseteq PlacesOf(a.input, Cells(a.input))
    BY <1>1 DEF Target, PlacesOf
  <1>3. QED
    BY <1>1, <1>2 DEF Places

-----------------------------------------------------------------------------
(***************************************************************************)
(* An assignment keeps the types.                                          *)
(***************************************************************************)
LEMMA CellsNat ==
    ASSUME ComponentAssumption, NEW i \in InputNames
    PROVE  /\ Size[i] \in Nat /\ Size[i] >= 1
           /\ IsFiniteSet(Cells(i)) /\ Cardinality(Cells(i)) = Size[i]
  <1>1. Size[i] \in Nat /\ Size[i] >= 1
    BY DEF ComponentAssumption, InputNames
  <1>2. QED
    BY <1>1, FS_Interval DEF Cells

LEMMA FreshType == ASSUME ComponentAssumption PROVE Fresh \in Components
  <1>1. NoAssigned \in SlotStates
    BY DEF NoAssigned, SlotStates, Unders
  <1>2. \A i \in InputNames : Size[i] \in Int
    BY CellsNat
  <1>3. QED
    BY <1>1, <1>2 DEF Fresh, Components

\* AssignPlaces and the counters, whatever else changes.
LEMMA PlacesType ==
    ASSUME ComponentAssumption, NEW c \in Components, NEW a \in Given
    PROVE  /\ AssignPlaces(c, a) \in Components
           /\ AssignPlaces(c, a).surely = c.surely /\ AssignPlaces(c, a).left = c.left
           /\ AssignPlaces(c, a).fieldsLeft = c.fieldsLeft
           /\ \A p \in Places : AssignPlaces(c, a).slots[p] =
                  IF p \in Target(a) THEN AfterAssignment(c.slots[p], AssignmentStateOf(a))
                  ELSE c.slots[p]
           /\ AssignPlaces(c, a).ok =>
                  \A p \in Target(a) : ~ Rejects(c.slots[p], AssignmentStateOf(a))
  <1> DEFINE d == AssignPlaces(c, a)
             after == [p \in Places |-> IF p \in Target(a)
                                        THEN AfterAssignment(c.slots[p], AssignmentStateOf(a))
                                        ELSE c.slots[p]]
             fine == c.ok /\ \A p \in Target(a) : ~ Rejects(c.slots[p], AssignmentStateOf(a))
  <1>1. d = [c EXCEPT !.slots = after, !.ok = fine]
    BY DEF AssignPlaces, Components
  <1>2. AssignmentStateOf(a) \in SlotStates /\ AssignmentStateOf(a).state # "no"
    BY GivenFacts, StateOf
  <1>3. after \in [Places -> SlotStates]
    BY <1>2, AfterType DEF Components
  <1>4. fine \in BOOLEAN
    OBVIOUS
  <1> HIDE DEF after, fine
  <1>5. d = [slots |-> after, surely |-> c.surely, fieldsLeft |-> c.fieldsLeft,
             left |-> c.left, ok |-> fine]
    BY <1>1 DEF Components
  <1> HIDE DEF d
  <1>6. /\ d \in Components /\ d.surely = c.surely /\ d.fieldsLeft = c.fieldsLeft
        /\ d.left = c.left /\ d.slots = after /\ d.ok = fine
    BY <1>3, <1>4, <1>5 DEF Components
  <1>7. \A p \in Places : after[p] = IF p \in Target(a)
                                     THEN AfterAssignment(c.slots[p], AssignmentStateOf(a))
                                     ELSE c.slots[p]
    BY DEF after
  <1>8. fine => \A p \in Target(a) : ~ Rejects(c.slots[p], AssignmentStateOf(a))
    BY DEF fine
  <1>9. QED
    BY <1>6, <1>7, <1>8 DEF d

LEMMA CountedType ==
    ASSUME ComponentAssumption, NEW c \in Components, NEW a \in Given, NEW n \in Nat
    PROVE  /\ Counted(c, a, n) \in [InputNames -> Int]
           /\ \A i \in InputNames : Counted(c, a, n)[i] = IF i = a.input /\ c.left[i] # 0
                                                          THEN c.left[i] - n ELSE c.left[i]
  <1>1. a.input \in InputNames /\ c.left \in [InputNames -> Int]
    BY GivenFacts DEF Components
  <1>2. QED
    BY <1>1 DEF Counted

TouchedCells(a) == {<<a.input, k>> : k \in a.cells}

LEMMA TouchedBus ==
    ASSUME ComponentAssumption, NEW a \in Given, a.input \in Buses
    PROVE  TouchedCells(a) \subseteq BusCells
  <1>1. a.cells \subseteq Cells(a.input)
    BY GivenFacts
  <1>2. QED
    BY <1>1 DEF TouchedCells, BusCells

\* What the three kinds of assignments do.
LEMMA SignalEffect ==
    ASSUME ComponentAssumption, NEW c \in Components, c.ok, NEW a \in Given, a.input \in Signals
    PROVE  /\ Apply(c, a) \in Components
           /\ Apply(c, a).surely = c.surely /\ Apply(c, a).fieldsLeft = c.fieldsLeft
           /\ Apply(c, a).left = Counted(c, a, Cardinality(a.cells))
           /\ Apply(c, a).slots = AssignPlaces(c, a).slots /\ Apply(c, a).ok = AssignPlaces(c, a).ok
  <1> DEFINE d == AssignPlaces(c, a)
             n == Counted(c, a, Cardinality(a.cells))
  <1>1. /\ d \in Components /\ d.surely = c.surely /\ d.fieldsLeft = c.fieldsLeft
    BY PlacesType
  <1>2. n \in [InputNames -> Int]
    BY GivenFacts, CountedType
  <1>3. Apply(c, a) = [d EXCEPT !.left = n]
    BY DEF Apply, ApplySignal
  <1> HIDE DEF d, n
  <1>4. QED
    BY <1>1, <1>2, <1>3 DEF Components, d, n

LEMMA BusEffect ==
    ASSUME ComponentAssumption, NEW c \in Components, c.ok, NEW a \in Given,
           a.input \in Buses, a.field = "all"
    PROVE  /\ Apply(c, a) \in Components
           /\ Apply(c, a).surely = IF a.under = << >> THEN c.surely \cup TouchedCells(a) ELSE c.surely
           /\ Apply(c, a).fieldsLeft = [x \in BusCells |-> IF x \in TouchedCells(a) THEN {}
                                                           ELSE c.fieldsLeft[x]]
           /\ Apply(c, a).left = Counted(c, a, Cardinality(a.cells))
           /\ Apply(c, a).slots = AssignPlaces(c, a).slots
           /\ Apply(c, a).ok => AssignPlaces(c, a).ok /\ c.surely \cap TouchedCells(a) = {}
  <1> DEFINE d == AssignPlaces(c, a)
             n == Counted(c, a, Cardinality(a.cells))
             s == IF a.under = << >> THEN c.surely \cup TouchedCells(a) ELSE c.surely
             fl == [x \in BusCells |-> IF x \in TouchedCells(a) THEN {} ELSE c.fieldsLeft[x]]
             good == d.ok /\ c.surely \cap TouchedCells(a) = {}
  <1>1. /\ d \in Components /\ d.surely = c.surely /\ d.fieldsLeft = c.fieldsLeft
    BY PlacesType
  <1>2. n \in [InputNames -> Int]
    BY GivenFacts, CountedType
  <1>3. s \in SUBSET BusCells
    BY TouchedBus DEF Components
  <1>4. fl \in [BusCells -> SUBSET Fields]
    BY DEF Components
  <1>5. good \in BOOLEAN
    OBVIOUS
  <1>6. Apply(c, a) = [d EXCEPT !.ok = good, !.surely = s, !.fieldsLeft = fl, !.left = n]
    <2>1. a.input \notin Signals
      BY DEF ComponentAssumption
    <2>2. d.surely = c.surely /\ d.fieldsLeft = c.fieldsLeft
      BY <1>1
    <2>3. Apply(c, a) = ApplyBus(c, a)
      BY <2>1 DEF Apply
    <2> HIDE DEF n, d
    <2>4. ApplyBus(c, a) = [d EXCEPT !.ok = @ /\ c.surely \cap TouchedCells(a) = {},
                  !.surely = IF a.under = << >> THEN @ \cup TouchedCells(a) ELSE @,
                  !.fieldsLeft = [x \in BusCells |-> IF x \in TouchedCells(a) THEN {} ELSE @[x]],
                  !.left = n]
      BY DEF ApplyBus, TouchedCells, n, d
    <2>5. QED
      BY <1>1, <2>2, <2>3, <2>4 DEF Components
  <1> HIDE DEF d, n, s, fl, good
  <1>7. Apply(c, a) = [slots |-> d.slots, surely |-> s, fieldsLeft |-> fl, left |-> n, ok |-> good]
    BY <1>1, <1>6 DEF Components
  <1>8. d.slots \in [Places -> SlotStates]
    BY <1>1 DEF Components
  <1>9. /\ Apply(c, a) \in Components /\ Apply(c, a).surely = s /\ Apply(c, a).fieldsLeft = fl
        /\ Apply(c, a).left = n /\ Apply(c, a).slots = d.slots /\ Apply(c, a).ok = good
    BY <1>2, <1>3, <1>4, <1>5, <1>7, <1>8 DEF Components
  <1>10. good => d.ok /\ c.surely \cap TouchedCells(a) = {}
    BY DEF good
  <1>11. Apply(c, a).ok => d.ok /\ c.surely \cap TouchedCells(a) = {}
    BY <1>9, <1>10
  <1>12. QED
    BY <1>9, <1>11 DEF d, n, s, fl

\* The fields of buses that miss a value after one of them is assigned.
FieldsAfter(c, a) ==
    [x \in BusCells |-> IF x \in TouchedCells(a) THEN c.fieldsLeft[x] \ {a.field}
                        ELSE c.fieldsLeft[x]]

LEMMA FieldEffect ==
    ASSUME ComponentAssumption, NEW c \in Components, c.ok, NEW a \in Given,
           a.input \in Buses, a.field # "all"
    PROVE  /\ Apply(c, a) \in Components
           /\ Apply(c, a).surely = IF a.under = << >> THEN c.surely \cup TouchedCells(a) ELSE c.surely
           /\ Apply(c, a).fieldsLeft = FieldsAfter(c, a)
           /\ Apply(c, a).left = IF \A x \in TouchedCells(a) : FieldsAfter(c, a)[x] = {}
                                 THEN Counted(c, a, 1) ELSE c.left
           /\ Apply(c, a).slots = AssignPlaces(c, a).slots
           /\ Apply(c, a).ok = AssignPlaces(c, a).ok
  <1> DEFINE d == AssignPlaces(c, a)
             rest == FieldsAfter(c, a)
             n == IF \A x \in TouchedCells(a) : rest[x] = {} THEN Counted(c, a, 1) ELSE c.left
             s == IF a.under = << >> THEN c.surely \cup TouchedCells(a) ELSE c.surely
  <1>1. /\ d \in Components /\ d.surely = c.surely /\ d.fieldsLeft = c.fieldsLeft /\ d.left = c.left
    BY PlacesType
  <1>2. n \in [InputNames -> Int]
    <2>1. Counted(c, a, 1) \in [InputNames -> Int]
      BY CountedType
    <2>2. QED
      BY <2>1 DEF Components
  <1>3. s \in SUBSET BusCells
    BY TouchedBus DEF Components
  <1>4. rest \in [BusCells -> SUBSET Fields]
    BY DEF Components, FieldsAfter
  <1>6. Apply(c, a) = [d EXCEPT !.surely = s, !.fieldsLeft = rest, !.left = n]
    <2>1. a.input \notin Signals
      BY DEF ComponentAssumption
    <2>3. Apply(c, a) = ApplyField(c, a)
      BY <2>1 DEF Apply
    <2> HIDE DEF d
    <2>4. ApplyField(c, a) = [d EXCEPT !.surely = IF a.under = << >> THEN @ \cup TouchedCells(a) ELSE @,
                  !.fieldsLeft = rest,
                  !.left = IF \A x \in TouchedCells(a) : rest[x] = {} THEN Counted(c, a, 1) ELSE @]
      BY DEF ApplyField, FieldsAfter, TouchedCells, d
    <2> HIDE DEF rest
    <2>5. QED
      BY <1>1, <2>3, <2>4 DEF Components
  <1> HIDE DEF d, n, s, rest
  <1>7. Apply(c, a) = [slots |-> d.slots, surely |-> s, fieldsLeft |-> rest, left |-> n, ok |-> d.ok]
    BY <1>1, <1>6 DEF Components
  <1>8. d.slots \in [Places -> SlotStates] /\ d.ok \in BOOLEAN
    BY <1>1 DEF Components
  <1>9. /\ Apply(c, a) \in Components /\ Apply(c, a).surely = s /\ Apply(c, a).fieldsLeft = rest
        /\ Apply(c, a).left = n /\ Apply(c, a).slots = d.slots /\ Apply(c, a).ok = d.ok
    BY <1>2, <1>3, <1>4, <1>7, <1>8 DEF Components
  <1>10. QED
    BY <1>9 DEF d, n, s, rest

\* Every assignment treats the places it assigns alike.
LEMMA ApplyEffect ==
    ASSUME ComponentAssumption, NEW c \in Components, c.ok, NEW a \in Given
    PROVE  /\ Apply(c, a) \in Components
           /\ \A p \in Places : Apply(c, a).slots[p] =
                  IF p \in Target(a) THEN AfterAssignment(c.slots[p], AssignmentStateOf(a))
                  ELSE c.slots[p]
           /\ Apply(c, a).ok =>
                  \A p \in Target(a) : ~ Rejects(c.slots[p], AssignmentStateOf(a))
  <1>1. /\ Apply(c, a) \in Components /\ Apply(c, a).slots = AssignPlaces(c, a).slots
        /\ Apply(c, a).ok => AssignPlaces(c, a).ok
    <2>1. a.input \in Signals \/ (a.input \in Buses /\ a.field = "all")
              \/ (a.input \in Buses /\ a.field # "all")
      BY GivenFacts DEF InputNames
    <2>2. CASE a.input \in Signals
      BY <2>2, SignalEffect
    <2>3. CASE a.input \in Buses /\ a.field = "all"
      BY <2>3, BusEffect
    <2>4. CASE a.input \in Buses /\ a.field # "all"
      BY <2>4, FieldEffect
    <2>5. QED
      BY <2>1, <2>2, <2>3, <2>4
  <1> DEFINE d == AssignPlaces(c, a)
             new == AssignmentStateOf(a)
  <1>2. /\ \A p \in Places : d.slots[p] = IF p \in Target(a) THEN AfterAssignment(c.slots[p], new)
                                           ELSE c.slots[p]
        /\ d.ok => \A p \in Target(a) : ~ Rejects(c.slots[p], new)
    BY PlacesType
  <1> HIDE DEF d, new
  <1>3. Apply(c, a).slots = d.slots /\ (Apply(c, a).ok => d.ok)
    BY <1>1 DEF d
  <1>4. /\ \A p \in Places : Apply(c, a).slots[p] =
              IF p \in Target(a) THEN AfterAssignment(c.slots[p], new) ELSE c.slots[p]
        /\ Apply(c, a).ok => \A p \in Target(a) : ~ Rejects(c.slots[p], new)
    BY <1>2, <1>3
  <1>5. QED
    BY <1>1, <1>4 DEF new

LEMMA ApplyType ==
    ASSUME ComponentAssumption, NEW c \in Components, NEW a \in Given
    PROVE  Apply(c, a) \in Components
  <1>1. CASE c.ok
    BY <1>1, ApplyEffect
  <1>2. CASE ~ c.ok
    BY <1>2 DEF Apply
  <1>3. QED
    BY <1>1, <1>2
-----------------------------------------------------------------------------
(***************************************************************************)
(* The counters of missing inputs, when no `if` is unknown.                *)
(***************************************************************************)
LEMMA FewerOpen ==
    ASSUME ComponentAssumption, NEW i \in InputNames, NEW S \in SUBSET Cells(i), NEW T \in SUBSET S
    PROVE  /\ Cardinality(S) \in Nat /\ (S # {} => Cardinality(S) # 0)
           /\ Cardinality(S \ T) = Cardinality(S) - Cardinality(T)
  <1>1. IsFiniteSet(S)
    BY CellsNat, FS_Subset
  <1>2. Cardinality(S) \in Nat /\ (S # {} => Cardinality(S) # 0)
    BY <1>1, FS_CardinalityType, FS_EmptySet
  <1>3. Cardinality(S \ T) = Cardinality(S) - Cardinality(S \cap T)
    BY <1>1, FS_Difference
  <1>4. S \cap T = T
    OBVIOUS
  <1>5. QED
    BY <1>2, <1>3, <1>4

LEMMA FreshCounts == ASSUME ComponentAssumption PROVE Counts(Fresh)
  <1>1. \A p \in Places : Fresh.slots[p].state = "no"
    BY DEF Fresh, NoAssigned
  <1>2. /\ Fresh.surely = {} /\ Fresh.fieldsLeft = [x \in BusCells |-> Fields]
        /\ Fresh.left = [i \in InputNames |-> Size[i]]
    BY DEF Fresh
  <1>3. \A i \in Signals : \A k \in Cells(i) : <<i, k, "all">> \in Places
    BY DEF Places, PlacesOf, InputNames
  <1>4. \A b \in Buses : \A k \in Cells(b) : <<b, k>> \in BusCells
                                          /\ \A f \in Fields : <<b, k, f>> \in Places
    <2>1. \A b \in Buses : b \notin Signals
      BY DEF ComponentAssumption
    <2>2. QED
      BY <2>1 DEF Places, PlacesOf, InputNames, BusCells
  <1>5. \A i \in InputNames : OpenCells(Fresh, i) = Cells(i)
    BY <1>1, <1>2, <1>3 DEF OpenCells
  <1>6. \A i \in InputNames : Fresh.left[i] = Cardinality(OpenCells(Fresh, i))
    BY <1>2, <1>5, CellsNat
  <1>7. QED
    BY <1>1, <1>2, <1>4, <1>6 DEF Counts

\* Every assignment is sure, and accepted only where nothing was assigned.
LEMMA SureEffect ==
    ASSUME ComponentAssumption, MaxIfs = 0, NEW c \in Components, c.ok, NEW a \in Given,
           Apply(c, a).ok
    PROVE  /\ a.under = << >>
           /\ \A p \in Target(a) : c.slots[p].state = "no"
           /\ \A p \in Places : Apply(c, a).slots[p].state =
                  IF p \in Target(a) THEN "yes" ELSE c.slots[p].state
  <1>1. a.under = << >>
    <2>1. 0 .. MaxIfs - 1 = {}
      OBVIOUS
    <2>2. QED
      BY <2>1, GivenFacts DEF Unders
  <1>2. AssignmentStateOf(a) = Assigned
    BY <1>1 DEF AssignmentStateOf
  <1>3. \A p \in Target(a) : p \in Places /\ ~ Rejects(c.slots[p], Assigned)
    BY <1>2, ApplyEffect, TargetPlaces
  <1>4. \A p \in Places : c.slots[p].state \in {"no", "yes", "might"}
    BY DEF Components, SlotStates
  <1>5. \A p \in Target(a) : c.slots[p].state = "no"
    BY <1>3, <1>4 DEF Rejects, Assigned
  <1>6. \A p \in Target(a) : AfterAssignment(c.slots[p], Assigned).state = "yes"
    BY <1>5 DEF AfterAssignment, Assigned
  <1>7. \A p \in Places : Apply(c, a).slots[p] = IF p \in Target(a)
                              THEN AfterAssignment(c.slots[p], Assigned) ELSE c.slots[p]
    BY <1>2, ApplyEffect
  <1>8. QED
    BY <1>1, <1>5, <1>6, <1>7

\* An input keeps its count when none of its cells is closed.
LEMMA CountsSignal ==
    ASSUME ComponentAssumption, MaxIfs = 0, NEW c \in Components, c.ok, Counts(c),
           NEW a \in Given, a.input \in Signals, Apply(c, a).ok
    PROVE  Counts(Apply(c, a))
  <1> DEFINE e == Apply(c, a)
             i == a.input
  <1>1. /\ e.surely = c.surely /\ e.fieldsLeft = c.fieldsLeft
        /\ e.left = Counted(c, a, Cardinality(a.cells))
    BY SignalEffect
  <1>2. /\ \A p \in Target(a) : c.slots[p].state = "no"
        /\ \A p \in Places : e.slots[p].state = IF p \in Target(a) THEN "yes" ELSE c.slots[p].state
    BY SureEffect
  <1>3. a.cells \subseteq Cells(i) /\ a.cells # {} /\ a.field = "all" /\ i \in InputNames
        /\ Cardinality(a.cells) \in Nat
    BY GivenFacts
  <1>4. Target(a) = {<<i, k, "all">> : k \in a.cells}
    BY <1>3 DEF Target, PlacesOf
  <1>5. \A j \in Signals : \A k \in Cells(j) : <<j, k, "all">> \in Places
    BY DEF Places, PlacesOf, InputNames
  <1>6. \A b \in Buses : \A k \in Cells(b) : \A f \in Fields : <<b, k, f>> \in Places
                                          /\ <<b, k, f>> \notin Target(a)
    <2>1. \A b \in Buses : b \notin Signals
      BY DEF ComponentAssumption
    <2>2. QED
      BY <1>4, <2>1 DEF Places, PlacesOf, InputNames
  <1> HIDE DEF e, i
  <1>7. \A j \in InputNames : j # i => OpenCells(e, j) = OpenCells(c, j)
    BY <1>1, <1>2, <1>4, <1>5 DEF OpenCells
  <1>8. a.cells \subseteq OpenCells(c, i) /\ OpenCells(e, i) = OpenCells(c, i) \ a.cells
    <2>1. i \in Signals
      BY DEF i
    <2>2. OpenCells(c, i) = {k \in Cells(i) : c.slots[<<i, k, "all">>].state = "no"}
      BY <2>1 DEF OpenCells
    <2>3. OpenCells(e, i) = {k \in Cells(i) : e.slots[<<i, k, "all">>].state = "no"}
      BY <2>1 DEF OpenCells
    <2>4. \A k \in Cells(i) : <<i, k, "all">> \in Places /\ (<<i, k, "all">> \in Target(a) <=> k \in a.cells)
      BY <1>4, <1>5, <2>1
    <2>5. QED
      BY <1>2, <1>3, <2>2, <2>3, <2>4
  <1>9. \A j \in InputNames : e.left[j] = Cardinality(OpenCells(e, j))
    <2>1. \A j \in InputNames : c.left[j] = Cardinality(OpenCells(c, j))
      BY DEF Counts
    <2>2. \A j \in InputNames : e.left[j] = IF j = i /\ c.left[j] # 0
                                           THEN c.left[j] - Cardinality(a.cells) ELSE c.left[j]
      BY <1>1, <1>3, CountedType DEF i
    <2>3. OpenCells(c, i) \subseteq Cells(i)
      BY DEF OpenCells
    <2>4. /\ Cardinality(OpenCells(c, i)) # 0
          /\ Cardinality(OpenCells(c, i) \ a.cells) = Cardinality(OpenCells(c, i)) - Cardinality(a.cells)
      BY <1>3, <1>8, <2>3, FewerOpen
    <2>5. QED
      BY <1>3, <1>7, <1>8, <2>1, <2>2, <2>4
  <1>10. QED
    BY <1>1, <1>2, <1>6, <1>9 DEF Counts, e

LEMMA CountsBus ==
    ASSUME ComponentAssumption, MaxIfs = 0, NEW c \in Components, c.ok, Counts(c),
           NEW a \in Given, a.input \in Buses, a.field = "all", Apply(c, a).ok
    PROVE  Counts(Apply(c, a))
  <1> DEFINE e == Apply(c, a)
             i == a.input
  <1>1. /\ e.fieldsLeft = [x \in BusCells |-> IF x \in TouchedCells(a) THEN {} ELSE c.fieldsLeft[x]]
        /\ e.left = Counted(c, a, Cardinality(a.cells))
        /\ c.surely \cap TouchedCells(a) = {}
    BY BusEffect
  <1>2. /\ a.under = << >>
        /\ \A p \in Target(a) : c.slots[p].state = "no"
        /\ \A p \in Places : e.slots[p].state = IF p \in Target(a) THEN "yes" ELSE c.slots[p].state
    BY SureEffect
  <1>3. a.cells \subseteq Cells(i) /\ a.cells # {} /\ a.field = "all" /\ i \in InputNames
        /\ Cardinality(a.cells) \in Nat
    BY GivenFacts
  <1>4. e.surely = c.surely \cup TouchedCells(a)
    BY <1>2, BusEffect
  <1>5. i \notin Signals /\ \A b \in Buses : b \notin Signals
    BY DEF ComponentAssumption
  <1>6. Target(a) = {<<i, k, f>> : k \in a.cells, f \in Fields}
    BY <1>3, <1>5 DEF Target, PlacesOf
  <1>7. \A j \in Signals : \A k \in Cells(j) : <<j, k, "all">> \in Places /\ <<j, k, "all">> \notin Target(a)
    BY <1>5, <1>6 DEF Places, PlacesOf, InputNames
  <1>8. \A b \in Buses : \A k \in Cells(b) :
          /\ <<b, k>> \in BusCells /\ (<<b, k>> \in TouchedCells(a) <=> b = i /\ k \in a.cells)
          /\ \A f \in Fields : <<b, k, f>> \in Places
                               /\ (<<b, k, f>> \in Target(a) <=> b = i /\ k \in a.cells)
    BY <1>5, <1>6 DEF Places, PlacesOf, InputNames, BusCells, TouchedCells
  <1> HIDE DEF e, i
  <1>9. \A j \in InputNames : j # i => OpenCells(e, j) = OpenCells(c, j)
    <2>1. ASSUME NEW j \in Signals PROVE OpenCells(e, j) = OpenCells(c, j)
      BY <1>2, <1>7 DEF OpenCells
    <2>2. ASSUME NEW j \in Buses, j # i PROVE OpenCells(e, j) = OpenCells(c, j)
      <3>1. \A k \in Cells(j) : <<j, k>> \in BusCells /\ <<j, k>> \notin TouchedCells(a)
        BY <1>8, <2>2
      <3>2. \A k \in Cells(j) : (<<j, k>> \in e.surely <=> <<j, k>> \in c.surely)
                               /\ e.fieldsLeft[<<j, k>>] = c.fieldsLeft[<<j, k>>]
        BY <1>1, <1>4, <3>1
      <3>3. QED
        BY <1>5, <3>2 DEF OpenCells
    <2>3. QED
      BY <2>1, <2>2 DEF InputNames
  <1>10. a.cells \subseteq OpenCells(c, i) /\ OpenCells(e, i) = OpenCells(c, i) \ a.cells
    <2>1. i \in Buses
      BY DEF i
    <2>2. OpenCells(c, i) = {k \in Cells(i) : <<i, k>> \notin c.surely \/ c.fieldsLeft[<<i, k>>] # {}}
      BY <1>5 DEF OpenCells
    <2>3. OpenCells(e, i) = {k \in Cells(i) : <<i, k>> \notin e.surely \/ e.fieldsLeft[<<i, k>>] # {}}
      BY <1>5 DEF OpenCells
    <2>4. \A k \in Cells(i) : <<i, k>> \in BusCells /\ (<<i, k>> \in TouchedCells(a) <=> k \in a.cells)
      BY <1>8, <2>1
    <2>5. QED
      BY <1>1, <1>3, <1>4, <2>2, <2>3, <2>4
  <1>11. \A j \in InputNames : e.left[j] = Cardinality(OpenCells(e, j))
    <2>1. \A j \in InputNames : c.left[j] = Cardinality(OpenCells(c, j))
      BY DEF Counts
    <2>2. \A j \in InputNames : e.left[j] = IF j = i /\ c.left[j] # 0
                                           THEN c.left[j] - Cardinality(a.cells) ELSE c.left[j]
      BY <1>1, <1>3, CountedType DEF i
    <2>3. OpenCells(c, i) \subseteq Cells(i)
      BY DEF OpenCells
    <2>4. /\ Cardinality(OpenCells(c, i)) # 0
          /\ Cardinality(OpenCells(c, i) \ a.cells) = Cardinality(OpenCells(c, i)) - Cardinality(a.cells)
      BY <1>3, <1>10, <2>3, FewerOpen
    <2>5. QED
      BY <1>3, <1>9, <1>10, <2>1, <2>2, <2>4
  <1>12. ASSUME NEW b \in Buses, NEW k \in Cells(b)
         PROVE  /\ <<b, k>> \notin e.surely => e.fieldsLeft[<<b, k>>] = Fields
                /\ \A f \in Fields : e.slots[<<b, k, f>>].state = "no" <=> f \in e.fieldsLeft[<<b, k>>]
    <2>1. /\ <<b, k>> \notin c.surely => c.fieldsLeft[<<b, k>>] = Fields
          /\ \A f \in Fields : c.slots[<<b, k, f>>].state = "no" <=> f \in c.fieldsLeft[<<b, k>>]
      BY DEF Counts
    <2>2. CASE <<b, k>> \in TouchedCells(a)
      BY <1>1, <1>2, <1>4, <1>8, <2>2
    <2>3. CASE <<b, k>> \notin TouchedCells(a)
      BY <1>1, <1>2, <1>4, <1>8, <2>1, <2>3
    <2>4. QED
      BY <2>2, <2>3
  <1>13. QED
    BY <1>11, <1>12 DEF Counts, e

LEMMA CountsField ==
    ASSUME ComponentAssumption, MaxIfs = 0, NEW c \in Components, c.ok, Counts(c),
           NEW a \in Given, a.input \in Buses, a.field # "all", Apply(c, a).ok
    PROVE  Counts(Apply(c, a))
  <1> DEFINE e == Apply(c, a)
             i == a.input
             g == a.field
             rest == FieldsAfter(c, a)
  <1>1. /\ e.fieldsLeft = rest
        /\ e.left = IF \A x \in TouchedCells(a) : rest[x] = {} THEN Counted(c, a, 1) ELSE c.left
    BY FieldEffect
  <1>2. /\ a.under = << >>
        /\ \A p \in Target(a) : c.slots[p].state = "no"
        /\ \A p \in Places : e.slots[p].state = IF p \in Target(a) THEN "yes" ELSE c.slots[p].state
    BY SureEffect
  <1>3. i \in InputNames /\ g \in Fields /\ i \in Buses
    BY GivenFacts
  <1>4. PICK q \in Cells(i) : a.cells = {q}
    BY GivenFacts
  <1>5. e.surely = c.surely \cup TouchedCells(a)
    BY <1>2, FieldEffect
  <1>6. i \notin Signals /\ \A b \in Buses : b \notin Signals
    BY DEF ComponentAssumption
  <1>7. Target(a) = {<<i, q, g>>} /\ TouchedCells(a) = {<<i, q>>}
    BY <1>4 DEF Target, TouchedCells
  <1>8. \A j \in Signals : \A k \in Cells(j) : <<j, k, "all">> \in Places /\ <<j, k, "all">> \notin Target(a)
    BY <1>6, <1>7 DEF Places, PlacesOf, InputNames
  <1>9. \A b \in Buses : \A k \in Cells(b) :
          <<b, k>> \in BusCells /\ \A f \in Fields : <<b, k, f>> \in Places
    BY <1>6 DEF Places, PlacesOf, InputNames, BusCells
  <1>10. /\ \A b \in Buses : \A k \in Cells(b) : rest[<<b, k>>] =
                IF b = i /\ k = q THEN c.fieldsLeft[<<b, k>>] \ {g} ELSE c.fieldsLeft[<<b, k>>]
         /\ \A b \in Buses : \A k \in Cells(b) : <<b, k>> \in e.surely <=>
                <<b, k>> \in c.surely \/ (b = i /\ k = q)
    BY <1>5, <1>7, <1>9 DEF FieldsAfter
  <1>11. g \in c.fieldsLeft[<<i, q>>]
    BY <1>2, <1>3, <1>4, <1>7 DEF Counts
  <1> HIDE DEF e, i, g, rest
  <1>12. \A j \in InputNames : j # i => OpenCells(e, j) = OpenCells(c, j)
    <2>1. ASSUME NEW j \in Signals PROVE OpenCells(e, j) = OpenCells(c, j)
      BY <1>2, <1>8 DEF OpenCells
    <2>2. ASSUME NEW j \in Buses, j # i PROVE OpenCells(e, j) = OpenCells(c, j)
      BY <1>1, <1>6, <1>10, <2>2 DEF OpenCells
    <2>3. QED
      BY <2>1, <2>2 DEF InputNames
  <1>13. /\ q \in OpenCells(c, i)
         /\ OpenCells(e, i) = IF rest[<<i, q>>] = {} THEN OpenCells(c, i) \ {q} ELSE OpenCells(c, i)
    <2>2. OpenCells(c, i) = {k \in Cells(i) : <<i, k>> \notin c.surely \/ c.fieldsLeft[<<i, k>>] # {}}
      BY <1>6 DEF OpenCells
    <2>3. OpenCells(e, i) = {k \in Cells(i) : <<i, k>> \notin e.surely \/ e.fieldsLeft[<<i, k>>] # {}}
      BY <1>6 DEF OpenCells
    <2>4. q \in OpenCells(c, i)
      BY <1>4, <1>11, <2>2
    <2>5. \A k \in Cells(i) : k # q =>
             (<<i, k>> \in e.surely <=> <<i, k>> \in c.surely) /\ e.fieldsLeft[<<i, k>>] = c.fieldsLeft[<<i, k>>]
      BY <1>1, <1>3, <1>10
    <2>6. <<i, q>> \in e.surely /\ e.fieldsLeft[<<i, q>>] = rest[<<i, q>>]
      BY <1>1, <1>3, <1>4, <1>10
    <2>7. QED
      BY <1>4, <2>2, <2>3, <2>4, <2>5, <2>6
  <1>14. \A j \in InputNames : e.left[j] = Cardinality(OpenCells(e, j))
    <2>1. \A j \in InputNames : c.left[j] = Cardinality(OpenCells(c, j))
      BY DEF Counts
    <2>2. \A j \in InputNames : e.left[j] = IF rest[<<i, q>>] = {} /\ j = i /\ c.left[j] # 0
                                           THEN c.left[j] - 1 ELSE c.left[j]
      <3>1. \A j \in InputNames : Counted(c, a, 1)[j] = IF j = i /\ c.left[j] # 0
                                                        THEN c.left[j] - 1 ELSE c.left[j]
        BY CountedType DEF i
      <3>2. e.left = IF rest[<<i, q>>] = {} THEN Counted(c, a, 1) ELSE c.left
        BY <1>1, <1>7
      <3>3. QED
        BY <3>1, <3>2
    <2>3. OpenCells(c, i) \subseteq Cells(i)
      BY DEF OpenCells
    <2>4. Cardinality({q}) = 1
      BY FS_Singleton
    <2>5. /\ Cardinality(OpenCells(c, i)) # 0
          /\ Cardinality(OpenCells(c, i) \ {q}) = Cardinality(OpenCells(c, i)) - 1
      BY <1>3, <1>13, <2>3, <2>4, FewerOpen
    <2>6. QED
      BY <1>12, <1>13, <2>1, <2>2, <2>5
  <1>15. ASSUME NEW b \in Buses, NEW k \in Cells(b)
         PROVE  /\ <<b, k>> \notin e.surely => e.fieldsLeft[<<b, k>>] = Fields
                /\ \A f \in Fields : e.slots[<<b, k, f>>].state = "no" <=> f \in e.fieldsLeft[<<b, k>>]
    <2>1. /\ <<b, k>> \notin c.surely => c.fieldsLeft[<<b, k>>] = Fields
          /\ \A f \in Fields : c.slots[<<b, k, f>>].state = "no" <=> f \in c.fieldsLeft[<<b, k>>]
      BY DEF Counts
    <2>2. CASE b = i /\ k = q
      <3>1. <<b, k>> \in e.surely /\ e.fieldsLeft[<<b, k>>] = c.fieldsLeft[<<b, k>>] \ {g}
        BY <1>1, <1>10, <2>2
      <3>2. \A f \in Fields : e.slots[<<b, k, f>>].state = IF f = g THEN "yes" ELSE c.slots[<<b, k, f>>].state
        BY <1>2, <1>7, <1>9, <2>2
      <3>3. QED
        BY <2>1, <3>1, <3>2
    <2>3. CASE ~ (b = i /\ k = q)
      <3>1. (<<b, k>> \in e.surely <=> <<b, k>> \in c.surely)
            /\ e.fieldsLeft[<<b, k>>] = c.fieldsLeft[<<b, k>>]
        BY <1>1, <1>10, <2>3
      <3>2. \A f \in Fields : e.slots[<<b, k, f>>].state = c.slots[<<b, k, f>>].state
        BY <1>2, <1>7, <1>9, <2>3
      <3>3. QED
        BY <2>1, <3>1, <3>2
    <2>4. QED
      BY <2>2, <2>3
  <1>16. QED
    BY <1>14, <1>15 DEF Counts, e

LEMMA CountsNext ==
    ASSUME ComponentAssumption, MaxIfs = 0, NEW c \in Components, c.ok, Counts(c),
           NEW a \in Given, Apply(c, a).ok
    PROVE  Counts(Apply(c, a))
  <1>1. a.input \in InputNames
    BY GivenFacts
  <1>2. CASE a.input \in Signals
    BY <1>2, CountsSignal
  <1>3. CASE a.input \in Buses /\ a.field = "all"
    BY <1>3, CountsBus
  <1>4. CASE a.input \in Buses /\ a.field # "all"
    BY <1>4, CountsField
  <1>5. QED
    BY <1>1, <1>2, <1>3, <1>4 DEF InputNames
-----------------------------------------------------------------------------
(***************************************************************************)
(* The replay.                                                             *)
(***************************************************************************)
LEMMA LeastNumber ==
    ASSUME NEW T \in SUBSET Nat, T # {}
    PROVE  \E m \in T : \A k \in T : m <= k
  <1>1. PICK m \in T : \A k \in T : <<k, m>> \notin OpToRel(<, Nat)
    BY WFMin, NatLessThanWellFounded, Zenon
  <1>2. \A k \in T : ~ (k < m)
    BY <1>1, Zenon DEF OpToRel
  <1>3. QED
    BY <1>2

\* The components after the first m assignments of a list.
Stages(f, c, as, m) == f = [n \in 0 .. m |-> IF n = 0 THEN c ELSE Apply(f[n - 1], as[n])]

LEMMA StagesExist ==
    ASSUME NEW c, NEW as, NEW m \in Nat
    PROVE  \E f : Stages(f, c, as, m)
  <1> DEFINE T == {n \in Nat : ~ \E f : Stages(f, c, as, n)}
  <1>1. ASSUME T # {} PROVE FALSE
    <2>1. PICK n \in T : \A k \in T : n <= k
      BY <1>1, LeastNumber
    <2>2. CASE n = 0
      <3>1. Stages([k \in 0 .. 0 |-> c], c, as, 0)
        BY DEF Stages
      <3>2. QED
        BY <2>1, <2>2, <3>1
    <2>3. CASE n # 0
      <3>1. n \in Nat /\ n - 1 \in Nat /\ n - 1 \notin T
        <4>1. n \in Nat
          BY <2>1
        <4>2. n - 1 \in Nat /\ ~ (n <= n - 1)
          BY <2>3, <4>1
        <4>3. QED
          BY <2>1, <4>1, <4>2
      <3>2. PICK f : Stages(f, c, as, n - 1)
        BY <3>1
      <3> DEFINE g == [k \in 0 .. n |-> IF k = n THEN Apply(f[n - 1], as[n]) ELSE f[k]]
      <3>3. ASSUME NEW k \in 0 .. n
            PROVE  g[k] = IF k = 0 THEN c ELSE Apply(g[k - 1], as[k])
        <4>1. \A j \in 0 .. n - 1 : f[j] = IF j = 0 THEN c ELSE Apply(f[j - 1], as[j])
          BY <3>2 DEF Stages
        <4>2. CASE k = n
          <5>1. n \in 0 .. n /\ n - 1 \in 0 .. n /\ n - 1 # n
            BY <2>3, <3>1
          <5>2. g[n] = Apply(f[n - 1], as[n]) /\ g[n - 1] = f[n - 1]
            BY <5>1
          <5>3. QED
            BY <2>3, <4>2, <5>2
        <4>3. CASE k # n
          <5>1. k \in 0 .. n - 1 /\ (k # 0 => k - 1 \in 0 .. n /\ k - 1 # n)
            BY <3>1, <4>3
          <5>2. g[k] = f[k]
            BY <4>3
          <5>3. k # 0 => g[k - 1] = f[k - 1]
            BY <5>1
          <5>4. QED
            BY <4>1, <5>1, <5>2, <5>3
        <4>4. QED
          BY <4>2, <4>3
      <3>4. g = [k \in 0 .. n |-> g[k]]
        OBVIOUS
      <3> HIDE DEF g
      <3>5. Stages(g, c, as, n)
        BY <3>3, <3>4 DEF Stages
      <3>6. QED
        BY <2>1, <3>5
    <2>4. QED
      BY <2>2, <2>3
  <1>2. QED
    BY <1>1

LEMMA ReplayListStages ==
    ASSUME NEW c, NEW as \in Seq(Given)
    PROVE  \E f : Stages(f, c, as, Len(as)) /\ ReplayList(c, as) = f[Len(as)]
  <1>1. Len(as) \in Nat
    BY LenProperties
  <1> DEFINE f == CHOOSE f : Stages(f, c, as, Len(as))
  <1>2. Stages(f, c, as, Len(as))
    <2>1. \E g : Stages(g, c, as, Len(as))
      BY <1>1, StagesExist
    <2>2. QED
      BY <2>1, Zenon
  <1>3. ReplayList(c, as) = f[Len(as)]
    BY DEF ReplayList, Stages
  <1>4. QED
    BY <1>2, <1>3

\* The component after the assignments X of those that wait.
Replayed(c, d, X) ==
    /\ c \in Components
    /\ c.ok => /\ \A p \in Places : Accounts(c.slots[p], To(d, X, p), UnderOf(d))
               /\ MaxIfs = 0 => Counts(c)

LEMMA ReplayedFresh ==
    ASSUME ComponentAssumption, NEW d
    PROVE  Replayed(Fresh, d, {})
  <1>1. \A p \in Places : Fresh.slots[p] = NoAssigned
    BY DEF Fresh
  <1>2. \A p : To(d, {}, p) = {}
    BY DEF To
  <1>3. QED
    BY <1>1, <1>2, FreshType, FreshCounts DEF Replayed, Accounts, NoAssigned

LEMMA ReplayedNext ==
    ASSUME ComponentAssumption, NEW c, NEW d \in [Lists -> Seq(Given)],
           NEW X \in SUBSET Positions(d), NEW x \in Positions(d), x \notin X, Replayed(c, d, X)
    PROVE  Replayed(Apply(c, d[x[1]][x[2]]), d, X \cup {x})
  <1> DEFINE a == d[x[1]][x[2]]
             e == Apply(c, a)
             new == AssignmentStateOf(a)
             u == UnderOf(d)
  <1>1. \A y \in Positions(d) : d[y[1]][y[2]] \in Given /\ u[y] = d[y[1]][y[2]].under
    <2>1. ASSUME NEW k \in Lists, NEW n \in 1 .. Len(d[k]) PROVE d[k][n] \in Given
      OBVIOUS
    <2>2. QED
      BY <2>1 DEF Positions, InList, UnderOf
  <1>2. a \in Given /\ u[x] = a.under /\ \A y \in X : u[y] \in Unders
    BY <1>1, GivenFacts
  <1>3. c \in Components /\ e \in Components
    BY <1>2, ApplyType DEF Replayed
  <1>4. ASSUME e.ok
        PROVE  /\ \A p \in Places : Accounts(e.slots[p], To(d, X \cup {x}, p), u)
               /\ MaxIfs = 0 => Counts(e)
    <2>1. c.ok
      BY <1>4 DEF Apply
    <2>2. /\ \A p \in Places : Accounts(c.slots[p], To(d, X, p), u)
          /\ MaxIfs = 0 => Counts(c)
      BY <2>1 DEF Replayed
    <2>3. MaxIfs = 0 => Counts(e)
      BY <1>2, <1>3, <1>4, <2>1, <2>2, CountsNext
    <2>4. /\ \A p \in Places : e.slots[p] = IF p \in Target(a) THEN AfterAssignment(c.slots[p], new)
                                            ELSE c.slots[p]
          /\ \A p \in Target(a) : ~ Rejects(c.slots[p], new)
      BY <1>2, <1>3, <1>4, <2>1, ApplyEffect
    <2> HIDE DEF e, new, u, a
    <2>5. ASSUME NEW p \in Places PROVE Accounts(e.slots[p], To(d, X \cup {x}, p), u)
      <3>1. c.slots[p] \in SlotStates
        BY <1>3 DEF Components
      <3>2. CASE p \in Target(a)
        <4>1. To(d, X \cup {x}, p) = To(d, X, p) \cup {x}
          BY <3>2 DEF To, a
        <4>2. x \notin To(d, X, p) /\ \A y \in To(d, X, p) : u[y] \in Unders
          BY <1>2 DEF To
        <4>3. Accounts(AfterAssignment(c.slots[p], new), To(d, X, p) \cup {x}, u)
          BY <1>2, <2>2, <2>4, <3>1, <3>2, <4>2, AccountsNext, GivenFacts DEF new
        <4>4. QED
          BY <2>4, <3>2, <4>1, <4>3
      <3>3. CASE p \notin Target(a)
        <4>1. To(d, X \cup {x}, p) = To(d, X, p)
          BY <3>3 DEF To, a
        <4>2. QED
          BY <2>2, <2>4, <3>3, <4>1
      <3>4. QED
        BY <3>2, <3>3
    <2>6. QED
      BY <2>3, <2>5
  <1>5. QED
    BY <1>3, <1>4 DEF Replayed

LEMMA ReplayedList ==
    ASSUME ComponentAssumption, NEW c, NEW d \in [Lists -> Seq(Given)], NEW k \in Lists,
           NEW X \in SUBSET Positions(d), X \cap InList(d, k) = {}, Replayed(c, d, X)
    PROVE  Replayed(ReplayList(c, d[k]), d, X \cup InList(d, k))
  <1> DEFINE N == Len(d[k])
             Upto(n) == X \cup ({k} \X (1 .. n))
  <1>1. d[k] \in Seq(Given) /\ N \in Nat
    OBVIOUS
  <1>2. PICK f : Stages(f, c, d[k], N) /\ ReplayList(c, d[k]) = f[N]
    BY <1>1, ReplayListStages
  <1> DEFINE T == {n \in 0 .. N : ~ Replayed(f[n], d, Upto(n))}
  <1>3. ASSUME T # {} PROVE FALSE
    <2>1. PICK m \in T : \A n \in T : m <= n
      <3>1. T \in SUBSET Nat
        BY <1>1
      <3>2. QED
        BY <1>3, <3>1, LeastNumber
    <2>2. CASE m = 0
      <3>1. f[0] = c
        BY <1>1, <1>2 DEF Stages
      <3>2. Upto(0) = X
        OBVIOUS
      <3>3. QED
        BY <2>1, <2>2, <3>1, <3>2
    <2>3. CASE m # 0
      <3>1. m \in 1 .. N /\ m - 1 \in 0 .. N /\ m - 1 \notin T
        <4>1. m \in 0 .. N
          BY <2>1
        <4>2. m \in 1 .. N /\ m - 1 \in 0 .. N /\ ~ (m <= m - 1)
          BY <1>1, <2>3, <4>1
        <4>3. QED
          BY <2>1, <4>2
      <3>2. Replayed(f[m - 1], d, Upto(m - 1))
        BY <3>1
      <3>3. f[m] = Apply(f[m - 1], d[k][m])
        BY <1>1, <1>2, <3>1 DEF Stages
      <3> DEFINE x == <<k, m>>
      <3>4. x \in InList(d, k) /\ x \in Positions(d)
        BY <3>1 DEF Positions, InList
      <3>5. x \notin Upto(m - 1)
        BY <3>1, <3>4
      <3>6. Upto(m - 1) \subseteq Positions(d)
        BY <3>1 DEF Positions, InList
      <3>7. Upto(m) = Upto(m - 1) \cup {x}
        <4>1. 1 .. m = (1 .. m - 1) \cup {m}
          BY <3>1
        <4>2. QED
          BY <4>1
      <3>8. x[1] = k /\ x[2] = m
        OBVIOUS
      <3> HIDE DEF Upto, x, T
      <3>9. Replayed(Apply(f[m - 1], d[x[1]][x[2]]), d, Upto(m - 1) \cup {x})
        BY <3>2, <3>4, <3>5, <3>6, ReplayedNext
      <3>10. Replayed(f[m], d, Upto(m))
        BY <3>3, <3>7, <3>8, <3>9
      <3>11. QED
        BY <2>1, <3>10 DEF T
    <2>4. QED
      BY <2>2, <2>3
  <1>4. Replayed(f[N], d, Upto(N))
    <2>1. T = {}
      BY <1>3
    <2>2. N \in 0 .. N
      BY <1>1
    <2>3. QED
      BY <2>1, <2>2
  <1>5. QED
    BY <1>2, <1>4 DEF InList

\* Every assignment that waits is replayed, and only they.
LEMMA ReplayedAll ==
    ASSUME ComponentAssumption, NEW d \in [Lists -> Seq(Given)]
    PROVE  Replayed(Replay(d), d, Positions(d))
  <1> DEFINE S == InList(d, "signals")
             B == InList(d, "buses")
             F == InList(d, "fields")
             c1 == ReplayList(Fresh, d["signals"])
             c2 == ReplayList(c1, d["buses"])
             c3 == ReplayList(c2, d["fields"])
  <1>1. Positions(d) = (S \cup B) \cup F /\ S \in SUBSET Positions(d) /\ S \cup B \in SUBSET Positions(d)
    BY DEF Positions, Lists
  <1>2. S \cap B = {} /\ (S \cup B) \cap F = {} /\ {} \cap S = {} /\ {} \cup S = S
    BY DEF InList
  <1>3. {"signals", "buses", "fields"} = Lists
    BY DEF Lists
  <1>4. Replay(d) = c3
    BY DEF Replay
  <1>5. Replayed(Fresh, d, {})
    BY ReplayedFresh
  <1>6. Replayed(c1, d, S)
    <2>1. "signals" \in Lists /\ {} \in SUBSET Positions(d)
      BY <1>3
    <2>2. {} \cap InList(d, "signals") = {} /\ {} \cup InList(d, "signals") = S
      OBVIOUS
    <2>3. Replayed(ReplayList(Fresh, d["signals"]), d, {} \cup InList(d, "signals"))
      BY <1>5, <2>1, <2>2, ReplayedList
    <2>4. QED
      BY <2>2, <2>3
  <1> HIDE DEF c1, S, B, F
  <1>7. Replayed(c2, d, S \cup B)
    BY <1>1, <1>2, <1>3, <1>6, ReplayedList DEF B
  <1> HIDE DEF c2
  <1>8. Replayed(c3, d, (S \cup B) \cup F)
    BY <1>1, <1>2, <1>3, <1>7, ReplayedList DEF F
  <1>9. QED
    BY <1>1, <1>4, <1>8
-----------------------------------------------------------------------------
(***************************************************************************)
(* What waits and what was executed.                                       *)
(***************************************************************************)
LEMMA DelayedFacts ==
    ASSUME NEW d \in [Lists -> Seq(Given)], NEW a \in Given
    PROVE  /\ Delayed(d, a) \in [Lists -> Seq(Given)]
           /\ \E x : /\ x \notin Positions(d) /\ Positions(Delayed(d, a)) = Positions(d) \cup {x}
                     /\ Delayed(d, a)[x[1]][x[2]] = a
                     /\ \A y \in Positions(d) : Delayed(d, a)[y[1]][y[2]] = d[y[1]][y[2]]
  <1> DEFINE e == Delayed(d, a)
             k == ListOf(a)
             n == Len(d[k])
             x == <<k, n + 1>>
  <1>1. k \in Lists
    BY DEF ListOf, Lists
  <1>2. d[k] \in Seq(Given) /\ n \in Nat
    BY <1>1, LenProperties
  <1>3. e = [d EXCEPT ![k] = Append(d[k], a)]
    BY DEF Delayed
  <1>4. Append(d[k], a) \in Seq(Given) /\ Len(Append(d[k], a)) = n + 1
        /\ Append(d[k], a)[n + 1] = a
        /\ \A i \in 1 .. n : Append(d[k], a)[i] = d[k][i]
    BY <1>2, AppendProperties
  <1> HIDE DEF k, e
  <1>5. e \in [Lists -> Seq(Given)]
    BY <1>1, <1>3, <1>4
  <1>6. /\ e[k] = Append(d[k], a)
        /\ \A j \in Lists : j # k => e[j] = d[j]
    BY <1>1, <1>3
  <1>7. InList(e, k) = InList(d, k) \cup {x}
    <2>1. 1 .. n + 1 = (1 .. n) \cup {n + 1}
      BY <1>2
    <2>2. Len(e[k]) = n + 1
      BY <1>4, <1>6
    <2>3. QED
      BY <2>1, <2>2 DEF InList
  <1>8. \A j \in Lists : j # k => InList(e, j) = InList(d, j)
    BY <1>6 DEF InList
  <1>9. Positions(e) = Positions(d) \cup {x}
    BY <1>1, <1>7, <1>8 DEF Positions
  <1>10. x \notin Positions(d)
    BY <1>2 DEF Positions, InList
  <1>11. e[x[1]][x[2]] = a
    BY <1>4, <1>6
  <1>12. ASSUME NEW y \in Positions(d) PROVE e[y[1]][y[2]] = d[y[1]][y[2]]
    <2>1. PICK j \in Lists : y \in InList(d, j)
      BY DEF Positions
    <2>2. CASE j = k
      BY <1>4, <1>6, <2>1, <2>2 DEF InList
    <2>3. CASE j # k
      BY <1>6, <2>1, <2>3 DEF InList
    <2>4. QED
      BY <2>2, <2>3
  <1>13. QED
    BY <1>5, <1>9, <1>10, <1>11, <1>12 DEF e

\* The assignments executed, and one more.
Written(w, a) == [p \in Places |-> IF p \in Target(a) THEN Append(w[p], a.under) ELSE w[p]]

LEMMA WrittenNext ==
    ASSUME NEW w \in [Places -> Seq(Unders)], NEW a, a.under \in Unders, NEW p \in Places
    PROVE  /\ Written(w, a)[p] \in Seq(Unders) /\ Len(w[p]) \in Nat
           /\ p \in Target(a) => /\ Len(Written(w, a)[p]) = Len(w[p]) + 1
                                 /\ Written(w, a)[p][Len(w[p]) + 1] = a.under
                                 /\ \A i \in 1 .. Len(w[p]) : Written(w, a)[p][i] = w[p][i]
                                 /\ Written(w, a)[p] # << >>
           /\ p \notin Target(a) => Written(w, a)[p] = w[p]
  <1>1. w[p] \in Seq(Unders) /\ Len(w[p]) \in Nat
    BY LenProperties
  <1>2. /\ Append(w[p], a.under) \in Seq(Unders) /\ Len(Append(w[p], a.under)) = Len(w[p]) + 1
        /\ Append(w[p], a.under)[Len(w[p]) + 1] = a.under
        /\ \A i \in 1 .. Len(w[p]) : Append(w[p], a.under)[i] = w[p][i]
    BY <1>1, AppendProperties
  <1>3. Append(w[p], a.under) # << >>
    BY <1>1, <1>2
  <1>4. Written(w, a)[p] = IF p \in Target(a) THEN Append(w[p], a.under) ELSE w[p]
    BY DEF Written
  <1>5. QED
    BY <1>1, <1>2, <1>3, <1>4

LEMMA WaitingNext ==
    ASSUME NEW d \in [Lists -> Seq(Given)], NEW a \in Given, a.under \in Unders,
           NEW w \in [Places -> Seq(Unders)], Waiting(d, w)
    PROVE  Waiting(Delayed(d, a), Written(w, a))
  <1> DEFINE e == Delayed(d, a)
             v == Written(w, a)
             X(p) == To(d, Positions(d), p)
             Y(p) == To(e, Positions(e), p)
  <1>1. PICK x : /\ x \notin Positions(d) /\ Positions(e) = Positions(d) \cup {x}
                 /\ e[x[1]][x[2]] = a
                 /\ \A y \in Positions(d) : e[y[1]][y[2]] = d[y[1]][y[2]]
    BY DelayedFacts
  <1> HIDE DEF e, v
  <1>2. UnderOf(e)[x] = a.under /\ \A y \in Positions(d) : UnderOf(e)[y] = UnderOf(d)[y]
    BY <1>1 DEF UnderOf
  <1>3. \A p : Y(p) = IF p \in Target(a) THEN X(p) \cup {x} ELSE X(p)
    BY <1>1 DEF To
  <1>4. \A p : X(p) \subseteq Positions(d)
    BY DEF To
  <1> HIDE DEF X, Y
  <1>5. ASSUME NEW p \in Places
        PROVE  /\ v[p] = << >> => Y(p) = {}
               /\ \A i \in 1 .. Len(v[p]) : \E y \in Y(p) : UnderOf(e)[y] = v[p][i]
               /\ \A i, j \in 1 .. Len(v[p]) : i # j =>
                      \E y, z \in Y(p) : y # z /\ UnderOf(e)[y] = v[p][i] /\ UnderOf(e)[z] = v[p][j]
    <2> DEFINE n == Len(w[p])
    <2>1. /\ w[p] = << >> => X(p) = {}
          /\ \A i \in 1 .. n : \E y \in X(p) : UnderOf(d)[y] = w[p][i]
          /\ \A i, j \in 1 .. n : i # j =>
                 \E y, z \in X(p) : y # z /\ UnderOf(d)[y] = w[p][i] /\ UnderOf(d)[z] = w[p][j]
      BY DEF Waiting, X
    <2>2. /\ \A i \in 1 .. n : \E y \in X(p) : UnderOf(e)[y] = w[p][i]
          /\ \A i, j \in 1 .. n : i # j =>
                 \E y, z \in X(p) : y # z /\ UnderOf(e)[y] = w[p][i] /\ UnderOf(e)[z] = w[p][j]
      BY <1>2, <1>4, <2>1
    <2>3. CASE p \notin Target(a)
      <3>1. Y(p) = X(p) /\ v[p] = w[p]
        BY <1>3, <2>3, WrittenNext DEF v
      <3>2. QED
        BY <2>1, <2>2, <3>1
    <2>4. CASE p \in Target(a)
      <3>1. Y(p) = X(p) \cup {x} /\ x \notin X(p)
        BY <1>1, <1>3, <1>4, <2>4
      <3>2. /\ n \in Nat /\ Len(v[p]) = n + 1 /\ v[p][n + 1] = a.under /\ v[p] # << >>
            /\ \A i \in 1 .. n : v[p][i] = w[p][i]
        BY <2>4, WrittenNext DEF v
      <3> HIDE DEF n
      <3>3. \A i \in 1 .. Len(v[p]) : i \in 1 .. n \/ i = n + 1
        BY <3>2
      <3>4. \A i \in 1 .. n : \E y \in X(p) : UnderOf(e)[y] = v[p][i]
        BY <2>2, <3>2
      <3>5. \A i, j \in 1 .. n : i # j =>
               \E y, z \in X(p) : y # z /\ UnderOf(e)[y] = v[p][i] /\ UnderOf(e)[z] = v[p][j]
        BY <2>2, <3>2
      <3>6. \A i \in 1 .. Len(v[p]) : \E y \in Y(p) : UnderOf(e)[y] = v[p][i]
        BY <1>2, <3>1, <3>2, <3>3, <3>4
      <3>7. ASSUME NEW i \in 1 .. Len(v[p]), NEW j \in 1 .. Len(v[p]), i # j
            PROVE  \E y, z \in Y(p) : y # z /\ UnderOf(e)[y] = v[p][i] /\ UnderOf(e)[z] = v[p][j]
        <4>1. CASE i \in 1 .. n /\ j \in 1 .. n
          BY <3>1, <3>5, <3>7, <4>1
        <4>2. CASE i \in 1 .. n /\ j = n + 1
          <5>1. PICK y \in X(p) : UnderOf(e)[y] = v[p][i]
            BY <3>4, <4>2
          <5>2. UnderOf(e)[x] = v[p][j] /\ y # x
            BY <1>2, <3>1, <3>2, <4>2
          <5>3. QED
            BY <3>1, <5>1, <5>2
        <4>3. CASE i = n + 1 /\ j \in 1 .. n
          <5>1. PICK y \in X(p) : UnderOf(e)[y] = v[p][j]
            BY <3>4, <4>3
          <5>2. UnderOf(e)[x] = v[p][i] /\ y # x
            BY <1>2, <3>1, <3>2, <4>3
          <5>3. QED
            BY <3>1, <5>1, <5>2
        <4>4. QED
          BY <3>3, <3>7, <4>1, <4>2, <4>3
      <3>8. QED
        BY <3>2, <3>6, <3>7
    <2>5. QED
      BY <2>3, <2>4
  <1>6. QED
    BY <1>5 DEF Waiting, X, Y, e, v

\* What the replay left accounts for the assignments in the order of the program.
LEMMA WaitingDone ==
    ASSUME NEW d, NEW w \in [Places -> Seq(Unders)], Waiting(d, w), NEW p \in Places,
           NEW st, Accounts(st, To(d, Positions(d), p), UnderOf(d))
    PROVE  Accounts(st, 1 .. Len(w[p]), w[p])
  <1> DEFINE X == To(d, Positions(d), p)
             u == UnderOf(d)
             s == w[p]
             n == Len(s)
  <1>1. s \in Seq(Unders) /\ n \in Nat
    BY LenProperties
  <1>2. (s = << >>) <=> (1 .. n = {})
    <2>1. (s = << >>) <=> (n = 0)
      BY <1>1, EmptySeq
    <2>2. ASSUME NEW m \in Nat PROVE (m = 0) <=> (1 .. m = {})
      <3>1. m # 0 => 1 \in 1 .. m
        OBVIOUS
      <3>2. m = 0 => 1 .. m = {}
        OBVIOUS
      <3>3. QED
        BY <3>1, <3>2
    <2>3. QED
      BY <1>1, <2>1, <2>2
  <1>3. /\ s = << >> => X = {}
        /\ \A i \in 1 .. n : \E x \in X : u[x] = s[i]
        /\ \A i, j \in 1 .. n : i # j => \E x, y \in X : x # y /\ u[x] = s[i] /\ u[y] = s[j]
    BY DEF Waiting
  <1>4. /\ st.state = "no" <=> X = {}
        /\ st.state = "might" => \E x \in X : X = {x} /\ u[x] # << >> /\ st.under = u[x]
        /\ \A x, y \in X : x # y => Exclusive(u[x], u[y])
    BY DEF Accounts
  <1> HIDE DEF X, u, s, n
  <1>5. X = {} <=> 1 .. n = {}
    BY <1>2, <1>3
  <1>6. \A i, j \in 1 .. n : i # j => Exclusive(s[i], s[j])
    <2>1. ASSUME NEW i \in 1 .. n, NEW j \in 1 .. n, i # j PROVE Exclusive(s[i], s[j])
      <3>1. PICK x \in X, y \in X : x # y /\ u[x] = s[i] /\ u[y] = s[j]
        BY <1>3, <2>1
      <3>2. Exclusive(u[x], u[y])
        BY <1>4, <3>1
      <3>3. QED
        BY <3>1, <3>2
    <2>2. QED
      BY <2>1
  <1>7. ASSUME st.state = "might"
        PROVE  \E i \in 1 .. n : 1 .. n = {i} /\ s[i] # << >> /\ st.under = s[i]
    <2>1. PICK x \in X : X = {x} /\ u[x] # << >> /\ st.under = u[x]
      BY <1>4, <1>7
    <2>2. PICK i \in 1 .. n : TRUE
      BY <1>5, <2>1
    <2>3. \A j \in 1 .. n : j = i
      BY <1>3, <2>1
    <2>4. s[i] = u[x]
      BY <1>3, <2>1
    <2>5. QED
      BY <2>1, <2>2, <2>3, <2>4
  <1>8. Accounts(st, 1 .. n, s)
    BY <1>4, <1>5, <1>6, <1>7 DEF Accounts
  <1>9. QED
    BY <1>8 DEF n, s
-----------------------------------------------------------------------------
(***************************************************************************)
(* The steps of a component.                                               *)
(***************************************************************************)
\* What the assignments that are executed leave of the component.
InOrder(e, w) ==
    /\ e \in Components
    /\ e.ok => /\ \A p \in Places : Accounts(e.slots[p], 1 .. Len(w[p]), w[p])
               /\ MaxIfs = 0 => Counts(e)

LEMMA InitializedNext ==
    ASSUME ComponentAssumption, ComponentInv, phase = "initialized", Accepted, NEW a \in Given
    PROVE  InOrder(Apply(Current, a), Written(written, a))
  <1> DEFINE c == Current
             e == Apply(c, a)
             v == Written(written, a)
  <1>1. c \in Components /\ c.ok /\ c.slots = slots
    BY DEF ComponentInv, ComponentType, Current
  <1>2. /\ \A p \in Places : Accounts(c.slots[p], 1 .. Len(written[p]), written[p])
        /\ MaxIfs = 0 => Counts(c)
    BY <1>1 DEF ComponentInv
  <1>3. written \in [Places -> Seq(Unders)] /\ a.under \in Unders
    BY GivenFacts DEF ComponentInv, ComponentType
  <1> HIDE DEF c, v
  <1>4. e \in Components
    BY <1>1, ApplyType
  <1>5. ASSUME e.ok PROVE MaxIfs = 0 => Counts(e)
    BY <1>1, <1>2, <1>5, CountsNext
  <1>6. ASSUME e.ok, NEW p \in Places PROVE Accounts(e.slots[p], 1 .. Len(v[p]), v[p])
    <2> DEFINE new == AssignmentStateOf(a)
               s == written[p]
               n == Len(s)
    <2>1. /\ e.slots[p] = IF p \in Target(a) THEN AfterAssignment(c.slots[p], new) ELSE c.slots[p]
          /\ p \in Target(a) => ~ Rejects(c.slots[p], new)
      BY <1>1, <1>6, ApplyEffect
    <2>2. c.slots[p] \in SlotStates
      BY <1>1 DEF Components
    <2>3. CASE p \notin Target(a)
      BY <1>2, <1>3, <2>1, <2>3, WrittenNext DEF v
    <2>4. CASE p \in Target(a)
      <3>1. s \in Seq(Unders) /\ n \in Nat /\ Len(v[p]) = n + 1 /\ v[p][n + 1] = a.under
            /\ \A i \in 1 .. n : v[p][i] = s[i]
        BY <1>3, <2>4, WrittenNext DEF v
      <3>2. \A i \in 1 .. n : s[i] \in Unders /\ v[p][i] = s[i]
        BY <3>1
      <3>3. n + 1 \notin 1 .. n /\ 1 .. Len(v[p]) = (1 .. n) \cup {n + 1}
        BY <3>1
      <3>4. Accounts(c.slots[p], 1 .. n, s) /\ ~ Rejects(c.slots[p], new)
        BY <1>2, <2>1, <2>4
      <3> HIDE DEF new, s, n
      <3>5. Accounts(AfterAssignment(c.slots[p], new), (1 .. n) \cup {n + 1}, v[p])
        BY <1>3, <2>2, <3>1, <3>2, <3>3, <3>4, AccountsNext DEF new
      <3>6. QED
        BY <2>1, <2>4, <3>3, <3>5
    <2>5. QED
      BY <2>3, <2>4
  <1>7. QED
    BY <1>4, <1>5, <1>6 DEF InOrder, c, v

LEMMA ReplayNext ==
    ASSUME ComponentAssumption, ComponentInv, phase = "preinitialized", NEW a \in Given
    PROVE  InOrder(Replay(Delayed(delayed, a)), Written(written, a))
  <1> DEFINE d == Delayed(delayed, a)
             e == Replay(d)
             v == Written(written, a)
  <1>1. delayed \in [Lists -> Seq(Given)] /\ written \in [Places -> Seq(Unders)]
        /\ Waiting(delayed, written) /\ a.under \in Unders
    BY GivenFacts DEF ComponentInv, ComponentType
  <1>2. d \in [Lists -> Seq(Given)] /\ Waiting(d, v)
    BY <1>1, DelayedFacts, WaitingNext
  <1>3. v \in [Places -> Seq(Unders)]
    BY <1>1, WrittenNext DEF Written
  <1> HIDE DEF d, v
  <1>4. Replayed(e, d, Positions(d))
    BY <1>2, ReplayedAll
  <1> HIDE DEF e
  <1>5. e \in Components /\ (e.ok /\ MaxIfs = 0 => Counts(e))
    BY <1>4 DEF Replayed
  <1>6. ASSUME e.ok, NEW p \in Places PROVE Accounts(e.slots[p], 1 .. Len(v[p]), v[p])
    <2>1. Accounts(e.slots[p], To(d, Positions(d), p), UnderOf(d))
      BY <1>4, <1>6 DEF Replayed
    <2>2. QED
      BY <1>2, <1>3, <2>1, WaitingDone
  <1>7. QED
    BY <1>5, <1>6 DEF InOrder, d, e, v

\* A step that assigns nothing.
Idle == UNCHANGED <<phase, component, tagsLeft, tags, delayed, written, carried>>

LEMMA IdleType ==
    ASSUME ComponentType, Idle, conds' \in Unders, nextIf' \in 0 .. MaxIfs
    PROVE  ComponentType'
  BY DEF ComponentType, Idle, component, Current

LEMMA IdleInv ==
    ASSUME ComponentInv, Idle, conds' \in Unders, nextIf' \in 0 .. MaxIfs,
           Accepted' => Accepted, MaxIfs = 0 => OutputsNeedInputs'
    PROVE  ComponentInv'
  <1>1. ComponentType'
    BY IdleType DEF ComponentInv
  <1>2. /\ phase' = phase /\ slots' = slots /\ surely' = surely /\ fieldsLeft' = fieldsLeft
        /\ left' = left /\ tagsLeft' = tagsLeft /\ tags' = tags /\ delayed' = delayed
        /\ written' = written /\ carried' = carried
    BY DEF Idle, component
  <1>3. Current' = Current
    BY <1>2 DEF Current
  <1>4. TagsOfOneInstance'
    BY <1>2 DEF ComponentInv, TagsOfOneInstance
  <1>5. (phase = "initialized" /\ Accepted)' =>
          /\ (\A p \in Places : Accounts(slots[p], 1 .. Len(written[p]), written[p]))'
          /\ MaxIfs = 0 => Counts(Current)'
    BY <1>2, <1>3 DEF ComponentInv
  <1>6. QED
    BY <1>1, <1>2, <1>4, <1>5 DEF ComponentInv

\* No count is missing: every place was assigned.
LEMMA NothingMissing ==
    ASSUME ComponentAssumption, ComponentInv, MaxIfs = 0, phase = "initialized", Accepted,
           \A i \in InputNames : left[i] = 0, NEW p \in Places
    PROVE  written[p] # << >>
  <1>1. Counts(Current) /\ Accounts(slots[p], 1 .. Len(written[p]), written[p])
    BY DEF ComponentInv
  <1>2. /\ \A i \in InputNames : left[i] = Cardinality(OpenCells(Current, i))
        /\ \A b \in Buses : \A k \in Cells(b) : \A f \in Fields :
              slots[<<b, k, f>>].state = "no" <=> f \in fieldsLeft[<<b, k>>]
    BY <1>1 DEF Counts, Current
  <1>3. ASSUME NEW i \in InputNames PROVE OpenCells(Current, i) = {}
    <2>1. OpenCells(Current, i) \in SUBSET Cells(i)
      BY DEF OpenCells
    <2>2. Cardinality(OpenCells(Current, i)) = 0
      BY <1>2
    <2>3. QED
      BY <2>1, <2>2, FewerOpen
  <1>4. PICK i \in InputNames : p \in PlacesOf(i, Cells(i))
    BY DEF Places
  <1>5. slots[p].state # "no"
    <2>1. CASE i \in Signals
      <3>1. PICK k \in Cells(i) : p = <<i, k, "all">>
        BY <1>4, <2>1 DEF PlacesOf
      <3>2. QED
        BY <1>3, <2>1, <3>1 DEF OpenCells, Current
    <2>2. CASE i \notin Signals
      <3>1. PICK k \in Cells(i), f \in Fields : p = <<i, k, f>>
        BY <1>4, <2>2 DEF PlacesOf
      <3>2. i \in Buses
        BY <2>2 DEF InputNames
      <3>3. fieldsLeft[<<i, k>>] = {}
        BY <1>3, <2>2 DEF OpenCells, Current
      <3>4. QED
        BY <1>2, <3>1, <3>2, <3>3
    <2>3. QED
      BY <2>1, <2>2
  <1>6. QED
    BY <1>1, <1>5 DEF Accounts

LEMMA FreshAccounts ==
    ASSUME NEW p \in Places, NEW w, w[p] = << >>
    PROVE  Accounts(Fresh.slots[p], 1 .. Len(w[p]), w[p])
  <1>1. Fresh.slots[p] = NoAssigned /\ 1 .. Len(w[p]) = {}
    BY DEF Fresh
  <1>2. QED
    BY <1>1 DEF Accounts, NoAssigned

NothingWritten == [p \in Places |-> << >>]

LEMMA NothingWaits == Waiting(NothingDelayed, NothingWritten)
  <1>1. Positions(NothingDelayed) = {}
    BY DEF Positions, InList, Lists, NothingDelayed
  <1>2. \A p : To(NothingDelayed, Positions(NothingDelayed), p) = {}
    BY <1>1 DEF To
  <1>3. \A p \in Places : Len(NothingWritten[p]) = 0 /\ NothingWritten[p] = << >>
    BY DEF NothingWritten
  <1>4. \A p \in Places : 1 .. Len(NothingWritten[p]) = {}
    BY <1>3
  <1>5. QED
    BY <1>2, <1>3, <1>4 DEF Waiting

LEMMA NothingType ==
    NothingDelayed \in [Lists -> Seq(Given)] /\ NothingWritten \in [Places -> Seq(Unders)]
  <1>1. << >> \in Seq(Given) /\ << >> \in Seq(Unders)
    BY EmptySeq
  <1>2. NothingDelayed = [k \in Lists |-> << >>]
    BY DEF NothingDelayed, Lists
  <1>3. QED
    BY <1>1, <1>2 DEF NothingWritten

LEMMA InitInv == ASSUME ComponentAssumption, Init PROVE ComponentInv
  <1>1. /\ phase = "none" /\ slots = Fresh.slots /\ surely = {} /\ fieldsLeft = Fresh.fieldsLeft
        /\ left = [i \in InputNames |-> 0] /\ tagsLeft = {} /\ tags = [t \in Tagged |-> NoTag]
        /\ delayed = NothingDelayed /\ conds = << >> /\ nextIf = 0
        /\ written = NothingWritten /\ carried = {} /\ verdict = "running"
    BY DEF Init, NothingWritten
  <1>2. Current \in Components
    <2>1. Fresh \in Components
      BY FreshType
    <2>2. /\ Fresh.slots \in [Places -> SlotStates] /\ Fresh.fieldsLeft \in [BusCells -> SUBSET Fields]
      BY <2>1 DEF Components
    <2>3. left \in [InputNames -> Int]
      BY <1>1
    <2>4. QED
      BY <1>1, <2>2, <2>3 DEF Current, Components
  <1>3. ComponentType
    <2>1. conds \in Unders /\ nextIf \in 0 .. MaxIfs
      BY <1>1 DEF Unders, ComponentAssumption
    <2>2. delayed \in [Lists -> Seq(Given)] /\ written \in [Places -> Seq(Unders)]
      BY <1>1, NothingType
    <2>3. QED
      BY <1>1, <1>2, <2>1, <2>2 DEF ComponentType
  <1>4. QED
    BY <1>1, <1>3 DEF ComponentInv, TagsOfOneInstance, OutputsNeedInputs

LEMMA CreateInv ==
    ASSUME ComponentAssumption, ComponentInv, Create
    PROVE  ComponentInv'
  <1>1. Accepted /\ conds' = conds /\ nextIf' = nextIf
    BY DEF Create, Running, Accepted
  <1>2. conds \in Unders /\ nextIf \in 0 .. MaxIfs
    BY DEF ComponentInv, ComponentType
  <1>3. CASE phase # "none" /\ ~ Anonymous
    <2>1. Idle /\ verdict' = "rejected"
      BY <1>3 DEF Create, Reject, Idle
    <2>2. OutputsNeedInputs'
      BY <2>1 DEF OutputsNeedInputs
    <2>3. QED
      BY <1>1, <1>2, <2>1, <2>2, IdleInv
  <1>4. CASE ~ (phase # "none" /\ ~ Anonymous)
    <2>1. /\ phase' = IF Tagged = {} THEN "initialized" ELSE "preinitialized"
          /\ left' = IF Tagged = {} THEN Fresh.left ELSE [i \in InputNames |-> 0]
          /\ slots' = Fresh.slots /\ surely' = {} /\ fieldsLeft' = Fresh.fieldsLeft
          /\ tagsLeft' = Tagged /\ tags' = [t \in Tagged |-> NoTag]
          /\ delayed' = NothingDelayed /\ written' = NothingWritten /\ carried' = {}
          /\ verdict' = "running"
      BY <1>4 DEF Create, Ready, NothingWritten
    <2>2. Fresh \in Components /\ Fresh.surely = {} /\ Fresh.ok = TRUE
      BY FreshType DEF Fresh
    <2>3. /\ Fresh.slots \in [Places -> SlotStates] /\ Fresh.fieldsLeft \in [BusCells -> SUBSET Fields]
          /\ left' \in [InputNames -> Int]
      BY <2>1, <2>2 DEF Components
    <2>4. Current' \in Components
      BY <2>1, <2>3 DEF Current, Components
    <2>5. ComponentType'
      <3>1. delayed' \in [Lists -> Seq(Given)] /\ written' \in [Places -> Seq(Unders)]
        BY <2>1, NothingType
      <3>2. QED
        BY <1>1, <1>2, <2>1, <2>4, <3>1 DEF ComponentType
    <2>6. Waiting(delayed', written')
      BY <2>1, NothingWaits
    <2>7. ASSUME NEW p \in Places PROVE Accounts(slots'[p], 1 .. Len(written'[p]), written'[p])
      BY <2>1, FreshAccounts DEF NothingWritten
    <2>8. Tagged = {} => Current' = Fresh
      BY <2>1, <2>2 DEF Current, Fresh
    <2>9. Tagged = {} => Counts(Current')
      BY <2>8, FreshCounts
    <2>10. TagsOfOneInstance' /\ OutputsNeedInputs'
      BY <2>1 DEF TagsOfOneInstance, OutputsNeedInputs
    <2>11. QED
      BY <2>1, <2>5, <2>6, <2>7, <2>9, <2>10 DEF ComponentInv
  <1>5. QED
    BY <1>3, <1>4

LEMMA AssignRejected ==
    ASSUME ComponentInv, Idle, verdict' = "rejected", UNCHANGED <<conds, nextIf>>
    PROVE  ComponentInv'
  <1>1. conds' \in Unders /\ nextIf' \in 0 .. MaxIfs
    BY DEF ComponentInv, ComponentType
  <1>2. OutputsNeedInputs' /\ ~ Accepted'
    BY DEF OutputsNeedInputs, Accepted
  <1>3. QED
    BY <1>1, <1>2, IdleInv

LEMMA AssignInv ==
    ASSUME ComponentAssumption, ComponentInv, NEW a \in Given, AssignInput(a)
    PROVE  ComponentInv'
  <1> DEFINE rest == tagsLeft \ Required(a)
             next == AfterInput(a)
  <1>1. /\ ComponentType /\ conds' = conds /\ nextIf' = nextIf /\ Accepted
        /\ verdict \in {"running", "outputs read"}
        /\ conds \in Unders /\ nextIf \in 0 .. MaxIfs
    BY DEF AssignInput, ComponentInv, ComponentType, Running, Accepted
  <1>2. CASE phase = "none" \/ ~ TagsAgree(a)
    BY <1>2, AssignRejected DEF AssignInput, Reject, Idle
  <1>3. CASE ~ (phase = "none" \/ ~ TagsAgree(a))
    <2>1. /\ tagsLeft' = rest
          /\ tags' = [t \in Tagged |-> IF t \in Required(a) THEN a.tag ELSE tags[t]]
          /\ carried' = carried \cup {<<t, a.tag>> : t \in Required(a)}
          /\ written' = Written(written, a)
      BY <1>3 DEF AssignInput, Written
    <2>2. /\ phase = "preinitialized" /\ rest # {} =>
                delayed' = Delayed(delayed, a) /\ UNCHANGED <<phase, component, verdict>>
          /\ ~ (phase = "preinitialized" /\ rest # {}) =>
                /\ phase' = "initialized" /\ delayed' = NothingDelayed /\ SetComponent(next)
                /\ IF next.ok THEN verdict' = verdict ELSE verdict' = "rejected"
      BY <1>3 DEF AssignInput, Ready, Reject
    <2>3. TagsAgree(a) /\ phase \in {"preinitialized", "initialized"}
      BY <1>1, <1>3 DEF ComponentType
    <2>4. InOrder(next, written')
      <3>1. CASE phase = "initialized"
        BY <1>1, <2>1, <3>1, InitializedNext DEF AfterInput, Current
      <3>2. CASE phase = "preinitialized"
        BY <1>1, <2>1, <3>2, ReplayNext DEF AfterInput
      <3>3. QED
        BY <2>3, <3>1, <3>2
    <2> HIDE DEF next
    <2>5. Accepted' => Accepted
      BY <1>1
    <2>6. tagsLeft' \subseteq Tagged /\ tags' \in [Tagged -> TagValues \cup {NoTag}]
      <3>1. a.tag \in TagValues \cup {NoTag} /\ tagsLeft \subseteq Tagged
            /\ tags \in [Tagged -> TagValues \cup {NoTag}]
        BY <1>1, GivenFacts DEF ComponentType
      <3>2. QED
        BY <2>1, <3>1
    <2>7. written' \in [Places -> Seq(Unders)]
      <3>1. written \in [Places -> Seq(Unders)] /\ a.under \in Unders
        BY <1>1, GivenFacts DEF ComponentType
      <3>2. QED
        BY <2>1, <3>1, WrittenNext DEF Written
    <2>8. \A x \in carried' : x[1] \in Tagged
      <3>1. \A x \in carried : x[1] \in Tagged
        BY <1>1 DEF ComponentType
      <3>2. \A x \in {<<t, a.tag>> : t \in Required(a)} : x[1] \in Tagged
        BY DEF Required
      <3>3. QED
        BY <2>1, <3>1, <3>2
    <2>9. TagsOfOneInstance'
      <3>1. Required(a) \subseteq Tagged
        BY DEF Required
      <3>2. \A t \in Required(a) \ tagsLeft : tags[t] = a.tag
        BY <2>3 DEF TagsAgree
      <3>3. \A x \in carried : x[1] \notin tagsLeft /\ tags[x[1]] = x[2]
        BY <1>1 DEF ComponentInv, TagsOfOneInstance
      <3>4. \A t \in Required(a) : t \notin tagsLeft' /\ tags'[t] = a.tag
        BY <2>1, <3>1
      <3>5. ASSUME NEW x \in carried' PROVE x[1] \notin tagsLeft' /\ tags'[x[1]] = x[2]
        <4>1. CASE x \in carried
          <5>1. x[1] \notin tagsLeft /\ tags[x[1]] = x[2]
            BY <3>3, <4>1
          <5>2. CASE x[1] \in Required(a)
            BY <3>2, <3>4, <5>1, <5>2
          <5>3. CASE x[1] \notin Required(a)
            <6>1. x[1] \notin tagsLeft' /\ x[1] \in Tagged
              BY <1>1, <2>1, <4>1, <5>1 DEF ComponentType
            <6>2. tags'[x[1]] = tags[x[1]]
              BY <2>1, <5>3, <6>1
            <6>3. QED
              BY <5>1, <6>1, <6>2
          <5>4. QED
            BY <5>2, <5>3
        <4>2. CASE x \in {<<t, a.tag>> : t \in Required(a)}
          BY <3>4, <4>2
        <4>3. QED
          BY <2>1, <4>1, <4>2
      <3>6. QED
        BY <3>5 DEF TagsOfOneInstance
    <2>10. MaxIfs = 0 => OutputsNeedInputs'
      <3>1. ASSUME MaxIfs = 0, verdict' \in {"outputs read", "accepted"}, NEW p \in Places
            PROVE  written'[p] # << >>
        <4>1. verdict' = verdict
          BY <2>2, <3>1 DEF component
        <4>2. verdict = "outputs read"
          BY <1>1, <3>1, <4>1
        <4>3. written[p] # << >>
          BY <2>3, <3>1, <4>2 DEF ComponentInv, OutputsNeedInputs
        <4>4. written \in [Places -> Seq(Unders)] /\ a.under \in Unders
          BY <1>1, GivenFacts DEF ComponentType
        <4>5. QED
          BY <2>1, <4>3, <4>4, WrittenNext
      <3>2. QED
        BY <3>1 DEF OutputsNeedInputs
    <2>11. CASE phase = "preinitialized" /\ rest # {}
      <3>1. /\ delayed' = Delayed(delayed, a) /\ phase' = phase /\ slots' = slots
            /\ surely' = surely /\ fieldsLeft' = fieldsLeft /\ left' = left
        BY <2>2, <2>11 DEF component
      <3>2. delayed' \in [Lists -> Seq(Given)] /\ Waiting(delayed', written')
        <4>1. /\ delayed \in [Lists -> Seq(Given)] /\ written \in [Places -> Seq(Unders)]
              /\ a.under \in Unders /\ Waiting(delayed, written)
          BY <2>11, GivenFacts DEF ComponentInv, ComponentType
        <4>2. QED
          BY <2>1, <3>1, <4>1, DelayedFacts, WaitingNext
      <3>3. Current' = Current /\ Current \in Components
        BY <1>1, <3>1 DEF Current, ComponentType
      <3>4. ComponentType'
        BY <1>1, <2>6, <2>7, <2>11, <2>8, <3>1, <3>2, <3>3 DEF ComponentType
      <3>5. \A i \in InputNames : left'[i] = 0
        BY <2>11, <3>1 DEF ComponentInv
      <3>6. QED
        BY <2>1, <2>9, <2>10, <2>11, <3>1, <3>2, <3>4, <3>5 DEF ComponentInv
    <2>12. CASE ~ (phase = "preinitialized" /\ rest # {})
      <3>1. /\ phase' = "initialized" /\ delayed' = NothingDelayed
            /\ slots' = next.slots /\ surely' = next.surely
            /\ fieldsLeft' = next.fieldsLeft /\ left' = next.left
            /\ Accepted' => next.ok
        BY <2>2, <2>12 DEF SetComponent, Accepted
      <3>2. next \in Components
        BY <2>4 DEF InOrder
      <3>3. Current' \in Components /\ (next.ok => Current' = next)
        BY <3>1, <3>2 DEF Current, Components
      <3>4. tagsLeft' = {}
        BY <2>1, <2>3, <2>12 DEF ComponentInv
      <3>5. ComponentType'
        <4>1. delayed' \in [Lists -> Seq(Given)]
          BY <3>1, NothingType
        <4>2. QED
          BY <1>1, <2>6, <2>7, <2>8, <3>1, <3>3, <4>1 DEF ComponentType
      <3>6. ASSUME Accepted'
            PROVE  /\ \A p \in Places : Accounts(slots'[p], 1 .. Len(written'[p]), written'[p])
                   /\ MaxIfs = 0 => Counts(Current')
        BY <2>4, <3>1, <3>3, <3>6 DEF InOrder
      <3>7. QED
        BY <2>9, <2>10, <3>1, <3>4, <3>5, <3>6 DEF ComponentInv
    <2>13. QED
      BY <2>11, <2>12
  <1>4. QED
    BY <1>2, <1>3

LEMMA ReadOutputInv ==
    ASSUME ComponentAssumption, ComponentInv, ReadOutput
    PROVE  ComponentInv'
  <1>1. Idle /\ UNCHANGED <<conds, nextIf>> /\ Accepted
    BY DEF ReadOutput, Idle, Running, Accepted
  <1>2. conds' \in Unders /\ nextIf' \in 0 .. MaxIfs
    BY <1>1 DEF ComponentInv, ComponentType
  <1>3. ASSUME MaxIfs = 0 PROVE OutputsNeedInputs'
    <2>1. ASSUME verdict' \in {"outputs read", "accepted"}, NEW p \in Places
          PROVE  written'[p] # << >>
      <3>1. phase = "initialized" /\ \A i \in InputNames : left[i] = 0
        BY <2>1 DEF ReadOutput, Reject
      <3>2. written[p] # << >>
        BY <1>1, <1>3, <3>1, NothingMissing
      <3>3. QED
        BY <1>1, <3>2 DEF Idle
    <2>2. QED
      BY <2>1 DEF OutputsNeedInputs
  <1>4. QED
    BY <1>1, <1>2, <1>3, IdleInv

LEMMA EndTemplateInv ==
    ASSUME ComponentAssumption, ComponentInv, EndTemplate
    PROVE  ComponentInv'
  <1>1. Idle /\ UNCHANGED <<conds, nextIf>> /\ Accepted
    BY DEF EndTemplate, Idle, Running, Accepted
  <1>2. conds' \in Unders /\ nextIf' \in 0 .. MaxIfs
    BY <1>1 DEF ComponentInv, ComponentType
  <1>3. ASSUME MaxIfs = 0 PROVE OutputsNeedInputs'
    <2>1. ASSUME verdict' \in {"outputs read", "accepted"}, phase # "none", NEW p \in Places
          PROVE  written'[p] # << >>
      <3>1. tagsLeft = {} /\ \A i \in InputNames : left[i] = 0
        BY <2>1 DEF EndTemplate
      <3>2. phase = "initialized"
        BY <2>1, <3>1 DEF ComponentInv, ComponentType
      <3>3. written[p] # << >>
        BY <1>1, <1>3, <3>1, <3>2, NothingMissing
      <3>4. QED
        BY <1>1, <3>3 DEF Idle
    <2>2. phase' = phase
      BY <1>1 DEF Idle
    <2>3. QED
      BY <2>1, <2>2 DEF OutputsNeedInputs
  <1>4. QED
    BY <1>1, <1>2, <1>3, IdleInv

\* The branches of an unknown `if`.
LEMMA BranchInv ==
    ASSUME ComponentAssumption, ComponentInv, EnterIf \/ EnterElse \/ EndIf
    PROVE  ComponentInv'
  <1>1. Idle /\ verdict' = verdict
    BY DEF EnterIf, EnterElse, EndIf, Idle
  <1>2. conds \in Unders /\ nextIf \in 0 .. MaxIfs /\ MaxIfs \in Nat
    BY DEF ComponentInv, ComponentType, ComponentAssumption
  <1>3. conds' \in Unders /\ nextIf' \in 0 .. MaxIfs
    <2>1. ASSUME NEW i \in 0 .. MaxIfs - 1, NEW b \in BOOLEAN PROVE <<<<i, b>>>> \in Unders
      BY DEF Unders
    <2>2. CASE EnterIf
      <3>1. conds' = <<<<nextIf, TRUE>>>> /\ nextIf' = nextIf + 1 /\ nextIf < MaxIfs
        BY <2>2 DEF EnterIf
      <3>2. nextIf \in 0 .. MaxIfs - 1 /\ TRUE \in BOOLEAN /\ nextIf' \in 0 .. MaxIfs
        BY <1>2, <3>1
      <3>3. QED
        BY <2>1, <3>1, <3>2
    <2>3. CASE EnterElse
      <3>1. conds # << >> /\ conds' = <<<<conds[1][1], FALSE>>>> /\ nextIf' = nextIf
        BY <2>3 DEF EnterElse
      <3>2. PICK i \in 0 .. MaxIfs - 1, b \in BOOLEAN : conds = <<<<i, b>>>>
        BY <1>2, <3>1 DEF Unders
      <3>3. conds' = <<<<i, FALSE>>>>
        BY <3>1, <3>2
      <3>4. FALSE \in BOOLEAN
        OBVIOUS
      <3>5. QED
        BY <1>2, <2>1, <3>1, <3>3, <3>4
    <2>4. CASE EndIf
      BY <1>2, <2>4 DEF EndIf, Unders
    <2>5. QED
      BY <2>2, <2>3, <2>4
  <1>4. MaxIfs = 0 => OutputsNeedInputs'
    <2>1. phase' = phase /\ written' = written
      BY <1>1 DEF Idle
    <2>2. QED
      BY <1>1, <2>1 DEF ComponentInv, OutputsNeedInputs
  <1>5. Accepted' => Accepted
    BY <1>1 DEF Accepted
  <1>6. QED
    BY <1>1, <1>3, <1>4, <1>5, IdleInv

LEMMA ComponentKept ==
    ASSUME ComponentAssumption, ComponentInv, [Next]_vars
    PROVE  ComponentInv'
  <1>1. CASE Create
    BY <1>1, CreateInv
  <1>2. CASE Assign
    <2>1. PICK a \in Assignments : WellFormed(a) /\ AssignInput([a EXCEPT !.under = conds])
      BY <1>2 DEF Assign
    <2> DEFINE g == [a EXCEPT !.under = conds]
    <2>2. conds \in Unders
      BY DEF ComponentInv, ComponentType
    <2>3. /\ g \in [input : InputNames, cells : SUBSET UNION {Cells(i) : i \in InputNames},
                    field : {"all"} \cup Fields, tag : TagValues \cup {NoTag}, under : Unders]
          /\ g.input = a.input /\ g.cells = a.cells /\ g.field = a.field /\ g.tag = a.tag
      BY <2>2 DEF Assignments
    <2> HIDE DEF g
    <2>4. WellFormed(g)
      BY <2>1, <2>3 DEF WellFormed, Required
    <2>5. g \in Given
      BY <2>3, <2>4 DEF Given
    <2>6. QED
      BY <2>1, <2>5, AssignInv DEF g
  <1>3. CASE ReadOutput
    BY <1>3, ReadOutputInv
  <1>4. CASE EnterIf \/ EnterElse \/ EndIf
    BY <1>4, BranchInv
  <1>5. CASE EndTemplate
    BY <1>5, EndTemplateInv
  <1>6. CASE UNCHANGED vars
    <2>1. Idle /\ UNCHANGED <<conds, nextIf, verdict>>
      BY <1>6 DEF vars, Idle
    <2>2. conds' \in Unders /\ nextIf' \in 0 .. MaxIfs
      BY <2>1 DEF ComponentInv, ComponentType
    <2>3. Accepted' => Accepted
      BY <2>1 DEF Accepted
    <2>4. phase' = phase /\ written' = written /\ verdict' = verdict
      BY <2>1 DEF Idle
    <2>5. MaxIfs = 0 => OutputsNeedInputs'
      BY <2>4 DEF ComponentInv, OutputsNeedInputs
    <2>6. QED
      BY <2>1, <2>2, <2>3, <2>5, IdleInv
  <1>7. QED
    BY <1>1, <1>2, <1>3, <1>4, <1>5, <1>6 DEF Next

-----------------------------------------------------------------------------
(***************************************************************************)
(* What the invariant implies.                                             *)
(***************************************************************************)
LEMMA TypeOf == ASSUME ComponentAssumption, ComponentInv PROVE TypeOK
  <1>1. ComponentType /\ Current \in Components
    BY DEF ComponentInv, ComponentType
  <1>2. ASSUME NEW u \in Unders PROVE u \in Seq((0 .. MaxIfs) \X BOOLEAN)
    <2>1. CASE u = << >>
      BY <2>1
    <2>2. CASE u # << >>
      <3>1. PICK i \in 0 .. MaxIfs - 1, b \in BOOLEAN : u = <<<<i, b>>>>
        BY <2>2 DEF Unders
      <3>2. i \in 0 .. MaxIfs
        BY DEF ComponentAssumption
      <3>3. <<i, b>> \in (0 .. MaxIfs) \X BOOLEAN
        BY <3>2
      <3>4. QED
        BY <3>1, <3>3
    <2>3. QED
      BY <2>1, <2>2
  <1>3. SlotStates \subseteq [state : {"no", "yes", "might"}, under : Seq((0 .. MaxIfs) \X BOOLEAN)]
    BY <1>2 DEF SlotStates
  <1>4. /\ slots \in [Places -> SlotStates] /\ surely \subseteq BusCells
        /\ fieldsLeft \in [BusCells -> SUBSET Fields] /\ left \in [InputNames -> Int]
    BY <1>1 DEF Current, Components
  <1>5. slots \in [Places -> [state : {"no", "yes", "might"}, under : Seq((0 .. MaxIfs) \X BOOLEAN)]]
    BY <1>3, <1>4
  <1>6. phase = "initialized" => tagsLeft = {} /\ delayed = NothingDelayed
    BY DEF ComponentInv
  <1>7. QED
    BY <1>1, <1>4, <1>5, <1>6 DEF TypeOK, ComponentType

LEMMA AppliedOf == ASSUME ComponentInv PROVE DelayedAssignmentsApplied
  <1>1. ASSUME phase = "initialized", Accepted, NEW p \in Places
        PROVE  slots[p].state = "no" <=> written[p] = << >>
    <2>1. slots[p].state = "no" <=> 1 .. Len(written[p]) = {}
      BY <1>1 DEF ComponentInv, Accounts
    <2>2. written[p] \in Seq(Unders)
      BY DEF ComponentInv, ComponentType
    <2>3. Len(written[p]) \in Nat /\ (written[p] = << >> <=> Len(written[p]) = 0)
      BY <2>2, EmptySeq, LenProperties
    <2>4. Len(written[p]) # 0 => 1 \in 1 .. Len(written[p])
      BY <2>3
    <2>5. Len(written[p]) = 0 => 1 .. Len(written[p]) = {}
      BY <2>3
    <2>6. QED
      BY <2>1, <2>3, <2>4, <2>5
  <1>2. QED
    BY <1>1 DEF DelayedAssignmentsApplied

LEMMA OnceOf == ASSUME ComponentInv PROVE PlacesWrittenOnce
  <1>1. ASSUME phase = "initialized", Accepted, NEW p \in Places,
               NEW i \in 1 .. Len(written[p]), NEW j \in 1 .. Len(written[p]), i < j
        PROVE  Exclusive(written[p][i], written[p][j])
    <2>1. Accounts(slots[p], 1 .. Len(written[p]), written[p])
      BY <1>1 DEF ComponentInv
    <2>2. i # j
      BY <1>1
    <2>3. QED
      BY <2>1, <2>2 DEF Accounts
  <1>2. QED
    BY <1>1 DEF PlacesWrittenOnce, Exclusive

LEMMA CountersOf == ASSUME ComponentAssumption, ComponentInv, MaxIfs = 0 PROVE CountersDoNotWrap
  <1>1. ASSUME Accepted, NEW i \in InputNames PROVE left[i] >= 0
    <2>1. CASE phase # "initialized"
      BY <2>1 DEF ComponentInv
    <2>2. CASE phase = "initialized"
      <3>1. left[i] = Cardinality(OpenCells(Current, i))
        BY <1>1, <2>2 DEF ComponentInv, Counts, Current
      <3>2. OpenCells(Current, i) \in SUBSET Cells(i)
        BY DEF OpenCells
      <3>3. Cardinality(OpenCells(Current, i)) \in Nat
        BY <3>2, FewerOpen
      <3>4. QED
        BY <3>1, <3>3
    <2>3. QED
      BY <2>1, <2>2
  <1>2. QED
    BY <1>1 DEF CountersDoNotWrap

LEMMA ComponentHolds == ASSUME ComponentAssumption PROVE Spec => []ComponentInv
  <1>1. Init => ComponentInv
    BY InitInv
  <1>2. ComponentInv /\ [Next]_vars => ComponentInv'
    BY ComponentKept
  <1>3. QED
    BY <1>1, <1>2, PTL DEF Spec

\* Every reachable state of a component is well typed; it is initialized only when its
\* tags are known and nothing waits any more (preinitialize_component,
\* is_ready_initialize, initialize_component).
THEOREM ComponentTypeOK == ASSUME ComponentAssumption PROVE Spec => []TypeOK
  <1>1. ComponentInv => TypeOK
    BY TypeOf
  <1>2. QED
    BY <1>1, ComponentHolds, PTL

\* No assignment is lost or invented while it waits for the tags, whatever unknown ifs
\* they stand under: after the replay in three lists exactly the places written are
\* assigned (initialize_component).
THEOREM DelayedApplied == ASSUME ComponentAssumption PROVE Spec => []DelayedAssignmentsApplied
  <1>1. ComponentInv => DelayedAssignmentsApplied
    BY AppliedOf
  <1>2. QED
    BY <1>1, ComponentHolds, PTL

\* The replay in another order than the program's accepts no two assignments of a place
\* other than those in the two branches of one `if` (perform_signal_assignment).
THEOREM WrittenOnce == ASSUME ComponentAssumption PROVE Spec => []PlacesWrittenOnce
  <1>1. ComponentInv => PlacesWrittenOnce
    BY OnceOf
  <1>2. QED
    BY <1>1, ComponentHolds, PTL

\* Every assignment accepted, before or after the initialization, brought the tag values
\* that the template is executed with (handle_tag_assignment_no_init and _init).
THEOREM OneInstance == ASSUME ComponentAssumption PROVE Spec => []TagsOfOneInstance
  <1>1. ComponentInv => TagsOfOneInstance
    BY DEF ComponentInv
  <1>2. QED
    BY <1>1, ComponentHolds, PTL

\* Without unknown ifs, outputs are read and the template is accepted only when every
\* place of every input has a value, and no counter of missing inputs wraps around
\* (update_unassigned_inputs, check_initialized_inputs).
THEOREM InputsAreCounted ==
    ASSUME ComponentAssumption, MaxIfs = 0
    PROVE  Spec => [](OutputsNeedInputs /\ CountersDoNotWrap)
  <1>1. ComponentInv => OutputsNeedInputs /\ CountersDoNotWrap
    BY CountersOf DEF ComponentInv
  <1>2. QED
    BY <1>1, ComponentHolds, PTL
=============================================================================
