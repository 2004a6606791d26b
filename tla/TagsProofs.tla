----------------------------- MODULE TagsProofs -----------------------------
(***************************************************************************)
(* Proofs about tags, for every set of tags and values, wires of every     *)
(* size and every bound on unknown ifs: what a wire hands on was carried   *)
(* by every expression assigned to it, what they agree on is handed on,    *)
(* and a value is read or exported only when the wire is complete.  The    *)
(* latter are of a wire of signals; of buses some are false: their         *)
(* remaining_inserts also counts a cell twice that is assigned twice.      *)
(*                                                                         *)
(* WireInv is the invariant of the tags of every wire, and SignalInv says  *)
(* of an array of signals that remaining_inserts counts the cells without  *)
(* a value, as long as the expressions assigned have a tag in common.      *)
(***************************************************************************)
EXTENDS Tags, FiniteSetTheorems, TLAPS

TagStates == [defined : BOOLEAN, valued : BOOLEAN]

\* The expressions assigned to w so far all have value v of tag t.
AllCarry(w, t, v) == \A c \in CellsOf(w) : \A e \in carried[w][c] : e[t] = v

WireType ==
    /\ tags \in [Wires -> TagInfo]
    /\ defs \in [Wires -> [TagNames -> TagStates]]
    /\ isInit \in [Wires -> BOOLEAN]
    /\ DOMAIN carried = Wires
    /\ \A w \in Wires : carried[w] \in [CellsOf(w) -> SUBSET TagInfo]

\* Of one tag of a wire: tags, the tag's definition, is_init and what was carried.
TagInv(w, t) ==
    /\ defs[w][t].defined => tags[w][t] # Absent
    /\ defs[w][t].valued => defs[w][t].defined /\ tags[w][t] \in Values
    /\ ~ isInit[w] /\ ~ defs[w][t].defined => tags[w][t] = Absent
    /\ ~ defs[w][t].valued =>
         /\ tags[w][t] \in Values \/ (tags[w][t] = None /\ ~ defs[w][t].defined)
              => AllCarry(w, t, tags[w][t])
         /\ \A v \in {None} \cup Values : isInit[w] /\ AllCarry(w, t, v) => tags[w][t] = v

WireInv(w) ==
    /\ \A t \in TagNames : TagInv(w, t)
    /\ ~ isInit[w] => \A c \in CellsOf(w) : carried[w][c] = {}

TagsInv == WireType /\ \A w \in Wires : WireInv(w)

-----------------------------------------------------------------------------
(***************************************************************************)
(* An assignment to some cells of a wire.                                  *)
(***************************************************************************)
Given(w, cs, new) ==
    /\ tags'[w] = Propagated(w, new)
    /\ isInit'[w] = TRUE
    /\ carried'[w] = Carry(w, cs, new)

\* All cells carry v afterwards when they did and the new expression does too.
LEMMA AllCarryGiven ==
    ASSUME WireType, NEW w \in Wires, NEW t \in TagNames, NEW v,
           NEW cs \in SUBSET CellsOf(w), cs # {}, NEW new, Given(w, cs, new)
    PROVE  AllCarry(w, t, v)' <=> AllCarry(w, t, v) /\ new[t] = v
  <1>1. \A c \in CellsOf(w) :
          carried'[w][c] = IF c \in cs THEN carried[w][c] \cup {new} ELSE carried[w][c]
    BY DEF Given, Carry
  <1>2. PICK k \in CellsOf(w) : k \in cs
    OBVIOUS
  <1>3. ASSUME AllCarry(w, t, v)' PROVE AllCarry(w, t, v) /\ new[t] = v
    BY <1>1, <1>2, <1>3 DEF AllCarry
  <1>4. ASSUME AllCarry(w, t, v), new[t] = v PROVE AllCarry(w, t, v)'
    BY <1>1, <1>4 DEF AllCarry
  <1>5. QED
    BY <1>3, <1>4

LEMMA GivenTag ==
    ASSUME TagsAssumption, WireType, NEW w \in Wires, WireInv(w), NEW t \in TagNames,
           NEW cs \in SUBSET CellsOf(w), cs # {}, NEW new \in TagInfo, Given(w, cs, new),
           defs' = defs
    PROVE  TagInv(w, t)' /\ tags'[w][t] \in {Absent, None} \cup Values
  <1> DEFINE x == tags[w][t]
             y == new[t]
             declared == defs[w][t].defined
             valued == defs[w][t].valued
             init == isInit[w]
  <1>1. /\ x \in {Absent, None} \cup Values /\ y \in {Absent, None} \cup Values
        /\ declared \in BOOLEAN /\ valued \in BOOLEAN /\ init \in BOOLEAN
    BY DEF WireType, TagInfo, TagStates
  <1>2. Absent \notin Values /\ None \notin Values /\ Absent # None
    BY DEF TagsAssumption
  <1>3. tags'[w][t] =
          IF valued THEN x
          ELSE IF declared THEN IF y # Absent /\ (init => y = x) THEN y ELSE None
          ELSE IF x # Absent THEN IF y = x THEN x ELSE Absent
          ELSE IF init THEN Absent ELSE y
    BY DEF Given, Propagated
  <1>4. \A v : AllCarry(w, t, v)' <=> AllCarry(w, t, v) /\ y = v
    BY AllCarryGiven
  <1>5. /\ declared => x # Absent
        /\ valued => declared /\ x \in Values
        /\ ~ init /\ ~ declared => x = Absent
        /\ ~ valued =>
             /\ x \in Values \/ (x = None /\ ~ declared) => AllCarry(w, t, x)
             /\ \A v \in {None} \cup Values : init /\ AllCarry(w, t, v) => x = v
    BY DEF WireInv, TagInv
  <1>6. ~ init => \A v : AllCarry(w, t, v)
    BY DEF WireInv, AllCarry
  <1>7. isInit'[w]
    BY DEF Given
  <1> DEFINE z == tags'[w][t]
  <1>8. z \in {Absent, None} \cup Values
    BY <1>1, <1>3
  <1>9. (declared => z # Absent) /\ (valued => declared /\ z \in Values)
    BY <1>2, <1>3, <1>5
  <1>10. ~ valued /\ (z \in Values \/ (z = None /\ ~ declared)) => AllCarry(w, t, z) /\ y = z
    <2> SUFFICES ASSUME ~ valued, z \in Values \/ (z = None /\ ~ declared)
                 PROVE  AllCarry(w, t, z) /\ y = z
      OBVIOUS
    <2>1. CASE declared
      BY <1>2, <1>3, <1>5, <1>6, <2>1
    <2>2. CASE ~ declared
      BY <1>2, <1>3, <1>5, <1>6, <2>2
    <2>3. QED
      BY <2>1, <2>2
  <1>11. ASSUME ~ valued, NEW v \in {None} \cup Values, AllCarry(w, t, v), y = v
         PROVE  z = v
    <2>1. init => x = v
      BY <1>5, <1>11
    <2>2. v # Absent
      BY <1>2
    <2>3. QED
      BY <1>3, <1>5, <1>11, <2>1, <2>2
  <1> HIDE DEF x, y, declared, valued, init, z
  <1>12. TagInv(w, t)'
    <2>1. defs'[w][t].defined = declared /\ defs'[w][t].valued = valued /\ tags'[w][t] = z
      BY DEF declared, valued, z
    <2>2. \A v : AllCarry(w, t, v)' <=> AllCarry(w, t, v) /\ y = v
      BY <1>4
    <2>3. QED
      BY <1>7, <1>9, <1>10, <1>11, <2>1, <2>2 DEF TagInv
  <1>13. QED
    BY <1>8, <1>12 DEF z

LEMMA GivenWire ==
    ASSUME TagsAssumption, WireType, NEW w \in Wires, WireInv(w),
           NEW cs \in SUBSET CellsOf(w), cs # {}, NEW new \in TagInfo, Given(w, cs, new),
           defs' = defs
    PROVE  /\ WireInv(w)' /\ tags'[w] \in TagInfo /\ isInit'[w] \in BOOLEAN
           /\ carried'[w] \in [CellsOf(w) -> SUBSET TagInfo]
  <1>1. \A t \in TagNames : TagInv(w, t)' /\ tags'[w][t] \in {Absent, None} \cup Values
    BY GivenTag
  <1>2. tags'[w] \in TagInfo
    <2>1. tags'[w] = [t \in TagNames |-> tags'[w][t]]
      BY DEF Given, Propagated
    <2>2. QED
      BY <1>1, <2>1 DEF TagInfo
  <1>3. carried'[w] \in [CellsOf(w) -> SUBSET TagInfo]
    BY DEF Given, Carry, WireType
  <1>4. QED
    BY <1>1, <1>2, <1>3 DEF WireInv, Given

\* A wire that a step leaves alone.
LEMMA SameWire ==
    ASSUME NEW w \in Wires, WireInv(w), defs'[w] = defs[w], tags'[w] = tags[w],
           isInit'[w] = isInit[w], carried'[w] = carried[w]
    PROVE  WireInv(w)'
  BY DEF WireInv, TagInv, AllCarry
-----------------------------------------------------------------------------
(***************************************************************************)
(* Every step keeps the invariant of the tags.                             *)
(***************************************************************************)
LEMMA TagsInvOf ==
    ASSUME WireType, tags' = [w \in Wires |-> tags'[w]], defs' = defs,
           isInit' = [w \in Wires |-> isInit'[w]], DOMAIN carried' = Wires,
           \A w \in Wires :
               /\ WireInv(w)' /\ tags'[w] \in TagInfo /\ isInit'[w] \in BOOLEAN
               /\ carried'[w] \in [CellsOf(w) -> SUBSET TagInfo]
    PROVE  TagsInv'
  <1>1. tags' \in [Wires -> TagInfo] /\ isInit' \in [Wires -> BOOLEAN]
    BY Zenon
  <1>2. WireType'
    BY <1>1 DEF WireType
  <1>3. QED
    BY <1>2 DEF TagsInv

\* An assignment to one wire.
LEMMA OneWireGiven ==
    ASSUME TagsAssumption, TagsInv, NEW w \in Wires,
           NEW cs \in SUBSET CellsOf(w), cs # {}, NEW new \in TagInfo,
           tags' = [tags EXCEPT ![w] = Propagated(w, new)],
           isInit' = [isInit EXCEPT ![w] = TRUE],
           carried' = [carried EXCEPT ![w] = Carry(w, cs, new)],
           defs' = defs
    PROVE  TagsInv'
  <1>1. WireType /\ \A x \in Wires : WireInv(x)
    BY DEF TagsInv
  <1>2. Given(w, cs, new)
    BY <1>1 DEF Given, WireType
  <1>3. ASSUME NEW x \in Wires
        PROVE  /\ WireInv(x)' /\ tags'[x] \in TagInfo /\ isInit'[x] \in BOOLEAN
               /\ carried'[x] \in [CellsOf(x) -> SUBSET TagInfo]
    <2>1. CASE x = w
      BY <1>1, <1>2, <2>1, GivenWire
    <2>2. CASE x # w
      <3>1. tags'[x] = tags[x] /\ isInit'[x] = isInit[x] /\ carried'[x] = carried[x]
        BY <1>1, <2>2 DEF WireType
      <3>2. WireInv(x)'
        BY <1>1, <3>1, SameWire
      <3>3. QED
        BY <1>1, <3>1, <3>2 DEF WireType
    <2>3. QED
      BY <2>1, <2>2
  <1>4. /\ tags' = [x \in Wires |-> tags'[x]] /\ isInit' = [x \in Wires |-> isInit'[x]]
        /\ DOMAIN carried' = Wires
    BY <1>1 DEF WireType
  <1>5. QED
    BY <1>1, <1>3, <1>4, TagsInvOf

\* One cell or the whole wire.
LEMMA SomeCells ==
    ASSUME TagsAssumption, NEW w \in {"s", "b", "f"}, NEW cs \in Some(w)
    PROVE  cs \in SUBSET CellsOf(w) /\ cs # {}
  <1>1. SCells \in Nat \ {0} /\ BCells \in Nat \ {0} /\ FCells \in Nat \ {0}
    BY DEF TagsAssumption
  <1>2. 1 \in 1 .. SCells /\ 1 \in 1 .. BCells /\ <<1, 1>> \in (1 .. BCells) \X (1 .. FCells)
    BY <1>1
  <1>3. CellsOf(w) # {}
    BY <1>2 DEF CellsOf
  <1>4. QED
    BY <1>3 DEF Some

LEMMA NoTagsType == NoTags \in TagInfo
  BY DEF NoTags, TagInfo

LEMMA AssignSignalTags ==
    ASSUME TagsAssumption, TagsInv, "s" \in Wires, NEW cs \in Some("s"), NEW e \in TagInfo, NEW op,
           AssignSignal(cs, e, op)
    PROVE  TagsInv'
  <1> DEFINE new == IF op = "<==" THEN e ELSE NoTags
  <1>1. cs \in SUBSET CellsOf("s") /\ cs # {} /\ new \in TagInfo
    BY SomeCells, NoTagsType
  <1>2. /\ tags' = [tags EXCEPT !["s"] = Propagated("s", new)]
        /\ isInit' = [isInit EXCEPT !["s"] = TRUE]
        /\ carried' = [carried EXCEPT !["s"] = Carry("s", cs, new)]
        /\ defs' = defs
    BY DEF AssignSignal
  <1> HIDE DEF new
  <1>3. QED
    BY <1>1, <1>2, OneWireGiven

LEMMA AssignFieldTags ==
    ASSUME TagsAssumption, TagsInv, "f" \in Wires, NEW cs \in Some("f"), NEW e \in TagInfo, NEW op,
           AssignField(cs, e, op)
    PROVE  TagsInv'
  <1> DEFINE new == IF op = "<==" THEN e ELSE NoTags
  <1>1. cs \in SUBSET CellsOf("f") /\ cs # {} /\ new \in TagInfo
    BY SomeCells, NoTagsType
  <1>2. /\ tags' = [tags EXCEPT !["f"] = Propagated("f", new)]
        /\ isInit' = [isInit EXCEPT !["f"] = TRUE]
        /\ carried' = [carried EXCEPT !["f"] = Carry("f", cs, new)]
        /\ defs' = defs
    BY DEF AssignField
  <1> HIDE DEF new
  <1>3. QED
    BY <1>1, <1>2, OneWireGiven

\* A bus and its field are assigned together.
LEMMA AssignBusTags ==
    ASSUME TagsAssumption, TagsInv, "b" \in Wires, NEW is \in Some("b"),
           NEW e \in TagInfo, NEW ef \in TagInfo, AssignBus(is, e, ef)
    PROVE  TagsInv'
  <1> DEFINE fs == is \X (1 .. FCells)
  <1>1. WireType /\ \A x \in Wires : WireInv(x)
    BY DEF TagsInv
  <1>2. "f" \in Wires
    BY DEF TagsAssumption
  <1>3. is \in SUBSET CellsOf("b") /\ is # {}
    BY SomeCells
  <1>4. fs \in SUBSET CellsOf("f") /\ fs # {}
    <2>1. PICK i \in is : TRUE
      BY <1>3
    <2>2. 1 \in 1 .. FCells
      BY DEF TagsAssumption
    <2>3. <<i, 1>> \in fs
      BY <2>2
    <2>4. is \in SUBSET (1 .. BCells)
      BY <1>3 DEF CellsOf
    <2>5. QED
      BY <2>3, <2>4 DEF CellsOf
  <1>5. /\ tags' = [tags EXCEPT !["b"] = Propagated("b", e), !["f"] = Propagated("f", ef)]
        /\ isInit' = [isInit EXCEPT !["b"] = TRUE, !["f"] = TRUE]
        /\ carried' = [carried EXCEPT !["b"] = Carry("b", is, e), !["f"] = Carry("f", fs, ef)]
        /\ defs' = defs
    BY DEF AssignBus
  <1> HIDE DEF fs
  <1>6. Given("b", is, e) /\ Given("f", fs, ef)
    BY <1>1, <1>2, <1>5 DEF Given, WireType
  <1>7. ASSUME NEW x \in Wires
        PROVE  /\ WireInv(x)' /\ tags'[x] \in TagInfo /\ isInit'[x] \in BOOLEAN
               /\ carried'[x] \in [CellsOf(x) -> SUBSET TagInfo]
    <2>1. CASE x = "b"
      BY <1>1, <1>3, <1>5, <1>6, <2>1, GivenWire
    <2>2. CASE x = "f"
      BY <1>1, <1>4, <1>5, <1>6, <2>2, GivenWire
    <2>3. CASE x # "b" /\ x # "f"
      <3>1. tags'[x] = tags[x] /\ isInit'[x] = isInit[x] /\ carried'[x] = carried[x]
        BY <1>1, <1>5, <2>3 DEF WireType
      <3>2. WireInv(x)'
        BY <1>1, <1>5, <3>1, SameWire
      <3>3. QED
        BY <1>1, <3>1, <3>2 DEF WireType
    <2>4. QED
      BY <2>1, <2>2, <2>3
  <1>8. /\ tags' = [x \in Wires |-> tags'[x]] /\ isInit' = [x \in Wires |-> isInit'[x]]
        /\ DOMAIN carried' = Wires
    BY <1>1, <1>5 DEF WireType
  <1>9. QED
    BY <1>1, <1>5, <1>7, <1>8, TagsInvOf

LEMMA SetValued ==
    ASSUME NEW r \in TagStates, NEW b \in BOOLEAN
    PROVE  [r EXCEPT !.valued = b] = [defined |-> r.defined, valued |-> b]
  BY DEF TagStates

\* A tag gets its value from the program, before the wire has any.
LEMMA AssignTagTags ==
    ASSUME TagsAssumption, TagsInv, NEW w \in Wires, NEW t \in TagNames, NEW v \in Values,
           defs[w][t].defined, AssignTag(w, t, v)
    PROVE  TagsInv'
  <1>1. WireType /\ \A x \in Wires : WireInv(x)
    BY DEF TagsInv
  <1>2. CASE conds # << >> \/ isInit[w] \/ tags[w][t] \in Values
    <2>1. tags' = tags /\ defs' = defs /\ isInit' = isInit /\ carried' = carried
      BY <1>2 DEF AssignTag, wires
    <2>2. QED
      BY <1>1, <2>1 DEF TagsInv, WireType, WireInv, TagInv, AllCarry
  <1>3. CASE ~ (conds # << >> \/ isInit[w] \/ tags[w][t] \in Values)
    <2>1. /\ tags' = [tags EXCEPT ![w][t] = v]
          /\ defs' = [defs EXCEPT ![w][t].valued = TRUE]
          /\ isInit' = isInit /\ carried' = carried
      BY <1>3 DEF AssignTag
    <2>2. /\ tags[w] \in TagInfo /\ defs[w] \in [TagNames -> TagStates]
          /\ defs[w][t] \in TagStates
      BY <1>1 DEF WireType
    <2>3. /\ tags'[w] = [tags[w] EXCEPT ![t] = v]
          /\ defs'[w] = [defs[w] EXCEPT ![t] = [defined |-> defs[w][t].defined, valued |-> TRUE]]
          /\ \A x \in Wires : x # w => tags'[x] = tags[x] /\ defs'[x] = defs[x]
      <3>1. tags'[w] = [tags[w] EXCEPT ![t] = v] /\ \A x \in Wires : x # w => tags'[x] = tags[x]
        BY <1>1, <2>1 DEF WireType
      <3>2. /\ defs'[w] = [defs[w] EXCEPT ![t] = [defs[w][t] EXCEPT !.valued = TRUE]]
            /\ \A x \in Wires : x # w => defs'[x] = defs[x]
        BY <1>1, <2>1 DEF WireType
      <3>3. [defs[w][t] EXCEPT !.valued = TRUE] = [defined |-> defs[w][t].defined, valued |-> TRUE]
        BY <2>2, SetValued
      <3>4. QED
        BY <3>1, <3>2, <3>3
    <2>4. tags'[w] \in TagInfo /\ defs'[w] \in [TagNames -> TagStates]
      BY <2>2, <2>3 DEF TagInfo, TagStates
    <2>5. WireType'
      <3>1. tags' = [x \in Wires |-> tags'[x]] /\ defs' = [x \in Wires |-> defs'[x]]
        BY <1>1, <2>1 DEF WireType
      <3>2. \A x \in Wires : tags'[x] \in TagInfo /\ defs'[x] \in [TagNames -> TagStates]
        BY <1>1, <2>3, <2>4 DEF WireType
      <3>3. tags' \in [Wires -> TagInfo] /\ defs' \in [Wires -> [TagNames -> TagStates]]
        BY <3>1, <3>2, Zenon
      <3>4. QED
        BY <1>1, <2>1, <3>3 DEF WireType
    <2>6. ASSUME NEW x \in Wires, NEW u \in TagNames PROVE TagInv(x, u)'
      <3>1. CASE x = w /\ u = t
        <4>1. tags'[w][t] = v /\ defs'[w][t].valued /\ defs'[w][t].defined
          BY <2>2, <2>3 DEF TagInfo, TagStates
        <4>2. v # Absent
          BY DEF TagsAssumption
        <4>3. QED
          BY <3>1, <4>1, <4>2 DEF TagInv
      <3>2. CASE x # w \/ u # t
        <4>1. tags'[x][u] = tags[x][u] /\ defs'[x][u] = defs[x][u]
          BY <1>1, <2>3, <3>2 DEF WireType, TagInfo
        <4>2. TagInv(x, u)
          BY <1>1 DEF WireInv
        <4>3. QED
          BY <2>1, <4>1, <4>2 DEF TagInv, AllCarry
      <3>3. QED
        BY <3>1, <3>2
    <2>7. QED
      BY <1>1, <2>1, <2>5, <2>6 DEF TagsInv, WireInv
  <1>4. QED
    BY <1>2, <1>3

LEMMA InitTags == ASSUME TagsAssumption, Init PROVE TagsInv
  <1>1. PICK d \in [Wires -> SUBSET TagNames] :
          defs = [w \in Wires |-> [t \in TagNames |-> [defined |-> t \in d[w], valued |-> FALSE]]]
    BY DEF Init
  <1>2. \A w \in Wires, t \in TagNames :
          defs[w][t] \in TagStates /\ ~ defs[w][t].valued
    BY <1>1 DEF TagStates
  <1>3. /\ tags = [w \in Wires |-> [t \in TagNames |-> IF defs[w][t].defined THEN None ELSE Absent]]
        /\ isInit = [w \in Wires |-> FALSE]
        /\ carried = [w \in Wires |-> [c \in CellsOf(w) |-> {}]]
    BY DEF Init
  <1>4. WireType
    <2>1. defs \in [Wires -> [TagNames -> TagStates]]
      BY <1>1, <1>2
    <2>2. QED
      BY <1>3, <2>1 DEF WireType, TagInfo
  <1>5. ASSUME NEW w \in Wires PROVE WireInv(w)
    <2>1. ~ isInit[w] /\ \A c \in CellsOf(w) : carried[w][c] = {}
      BY <1>3
    <2>2. ASSUME NEW t \in TagNames PROVE TagInv(w, t)
      <3>1. tags[w][t] = IF defs[w][t].defined THEN None ELSE Absent
        BY <1>3
      <3>2. None # Absent /\ None \notin Values /\ Absent \notin Values
        BY DEF TagsAssumption
      <3>3. QED
        BY <1>2, <2>1, <3>1, <3>2 DEF TagInv, AllCarry
    <2>3. QED
      BY <2>1, <2>2 DEF WireInv
  <1>6. QED
    BY <1>4, <1>5 DEF TagsInv

LEMMA SameTags ==
    ASSUME TagsInv, tags' = tags, defs' = defs, isInit' = isInit, carried' = carried
    PROVE  TagsInv'
  BY DEF TagsInv, WireType, WireInv, TagInv, AllCarry

LEMMA TagsKept == ASSUME TagsAssumption, TagsInv, [Next]_vars PROVE TagsInv'
  <1>1. ASSUME NEW op \in Operators, NEW e \in TagInfo, "s" \in Wires,
               NEW cs \in Some("s"), AssignSignal(cs, e, op)
        PROVE  TagsInv'
    BY <1>1, AssignSignalTags
  <1>2. ASSUME NEW op \in Operators, NEW e \in TagInfo, "f" \in Wires,
               NEW cs \in Some("f"), AssignField(cs, e, op)
        PROVE  TagsInv'
    BY <1>2, AssignFieldTags
  <1>3. ASSUME "b" \in Wires, NEW is \in Some("b"), NEW e \in TagInfo, NEW ef \in TagInfo,
               AssignBus(is, e, ef)
        PROVE  TagsInv'
    BY <1>3, AssignBusTags
  <1>4. ASSUME NEW w \in Wires, NEW t \in TagNames, NEW v \in Values,
               defs[w][t].defined, AssignTag(w, t, v)
        PROVE  TagsInv'
    BY <1>4, AssignTagTags
  <1>5. CASE EnterIf \/ EnterElse \/ EndIf \/ EndTemplate \/ UNCHANGED vars
    <2>1. tags' = tags /\ defs' = defs /\ isInit' = isInit /\ carried' = carried
      BY <1>5 DEF EnterIf, EnterElse, EndIf, EndTemplate, vars, wires
    <2>2. QED
      BY <2>1, SameTags
  <1>6. QED
    BY <1>1, <1>2, <1>3, <1>4, <1>5 DEF Next
-----------------------------------------------------------------------------
(***************************************************************************)
(* An array of signals: what remaining_inserts counts.                     *)
(***************************************************************************)

\* The cells of a signal without a value.
Empty == {c \in 1 .. SCells : carried["s"][c] = {}}

SignalInv ==
    /\ TagsInv
    /\ remaining \in [{"s"} -> 0 .. SCells]
    /\ \A c \in 1 .. SCells : slots[<<"s", c>>].state \in {"no", "yes", "might"}
    /\ verdict \in {"running", "accepted", "rejected"}
    /\ Clean => /\ \A c \in 1 .. SCells : slots[<<"s", c>>].state = "no" <=> c \in Empty
                /\ (\E t \in TagNames : \A c \in 1 .. SCells : \A e \in carried["s"][c] : e[t] # Absent)
                     => remaining["s"] = Cardinality(Empty)
    /\ late = {}
    /\ verdict # "accepted" => exported = [w \in Wires |-> NoTags]
    /\ ExportedTagsCarried

LEMMA EmptyFacts ==
    ASSUME TagsAssumption, NEW T \in SUBSET (1 .. SCells)
    PROVE  /\ IsFiniteSet(T) /\ Cardinality(T) \in 0 .. SCells
           /\ \A U \in SUBSET T : /\ Cardinality(U) \in Nat /\ Cardinality(U) <= Cardinality(T)
                                  /\ Cardinality(T \ U) = Cardinality(T) - Cardinality(U)
  <1>1. SCells \in Nat /\ SCells >= 1
    BY DEF TagsAssumption
  <1>2. IsFiniteSet(1 .. SCells) /\ Cardinality(1 .. SCells) = SCells
    BY <1>1, FS_Interval
  <1>3. IsFiniteSet(T) /\ Cardinality(T) <= SCells
    BY <1>2, FS_Subset
  <1>4. Cardinality(T) \in Nat
    BY <1>3, FS_CardinalityType
  <1>5. ASSUME NEW U \in SUBSET T
        PROVE  /\ Cardinality(U) \in Nat /\ Cardinality(U) <= Cardinality(T)
               /\ Cardinality(T \ U) = Cardinality(T) - Cardinality(U)
    <2>1. IsFiniteSet(U) /\ Cardinality(U) <= Cardinality(T)
      BY <1>3, FS_Subset
    <2>2. Cardinality(U) \in Nat
      BY <2>1, FS_CardinalityType
    <2>3. Cardinality(T \ U) = Cardinality(T) - Cardinality(T \cap U)
      BY <1>3, FS_Difference
    <2>4. T \cap U = U
      OBVIOUS
    <2>5. QED
      BY <2>1, <2>2, <2>3, <2>4
  <1>6. QED
    BY <1>1, <1>3, <1>4, <1>5

\* What an assignment makes of the state of a slot.
LEMMA StateAfter ==
    ASSUME NEW old, old.state \in {"no", "yes", "might"}
    PROVE  /\ AfterAssignment(old, CurrentAssignment).state \in {"yes", "might"}
           /\ conds = << >> /\ ~ Rejects(old, CurrentAssignment) => old.state = "no"
  BY DEF AfterAssignment, Merged, CurrentAssignment, Assigned, MightAssigned, Rejects

LEMMA AssignSignalCount ==
    ASSUME TagsAssumption, Wires = {"s"}, SignalInv, TagsInv', verdict = "running",
           NEW op \in Operators, NEW cs \in Some("s"), NEW e \in TagInfo, AssignSignal(cs, e, op)
    PROVE  SignalInv'
  <1> DEFINE new == IF op = "<==" THEN e ELSE NoTags
             n == Cardinality(cs)
  <1>1. cs \in SUBSET (1 .. SCells) /\ cs # {} /\ CellsOf("s") = 1 .. SCells
    BY SomeCells DEF CellsOf
  <1>2. SCells \in Nat /\ n \in 0 .. SCells
    <2>1. SCells \in Nat
      BY DEF TagsAssumption
    <2>2. QED
      BY <1>1, <2>1, EmptyFacts
  <1>3. Slots = {<<"s", c>> : c \in 1 .. SCells}
    BY DEF Slots, CellsOf
  <1>4. WireType
    BY DEF SignalInv, TagsInv
  <1>5. /\ remaining' = [remaining EXCEPT !["s"] = SignalRemaining(n)]
        /\ carried' = [carried EXCEPT !["s"] = Carry("s", cs, new)]
        /\ WriteSlots({<<"s", c>> : c \in cs})
        /\ late' = late /\ exported' = exported
    BY DEF AssignSignal
  <1>6. /\ remaining["s"] \in 0 .. SCells
        /\ \A c \in 1 .. SCells : slots[<<"s", c>>].state \in {"no", "yes", "might"}
        /\ \A c \in 1 .. SCells : slots[<<"s", c>>].state = "no" <=> c \in Empty
        /\ (\E t \in TagNames : \A c \in 1 .. SCells : \A x \in carried["s"][c] : x[t] # Absent)
             => remaining["s"] = Cardinality(Empty)
    BY DEF SignalInv, Clean
  <1>7. carried'["s"] = [c \in 1 .. SCells |->
                           IF c \in cs THEN carried["s"][c] \cup {new} ELSE carried["s"][c]]
    BY <1>1, <1>4, <1>5 DEF WireType, Carry
  <1>8. Empty' = Empty \ cs
    BY <1>1, <1>7 DEF Empty
  <1>9. remaining' \in [{"s"} -> 0 .. SCells]
        /\ remaining'["s"] = IF remaining["s"] >= n THEN remaining["s"] - n ELSE 0
    <2>1. SignalRemaining(n) = IF remaining["s"] >= n THEN remaining["s"] - n ELSE 0
      BY DEF SignalRemaining
    <2>2. SignalRemaining(n) \in 0 .. SCells
      BY <1>2, <1>6, <2>1
    <2>3. remaining \in [{"s"} -> 0 .. SCells]
      BY DEF SignalInv
    <2>4. QED
      BY <1>5, <2>1, <2>2, <2>3
  <1> HIDE DEF n
  <1>10. /\ late' = {} /\ verdict' # "accepted" /\ exported' = [w \in Wires |-> NoTags]
         /\ verdict' \in {"running", "rejected"}
    BY <1>5 DEF SignalInv, WriteSlots
  <1>11. ExportedTagsCarried'
    BY <1>10 DEF ExportedTagsCarried, NoTags
  <1>12. CASE \E c \in cs : Rejects(slots[<<"s", c>>], CurrentAssignment)
    <2>1. verdict' = "rejected" /\ slots' = slots
      BY <1>5, <1>12 DEF WriteSlots
    <2>2. QED
      BY <1>6, <1>9, <1>10, <1>11, <2>1 DEF SignalInv, Clean
  <1>13. CASE \A c \in cs : ~ Rejects(slots[<<"s", c>>], CurrentAssignment)
    <2>1. slots' = [x \in Slots |-> IF x \in {<<"s", c>> : c \in cs}
                                    THEN AfterAssignment(slots[x], CurrentAssignment) ELSE slots[x]]
      BY <1>5, <1>13 DEF WriteSlots
    <2>2. \A c \in 1 .. SCells :
            slots'[<<"s", c>>] = IF c \in cs THEN AfterAssignment(slots[<<"s", c>>], CurrentAssignment)
                                 ELSE slots[<<"s", c>>]
      BY <1>3, <2>1
    <2>3. ASSUME NEW c \in 1 .. SCells
          PROVE  /\ slots'[<<"s", c>>].state \in {"no", "yes", "might"}
                 /\ slots'[<<"s", c>>].state = "no" <=> c \in Empty'
      <3>1. CASE c \in cs
        <4>1. slots'[<<"s", c>>].state \in {"yes", "might"}
          BY <1>6, <2>2, <3>1, StateAfter
        <4>2. QED
          BY <1>8, <3>1, <4>1
      <3>2. CASE c \notin cs
        BY <1>6, <1>8, <2>2, <3>2
      <3>3. QED
        BY <3>1, <3>2
    <2>4. ASSUME NEW t \in TagNames,
                 \A c \in 1 .. SCells : \A x \in carried'["s"][c] : x[t] # Absent
          PROVE  remaining'["s"] = Cardinality(Empty')
      <3>1. new[t] # Absent /\ \A c \in 1 .. SCells : \A x \in carried["s"][c] : x[t] # Absent
        BY <1>1, <1>7, <2>4
      <3>2. op = "<=="
        BY <3>1 DEF NoTags
      <3>3. conds = << >>
        BY <3>2 DEF Operators
      <3>4. cs \in SUBSET Empty
        <4> SUFFICES ASSUME NEW c \in cs PROVE c \in Empty
          OBVIOUS
        <4>1. c \in 1 .. SCells
          BY <1>1
        <4>2. slots[<<"s", c>>].state = "no"
          BY <1>6, <1>13, <3>3, <4>1, StateAfter
        <4>3. QED
          BY <1>6, <4>1, <4>2
      <3>5. remaining["s"] = Cardinality(Empty)
        BY <1>6, <3>1
      <3>6. Empty \in SUBSET (1 .. SCells)
        BY DEF Empty
      <3>7. n <= Cardinality(Empty) /\ Cardinality(Empty \ cs) = Cardinality(Empty) - n
        BY <3>4, <3>6, EmptyFacts DEF n
      <3>8. QED
        BY <1>2, <1>6, <1>8, <1>9, <3>5, <3>7
    <2>5. QED
      BY <1>9, <1>10, <1>11, <2>3, <2>4 DEF SignalInv, Clean
  <1>14. QED
    BY <1>12, <1>13

LEMMA SignalSame ==
    ASSUME SignalInv, TagsInv', carried' = carried, remaining' = remaining, slots' = slots,
           verdict' \in {"running", "accepted", "rejected"}, Clean' => Clean, late' = {},
           verdict' # "accepted" => exported' = [w \in Wires |-> NoTags], ExportedTagsCarried'
    PROVE  SignalInv'
  BY DEF SignalInv, Empty

LEMMA NothingExported ==
    ASSUME exported' = [w \in Wires |-> NoTags]
    PROVE  ExportedTagsCarried'
  BY DEF ExportedTagsCarried, NoTags

LEMMA AssignTagCount ==
    ASSUME TagsAssumption, Wires = {"s"}, SignalInv, TagsInv', verdict = "running",
           NEW w \in Wires, NEW t \in TagNames, NEW v \in Values, AssignTag(w, t, v)
    PROVE  SignalInv'
  <1>1. /\ remaining' = remaining /\ slots' = slots /\ carried' = carried
        /\ exported' = [x \in Wires |-> NoTags]
        /\ verdict' \in {"running", "rejected"} /\ Clean
    BY DEF AssignTag, wires, SignalInv, Clean
  <1>2. late' = {}
    <2>1. CASE late' = late
      BY <2>1 DEF SignalInv
    <2>2. CASE ~ isInit[w] /\ late' = IF Touched(w) THEN late \cup {w} ELSE late
      <3>1. \A c \in CellsOf("s") : carried["s"][c] = {}
        BY <2>2 DEF SignalInv, TagsInv, WireInv
      <3>2. \A c \in 1 .. SCells : slots[<<"s", c>>].state = "no"
        BY <1>1, <3>1 DEF SignalInv, Empty, CellsOf
      <3>3. ~ Touched(w)
        BY <3>2 DEF Touched, Behind, CellsOf
      <3>4. QED
        BY <2>2, <3>3 DEF SignalInv
    <2>3. QED
      BY <2>1, <2>2 DEF AssignTag
  <1>3. ExportedTagsCarried'
    BY <1>1, NothingExported
  <1>4. QED
    BY <1>1, <1>2, <1>3, SignalSame

\* A tag whose value can be read belongs to a complete wire.
LEMMA Readable ==
    ASSUME TagsAssumption, Wires = {"s"}, SignalInv, Clean,
           NEW t \in TagNames, TagCanBeRead("s", t), Inherited("s", t)
    PROVE  Filled("s") /\ AllCarry("s", t, tags["s"][t])
  <1>1. remaining["s"] = 0 /\ tags["s"][t] \in Values
    BY DEF TagCanBeRead, Inherited
  <1>2. AllCarry("s", t, tags["s"][t])
    BY <1>1 DEF SignalInv, TagsInv, WireInv, TagInv, Inherited
  <1>3. CellsOf("s") = 1 .. SCells
    BY DEF CellsOf
  <1>4. \A c \in 1 .. SCells : \A e \in carried["s"][c] : e[t] # Absent
    <2>1. Absent \notin Values
      BY DEF TagsAssumption
    <2>2. QED
      BY <1>1, <1>2, <1>3, <2>1 DEF AllCarry
  <1>5. Cardinality(Empty) = 0
    BY <1>1, <1>4 DEF SignalInv
  <1>6. Empty \in SUBSET (1 .. SCells)
    BY DEF Empty
  <1>7. Empty = {}
    BY <1>5, <1>6, EmptyFacts, FS_EmptySet
  <1>8. QED
    BY <1>2, <1>3, <1>7 DEF Empty, Filled

LEMMA EndTemplateCount ==
    ASSUME TagsAssumption, Wires = {"s"}, SignalInv, TagsInv', verdict = "running", EndTemplate
    PROVE  SignalInv'
  <1>1. /\ tags' = tags /\ defs' = defs /\ remaining' = remaining /\ slots' = slots
        /\ carried' = carried /\ late' = late /\ verdict' = "accepted" /\ Clean
        /\ exported' = [w \in Wires |-> [t \in TagNames |->
                          IF TagCanBeRead(w, t) /\ defs[w][t].defined THEN tags[w][t] ELSE Absent]]
    BY DEF EndTemplate, wires, Clean
  <1>2. ASSUME NEW w \in Wires, NEW t \in TagNames,
               exported'[w][t] # Absent, ~ defs[w][t].valued
        PROVE  \A c \in CellsOf(w) :
                 carried[w][c] # {} /\ \A e \in carried[w][c] : e[t] = exported'[w][t]
    <2>1. TagCanBeRead("s", t) /\ exported'["s"][t] = tags["s"][t] /\ w = "s"
      BY <1>1, <1>2
    <2>2. Filled("s") /\ AllCarry("s", t, tags["s"][t])
      BY <1>1, <1>2, <2>1, Readable DEF Inherited
    <2>3. QED
      BY <2>1, <2>2 DEF Filled, AllCarry
  <1>3. ExportedTagsCarried'
    BY <1>1, <1>2 DEF ExportedTagsCarried, Inherited
  <1>4. late' = {}
    BY <1>1 DEF SignalInv
  <1>5. QED
    BY <1>1, <1>3, <1>4, SignalSame

LEMMA SignalInit == ASSUME TagsAssumption, Wires = {"s"}, Init PROVE SignalInv
  <1>1. TagsInv
    BY InitTags
  <1>2. CellsOf("s") = 1 .. SCells /\ SCells \in Nat /\ Cardinality(1 .. SCells) = SCells
    <2>1. SCells \in Nat /\ SCells >= 1
      BY DEF TagsAssumption
    <2>2. QED
      BY <2>1, FS_Interval DEF CellsOf
  <1>3. /\ remaining = [w \in Wires |-> Cardinality(CellsOf(w))]
        /\ carried = [w \in Wires |-> [c \in CellsOf(w) |-> {}]]
        /\ slots = [c \in Slots |-> NoAssigned] /\ late = {} /\ verdict = "running"
        /\ exported = [w \in Wires |-> NoTags]
    BY DEF Init
  <1>4. remaining \in [{"s"} -> 0 .. SCells] /\ remaining["s"] = SCells
    BY <1>2, <1>3
  <1>5. Empty = 1 .. SCells
    BY <1>2, <1>3 DEF Empty
  <1>6. \A c \in 1 .. SCells : slots[<<"s", c>>].state = "no"
    BY <1>2, <1>3 DEF Slots, NoAssigned
  <1>7. ExportedTagsCarried
    BY <1>3 DEF ExportedTagsCarried, NoTags
  <1>8. QED
    BY <1>1, <1>2, <1>3, <1>4, <1>5, <1>6, <1>7 DEF SignalInv

LEMMA SignalKept ==
    ASSUME TagsAssumption, Wires = {"s"}, SignalInv, [Next]_vars
    PROVE  SignalInv'
  <1>1. TagsInv'
    BY TagsKept DEF SignalInv
  <1>2. CASE UNCHANGED vars
    <2>1. /\ carried' = carried /\ remaining' = remaining /\ slots' = slots
          /\ verdict' = verdict /\ late' = late /\ exported' = exported
          /\ tags' = tags /\ defs' = defs
      BY <1>2 DEF vars, wires
    <2>2. ExportedTagsCarried' /\ (Clean' => Clean)
      BY <2>1 DEF ExportedTagsCarried, Inherited, SignalInv, Clean
    <2>3. QED
      BY <1>1, <2>1, <2>2, SignalSame DEF SignalInv
  <1>3. CASE Next
    <2>1. verdict = "running"
      BY <1>3 DEF Next
    <2>2. ASSUME NEW op \in Operators, NEW e \in TagInfo,
                 NEW cs \in Some("s"), AssignSignal(cs, e, op)
          PROVE  SignalInv'
      BY <1>1, <2>1, <2>2, AssignSignalCount
    <2>3. ASSUME NEW w \in Wires, NEW t \in TagNames, NEW v \in Values, AssignTag(w, t, v)
          PROVE  SignalInv'
      BY <1>1, <2>1, <2>3, AssignTagCount
    <2>4. CASE EnterIf \/ EnterElse \/ EndIf
      <3>1. /\ carried' = carried /\ remaining' = remaining /\ slots' = slots
            /\ verdict' = verdict /\ late' = late /\ exported' = exported
        BY <2>4 DEF EnterIf, EnterElse, EndIf, wires
      <3>2. ExportedTagsCarried' /\ (Clean' => Clean)
        BY <2>1, <3>1, NothingExported DEF SignalInv, Clean
      <3>3. QED
        BY <1>1, <3>1, <3>2, SignalSame DEF SignalInv
    <2>5. CASE EndTemplate
      BY <1>1, <2>1, <2>5, EndTemplateCount
    <2>6. QED
      BY <1>3, <2>2, <2>3, <2>4, <2>5 DEF Next
  <1>4. QED
    BY <1>2, <1>3

-----------------------------------------------------------------------------
(***************************************************************************)
(* What is promised.                                                       *)
(***************************************************************************)
LEMMA VisibleOf == ASSUME TagsAssumption, TagsInv PROVE VisibleTagsCarried
  <1> SUFFICES ASSUME NEW w \in Wires, NEW t \in TagNames, ~ defs[w][t].valued,
                      \/ Visible(w)[t] \in Values
                      \/ Visible(w)[t] = None /\ ~ defs[w][t].defined
               PROVE  AllCarry(w, t, Visible(w)[t])
    BY DEF VisibleTagsCarried, Inherited, AllCarry
  <1>1. Visible(w)[t] = IF tags[w][t] # Absent /\ remaining[w] = 0 THEN tags[w][t]
                        ELSE IF defs[w][t].defined THEN None ELSE Absent
    BY DEF Visible
  <1>2. Absent \notin Values /\ None \notin Values /\ Absent # None
    BY DEF TagsAssumption
  <1>3. Visible(w)[t] = tags[w][t]
    BY <1>1, <1>2
  <1>4. TagInv(w, t)
    BY DEF TagsInv, WireInv
  <1>5. QED
    BY <1>3, <1>4 DEF TagInv

LEMMA AgreedOf ==
    ASSUME TagsAssumption, Wires = {"s"}, SignalInv
    PROVE  AgreedTagsInherited
  <1> SUFFICES ASSUME Clean, NEW t \in TagNames, NEW v \in {None} \cup Values,
                      Filled("s"), ~ defs["s"][t].valued, AllCarry("s", t, v)
               PROVE  Visible("s")[t] = v
    BY DEF AgreedTagsInherited, Inherited, AllCarry
  <1>1. CellsOf("s") = 1 .. SCells /\ 1 \in 1 .. SCells
    BY DEF CellsOf, TagsAssumption
  <1>2. v # Absent
    BY DEF TagsAssumption
  <1>3. isInit["s"]
    BY <1>1 DEF SignalInv, TagsInv, WireInv, Filled
  <1>4. tags["s"][t] = v
    BY <1>3 DEF SignalInv, TagsInv, WireInv, TagInv
  <1>5. Empty = {}
    BY <1>1 DEF Filled, Empty
  <1>6. \A c \in 1 .. SCells : \A e \in carried["s"][c] : e[t] # Absent
    BY <1>1, <1>2 DEF AllCarry
  <1>7. remaining["s"] = 0
    BY <1>5, <1>6, FS_EmptySet DEF SignalInv
  <1>8. QED
    BY <1>2, <1>4, <1>7 DEF Visible

LEMMA ProductNat == \A m, n \in Nat : m * n \in Nat
  OBVIOUS

LEMMA SignalPromises ==
    ASSUME TagsAssumption, Wires = {"s"}, SignalInv
    PROVE  /\ TypeOK /\ VisibleTagsCarried /\ AgreedTagsInherited /\ ReadableMeansComplete
           /\ TagValuedBeforeWire /\ ExportedTagsCarried
  <1>1. TypeOK
    <2>1. SCells \in Nat /\ UsizeRange \in Nat /\ SCells <= UsizeRange - 1
      <3>1. /\ SCells \in Nat /\ BCells \in Nat /\ FCells \in Nat /\ UsizeRange \in Nat
            /\ UsizeRange > SCells + BCells * FCells
        BY DEF TagsAssumption
      <3>2. BCells * FCells \in Nat
        BY <3>1, ProductNat
      <3>3. QED
        BY <3>1, <3>2
    <2>2. remaining["s"] \in 0 .. SCells
      BY DEF SignalInv
    <2>3. \A w \in Wires : remaining[w] \in 0 .. UsizeRange - 1
      BY <2>1, <2>2
    <2>4. QED
      BY <2>3 DEF TypeOK, SignalInv, TagsInv, WireType, WireInv, TagInv
  <1>2. ReadableMeansComplete
    BY Readable DEF ReadableMeansComplete
  <1>3. QED
    BY <1>1, <1>2, VisibleOf, AgreedOf DEF SignalInv, TagValuedBeforeWire

\* The value a tag has once the wire has one of its own, over one assignment.
LEMMA LostOnly ==
    ASSUME TagsAssumption, WireType, NEW w \in Wires, WireInv(w), NEW t \in TagNames,
           isInit[w], tags[w][t] \in Values, NEW new \in TagInfo
    PROVE  Propagated(w, new)[t] \in {tags[w][t], None, Absent}
  <1>1. Absent \notin Values
    BY DEF TagsAssumption
  <1>2. QED
    BY <1>1 DEF Propagated

LEMMA LostStep == ASSUME TagsAssumption, TagsInv, [Next]_vars PROVE ValuesOnlyLost
  <1> SUFFICES ASSUME NEW w \in Wires, NEW t \in TagNames, isInit[w], tags[w][t] \in Values
               PROVE  tags'[w][t] \in {tags[w][t], None, Absent}
    BY DEF ValuesOnlyLost
  <1>1. WireType /\ WireInv(w)
    BY DEF TagsInv
  <1>2. \A new \in TagInfo : Propagated(w, new)[t] \in {tags[w][t], None, Absent}
    BY <1>1, LostOnly
  <1>3. ASSUME NEW x \in Wires, NEW new \in TagInfo, tags' = [tags EXCEPT ![x] = Propagated(x, new)]
        PROVE  tags'[w][t] \in {tags[w][t], None, Absent}
    BY <1>1, <1>2, <1>3 DEF WireType
  <1>4. ASSUME NEW op \in Operators, NEW e \in TagInfo, "s" \in Wires,
               NEW cs \in Some("s"), AssignSignal(cs, e, op)
        PROVE  tags'[w][t] \in {tags[w][t], None, Absent}
    BY <1>3, <1>4, NoTagsType DEF AssignSignal
  <1>5. ASSUME NEW op \in Operators, NEW e \in TagInfo, "f" \in Wires,
               NEW cs \in Some("f"), AssignField(cs, e, op)
        PROVE  tags'[w][t] \in {tags[w][t], None, Absent}
    BY <1>3, <1>5, NoTagsType DEF AssignField
  <1>6. ASSUME "b" \in Wires, NEW is \in Some("b"), NEW e \in TagInfo, NEW ef \in TagInfo,
               AssignBus(is, e, ef)
        PROVE  tags'[w][t] \in {tags[w][t], None, Absent}
    <2>1. tags' = [tags EXCEPT !["b"] = Propagated("b", e), !["f"] = Propagated("f", ef)]
      BY <1>6 DEF AssignBus
    <2>2. QED
      BY <1>1, <1>2, <2>1 DEF WireType
  <1>7. ASSUME NEW x \in Wires, NEW u \in TagNames, NEW v \in Values, AssignTag(x, u, v)
        PROVE  tags'[w][t] \in {tags[w][t], None, Absent}
    <2>1. \/ tags' = tags
          \/ x # w /\ tags' = [tags EXCEPT ![x][u] = v]
      BY <1>7 DEF AssignTag, wires
    <2>2. QED
      BY <1>1, <2>1 DEF WireType
  <1>8. CASE EnterIf \/ EnterElse \/ EndIf \/ EndTemplate \/ UNCHANGED vars
    BY <1>8 DEF EnterIf, EnterElse, EndIf, EndTemplate, vars, wires
  <1>9. QED
    BY <1>4, <1>5, <1>6, <1>7, <1>8 DEF Next

LEMMA TagsHold == ASSUME TagsAssumption PROVE Spec => []TagsInv
  <1>1. Init => TagsInv
    BY InitTags
  <1>2. TagsInv /\ [Next]_vars => TagsInv'
    BY TagsKept
  <1>3. QED
    BY <1>1, <1>2, PTL DEF Spec

\* A wire, of signals or of buses, hands on a value of a tag only when every expression
\* assigned to it carried that value (compute_propagated_tags, perform_tag_propagation).
THEOREM TagsCarried == ASSUME TagsAssumption PROVE Spec => []VisibleTagsCarried
  <1>1. TagsInv => VisibleTagsCarried
    BY VisibleOf
  <1>2. QED
    BY <1>1, TagsHold, PTL

\* Once a wire has received a value, the value of a tag of it is kept or lost and never
\* replaced by another (perform_tag_propagation and the assignment of tags).
THEOREM TagValuesKept == ASSUME TagsAssumption PROVE Spec => [][ValuesOnlyLost]_vars
  <1>1. TagsInv /\ [Next]_vars => [ValuesOnlyLost]_vars
    BY LostStep
  <1>2. QED
    BY <1>1, TagsHold, PTL DEF Spec

\* In an array of signals a tag that all expressions agree on is handed on when the
\* array is complete, its value is read and exported only then, and the program gives
\* a tag its value before any cell has one (remaining_inserts, is_init and
\* environment_get_value_tags_signal).
THEOREM SignalTagsSound ==
    ASSUME TagsAssumption, Wires = {"s"}
    PROVE  Spec => [](/\ TypeOK /\ VisibleTagsCarried /\ AgreedTagsInherited
                      /\ ReadableMeansComplete /\ TagValuedBeforeWire /\ ExportedTagsCarried)
  <1>1. Init => SignalInv
    BY SignalInit
  <1>2. SignalInv /\ [Next]_vars => SignalInv'
    BY SignalKept
  <1>3. SignalInv => /\ TypeOK /\ VisibleTagsCarried /\ AgreedTagsInherited
                     /\ ReadableMeansComplete /\ TagValuedBeforeWire /\ ExportedTagsCarried
    BY SignalPromises
  <1>4. QED
    BY <1>1, <1>2, <1>3, PTL DEF Spec
=============================================================================
