------------------------------ MODULE MCCircuit ------------------------------
(***************************************************************************)
(* From the executed templates to the constraint file, on small instances: *)
(* the DAG and what is read off it (Dag), the simplification of the        *)
(* constraints (Simplification) and the file they are written to           *)
(* (R1csFile).  The three run one after the other in one thread, the       *)
(* simplification with workers of its own; a behaviour here is that of one *)
(* of them, "running", and a variable it has not is off.                   *)
(***************************************************************************)
EXTENDS Dag, TLC

CONSTANTS P, Outputs, PublicInputs, PrivateInputs, MaxSignal, CustomSignals,
          Systems, Settings, LessOccurrences,       \* of Simplification
          Base, FieldSize, FileCircuits             \* of R1csFile

VARIABLES running,
          circuit, settings, pc, constants, linear, nonLinear, clusters, aux, found, lconst,
          frames, log, deleted, storage, mapped, rounds, witness, privateInWitness,
          file, at, section, open, go_back, size, written, writer, reader, pos, scanned, starts, info

-----------------------------------------------------------------------------
(* Programs of four templates: main, a template in the middle, a leaf that *)
(* is instantiated with two values of a tag and two of the tag of a field, *)
(* and a custom gate with two of the latter.                               *)
Key(name, tag, inner) == [name |-> name, params |-> <<1>>, tag |-> tag, inner |-> inner]
MainKey == Key("main", 0, 0)
Mid == Key("mid", 0, 0)
Leaf0 == Key("leaf", 0, 0)
Leaf1 == Key("leaf", 1, 0)
LeafInner == Key("leaf", 0, 1)
Gate == Key("gate", 0, 0)
GateInner == Key("gate", 0, 1)
KeySet == {MainKey, Mid, Leaf0, Leaf1, LeafInner, Gate, GateInner}

W(name, dims, bus) == [name |-> name, dims |-> dims, bus |-> bus]
BusTable == << <<W("x", << >>, 0), W("y", <<2>>, 0)>>,
               <<W("p", <<2>>, 1), W("z", << >>, 0)>> >>
Call(name, index, key, parallel) ==
    [name |-> name, index |-> index, key |-> key, parallel |-> parallel]
Own(w) == {<< << >>, s>> : s \in Range(Symbols(w))}
Of(label, w) == {<<label, s>> : s \in Range(Symbols(w))}
C(kind, on) == [kind |-> kind, on |-> on]

Out == W("o", << >>, 0)
In == W("i", << >>, 0)
Aux == W("a", <<2>>, 0)

\* The input of the leaf: a bus, or an array of buses with buses in them.
LeafIn == [d \in {<< >>, <<2>>} |-> W("i", d, IF d = << >> THEN 1 ELSE 2)]

LeafBody(tag, in, parallel) ==
    [outputs |-> <<Out>>, inputs |-> <<in>>, public |-> {},
     intermediates |-> IF tag = 1 THEN <<Aux>> ELSE << >>,
     ordered |-> <<in, Out>>, components |-> << >>, calls |-> << >>,
     constraints |-> <<C("quadratic", Own(Out) \cup Own(in)), C("empty", {})>>,
     underscored |-> {}, parallel |-> parallel, gate |-> FALSE]
GateBody ==
    [outputs |-> <<Out>>, inputs |-> <<In>>, public |-> {}, intermediates |-> << >>,
     ordered |-> <<In, Out>>, components |-> << >>, calls |-> << >>, constraints |-> << >>,
     underscored |-> {}, parallel |-> FALSE, gate |-> TRUE]

MidCalls == { << >>,
              <<Call(2, << >>, Gate, FALSE), Call(1, <<1>>, Leaf0, FALSE), Call(1, <<0>>, Leaf0, FALSE)>>,
              <<Call(1, <<0>>, Leaf0, TRUE), Call(2, << >>, Gate, FALSE), Call(1, <<1>>, Leaf1, FALSE)>>,
              <<Call(1, <<1>>, Leaf0, FALSE), Call(2, << >>, GateInner, FALSE), Call(1, <<0>>, LeafInner, FALSE)>> }
MidBody(calls, in) ==
    [outputs |-> <<W("o", <<2>>, 0)>>, inputs |-> <<In>>, public |-> {}, intermediates |-> <<Aux>>,
     ordered |-> <<In, W("o", <<2>>, 0), Aux>>,
     components |-> <<[name |-> 2, dims |-> << >>], [name |-> 1, dims |-> <<3>>]>>,
     calls |-> calls,
     constraints |-> <<C("linear", Own(In) \cup Own(Aux)), C("constant", Own(Aux))>>
                     \o (IF calls = << >> THEN << >> ELSE <<C("equal", Of(<<1, <<0>> >>, in) \cup Of(<<2, << >> >>, Out))>>),
     underscored |-> {}, parallel |-> FALSE, gate |-> FALSE]

MainCalls == { <<Call(4, << >>, Mid, FALSE)>>,
               <<Call(4, << >>, Mid, TRUE), Call(3, <<1>>, Leaf1, FALSE), Call(3, <<0>>, Leaf1, FALSE)>>,
               <<Call(3, <<1>>, Leaf0, FALSE), Call(4, << >>, Mid, FALSE), Call(3, <<0>>, Leaf0, TRUE)>>,
               <<Call(3, <<0>>, Leaf1, FALSE), Call(3, <<1>>, Leaf0, FALSE), Call(4, << >>, Gate, FALSE)>> }
MainBody(calls, public, b) ==
    [outputs |-> <<Out>>, inputs |-> <<In, W("b", << >>, b)>>, public |-> public,
     intermediates |-> << >>, ordered |-> <<In, W("b", << >>, b), Out>>,
     components |-> <<[name |-> 3, dims |-> <<2>>], [name |-> 4, dims |-> << >>], [name |-> 5, dims |-> <<4>>]>>,
     calls |-> calls,
     constraints |-> <<C("linear", Own(Out) \cup Own(In)), C("quadratic", Own(Out) \cup Of(<<4, << >> >>, In))>>,
     underscored |-> Own(W("b", << >>, b)), parallel |-> FALSE, gate |-> FALSE]

\* The bodies, each worked out once.
LeafBodies == [t \in {0, 1}, d \in {<< >>, <<2>>}, p \in BOOLEAN |-> LeafBody(t, LeafIn[d], p)]
MidBodies == [c \in MidCalls, d \in {<< >>, <<2>>} |-> MidBody(c, LeafIn[d])]
MainBodies == [c \in MainCalls, p \in {{}, {"b"}} |-> MainBody(c, p, 1)]

ProgramSet ==
    {[k \in KeySet |->
        CASE k = MainKey -> MainBodies[mainCalls, public]
          [] k = Mid -> MidBodies[midCalls, in]
          [] k \in {Gate, GateInner} -> GateBody
          [] k = Leaf0 -> LeafBodies[0, in, parallel]
          [] k \in {Leaf1, LeafInner} -> LeafBodies[1, in, parallel]] :
        mainCalls \in MainCalls, midCalls \in MidCalls, public \in {{}, {"b"}},
        in \in {<< >>, <<2>>}, parallel \in BOOLEAN}

-----------------------------------------------------------------------------
(* Constraints over the signals 1 (an output), 2 (a public input), 3 (a    *)
(* private input), 4 and 5: three or four of a pool.                       *)
Simplifier == INSTANCE Simplification WITH Circuits <- Systems
Shape == INSTANCE Simplification WITH Circuits <- {}

Con(v, s) == Shape!Linear((0 :> v) @@ (s :> 1))
Eq(s, t) == Shape!Linear((s :> 1) @@ (t :> P - 1))
Lin(e) == Shape!Linear(e)
Prod(s, t, u) == [a |-> (s :> 1), b |-> (t :> 1), c |-> (u :> 1)]
Pool == << Eq(3, 4), Eq(5, 4), Eq(1, 5), Eq(1, 2),
           Con(1, 5), Shape!Linear((4 :> 1)), Con(2, 1),
           Lin((3 :> 1) @@ (4 :> 1) @@ (5 :> 1)), Lin((0 :> 1) @@ (4 :> 2) @@ (5 :> 2)),
           Lin((1 :> 1) @@ (4 :> 1) @@ (3 :> 2)),
           Prod(4, 5, 1), Prod(3, 3, 5), [a |-> (5 :> 1), b |-> (4 :> 1) @@ (0 :> 1), c |-> (3 :> 2)] >>
Chosen(S) == LET ids == SetToSortSeq(S, LAMBDA a, b : a < b) IN [i \in DOMAIN ids |-> Pool[ids[i]]]
MCCircuits == {Chosen(S) : S \in {T \in SUBSET DOMAIN Pool :
                 /\ \/ Cardinality(T) = 3
                    \/ Cardinality(T) = 4 /\ Cardinality(T \cap 7 .. 10) = 2 /\ Cardinality(T \cap 1 .. 4) <= 1
                 /\ Cardinality(T \cap 5 .. 6) <= 1
                 /\ T \cap 11 .. 13 # {} }}
\* constants that make the products linear one after the other, and constraints joined by the last one
ChainCircuits == {<<Con(2, 4), [a |-> (4 :> 1), b |-> (5 :> 1), c |-> (0 :> 1)], Prod(5, 3, 1), Prod(3, 3, 5)>>,
                  <<Con(1, 4), Prod(4, 5, 0), Prod(5, 3, 2), [a |-> (3 :> 2) @@ (0 :> 1), b |-> (3 :> 1), c |-> (1 :> 1)]>>,
                  <<Pool[8], Pool[9], Lin((2 :> 1) @@ (3 :> 1)), Prod(3, 5, 1)>>,
                  <<Pool[9], Pool[10], Lin((2 :> 1) @@ (5 :> 1)), Prod(4, 5, 3)>>}
AllCircuits == MCCircuits \cup ChainCircuits
DoubleCircuits == {<<Con(1, 4), Con(2, 4), Prod(4, 3, 1)>>, <<Eq(3, 4), Con(1, 4), Con(2, 3), Prod(4, 4, 1)>>}
MCSettings == {[flagS |-> TRUE, rounds |-> 0, old |-> FALSE], [flagS |-> FALSE, rounds |-> 6, old |-> FALSE],
               [flagS |-> FALSE, rounds |-> 6, old |-> TRUE], [flagS |-> FALSE, rounds |-> 1, old |-> FALSE]}

-----------------------------------------------------------------------------
(* Files of circuits with up to two constraints, three wires, gaps in the  *)
(* labels and two custom gates, in bytes of four values.                   *)
File == INSTANCE R1csFile WITH Circuits <- FileCircuits

ASSUME File!R1csFileAssumption

None == << >>
Terms == {<< >>, (0 :> 1), (1 :> 15) @@ (4 :> 2) @@ (16 :> 7)}
Constraint(a, b, c) == [a |-> a, b |-> b, c |-> c]
ConstraintSets == {<< >>, <<Constraint(None, None, 5 :> 3)>>}
                  \cup {<<Constraint(a, b, 2 :> 1), Constraint(b, None, a)>> : a, b \in Terms}
Used == << [name |-> <<103, 49>>, parameters |-> <<3, 0>>], [name |-> <<103>>, parameters |-> << >>] >>
Uses == << [gate |-> 1, signals |-> <<1, 17>>], [gate |-> 0, signals |-> << >>] >>

CircuitSet ==
    {[field |-> 13, outputs |-> 1, public |-> 0, private |-> 1, labels |-> 20,
      constraints |-> constraints, signals |-> signals, gates |-> gates,
      used |-> used, applied |-> applied] :
        constraints \in ConstraintSets, signals \in {<<0, 1>>, <<0, 4, 17>>},
        gates \in BOOLEAN, used \in {<< >>, Used}, applied \in {<< >>, Uses}}
CircuitsWritten == {c \in CircuitSet : (c.used # << >> => c.gates) /\ (c.applied # << >> => c.used # << >>)}

-----------------------------------------------------------------------------
(* One of them in each behaviour.                                          *)
Off == "off"

DagRest ==
    <<circuit, settings, pc, constants, linear, nonLinear, clusters, aux,
      found, lconst, frames, log, deleted, storage, mapped, rounds, witness,
      privateInWitness, file, at, section, open, go_back, size, written,
      writer, reader, pos, scanned, starts, info>>
DagAlone ==
    /\ circuit = Off /\ settings = Off /\ pc = Off /\ constants = Off
    /\ linear = Off /\ nonLinear = Off /\ clusters = Off /\ aux = Off
    /\ found = Off /\ lconst = Off /\ frames = Off /\ log = Off
    /\ deleted = Off /\ storage = Off /\ mapped = Off /\ rounds = Off
    /\ witness = Off /\ privateInWitness = Off /\ file = Off /\ at = Off
    /\ section = Off /\ open = Off /\ go_back = Off /\ size = Off
    /\ written = Off /\ writer = Off /\ reader = Off /\ pos = Off
    /\ scanned = Off /\ starts = Off /\ info = Off

SimplifierRest ==
    <<program, stack, model, nodes, instances, stats, warned, tree, list,
      phase, file, at, section, open, go_back, size, written, writer, reader,
      pos, scanned, starts, info>>
SimplifierAlone ==
    /\ program = Off /\ stack = Off /\ model = Off /\ nodes = Off
    /\ instances = Off /\ stats = Off /\ warned = Off /\ tree = Off
    /\ list = Off /\ phase = Off /\ file = Off /\ at = Off /\ section = Off
    /\ open = Off /\ go_back = Off /\ size = Off /\ written = Off
    /\ writer = Off /\ reader = Off /\ pos = Off /\ scanned = Off
    /\ starts = Off /\ info = Off

FileRest ==
    <<program, stack, model, nodes, instances, stats, warned, tree, list,
      phase, settings, pc, constants, linear, nonLinear, clusters, aux, found,
      lconst, frames, log, deleted, storage, mapped, rounds, witness,
      privateInWitness>>
FileAlone ==
    /\ program = Off /\ stack = Off /\ model = Off /\ nodes = Off
    /\ instances = Off /\ stats = Off /\ warned = Off /\ tree = Off
    /\ list = Off /\ phase = Off /\ settings = Off /\ pc = Off
    /\ constants = Off /\ linear = Off /\ nonLinear = Off /\ clusters = Off
    /\ aux = Off /\ found = Off /\ lconst = Off /\ frames = Off /\ log = Off
    /\ deleted = Off /\ storage = Off /\ mapped = Off /\ rounds = Off
    /\ witness = Off /\ privateInWitness = Off

circuitVars == <<running, vars, DagRest>>

CircuitInit ==
    \/ running = "dag" /\ Init /\ DagAlone
    \/ running = "simplification" /\ Simplifier!Init /\ SimplifierAlone
    \/ running = "file" /\ File!Init /\ FileAlone

CircuitNext ==
    \/ running = "dag" /\ Next /\ UNCHANGED <<running, DagRest>>
    \/ running = "simplification" /\ Simplifier!Next /\ UNCHANGED <<running, SimplifierRest>>
    \/ running = "simplification" /\ Simplifier!Done /\ UNCHANGED <<running, SimplifierRest>>
    \/ running = "file" /\ File!Next /\ UNCHANGED <<running, FileRest>>

CircuitSpec == CircuitInit /\ [][CircuitNext]_circuitVars

-----------------------------------------------------------------------------
\* dag/src: whatever order the templates are found in and however they share
\* instances, the numbers given to signals and components leave no gap and no
\* overlap, what is numbered for the circuit, the witness calculator and the
\* simplifier is the same signal, a constraint names the signals its template
\* meant, and no constraint, gate or warning is lost on the way.
CircuitNumbered ==
    running = "dag" =>
        /\ TypeOK /\ NodesShared /\ ConstraintsReach /\ SignalsPartition /\ ComponentsNumbered
        /\ MainInterface /\ WiresAgree /\ ClustersAddress /\ ParallelKnown /\ StatsMatch
        /\ ConstraintsResolved /\ ListKeeps /\ GatesKept /\ UnconstrainedReported

\* constraint_list/src: in whatever order the workers end and whatever round it
\* is, the constraints together with the substitutions made have the solutions
\* of the constraints given, no two workers have a signal in common, no signal
\* removed is left, the public signals keep their meaning and every kept signal
\* has one place in the witness.
SimplifiedEquivalent ==
    running = "simplification" =>
        /\ Simplifier!TypeOK
        /\ Simplifier!WorkersApart
        /\ Simplifier!SubstitutionsClosed
        /\ Simplifier!SystemEquivalent
        /\ Simplifier!NoLinearLeft
        /\ Simplifier!RoundsEnd
        /\ Simplifier!StatementKept
        /\ Simplifier!WitnessNumbered

\* r1cs_writer.rs and r1cs_reader: a finished file reads back as the circuit it
\* was written for, its sections lie next to each other, none is read past its
\* length, and the reader takes every file the writer ends.
FileReadsBack ==
    running = "file" =>
        /\ File!TypeOK
        /\ File!ReadsBack
        /\ File!SectionsTile
        /\ File!ReadWithinLength
        /\ File!FinishedReadable
=============================================================================
