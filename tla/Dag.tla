-------------------------------- MODULE Dag --------------------------------
(***************************************************************************)
(* From executed templates to the numbered circuit: ExecutedProgram, the   *)
(* DAG with one node per executed template, the instances handed to the    *)
(* compiler and the list handed to the simplifier.                         *)
(*                                                                         *)
(* A template is executed once for each instantiation; the calls that find *)
(* it executed share its node.  When main is executed every template is    *)
(* inserted in the DAG and exported to a circuit, in the order of their    *)
(* execution.  Signals are numbered within a node, its own ones first and  *)
(* then a block for each component; a path from main adds the offsets.     *)
(***************************************************************************)
EXTENDS Integers, Sequences, FiniteSets, SequencesExt, Functions

CONSTANTS
    Keys,      \* instantiations: records with the name, parameters and tags, the
               \* values of those of the inputs (tag) and of fields in them (inner)
    Main,      \* the instantiation of the main component
    Programs,  \* the programs: what the execution of each instantiation finds
    Buses      \* the executed buses, each a sequence of wires of earlier buses

VARIABLES
    program,   \* the program that is compiled
    stack,     \* the templates in execution, with the connexions made so far
    model,     \* ExecutedProgram.model
    nodes,     \* the nodes of the DAG with their edges
    instances, \* the template instances
    stats,     \* the Stats of the configuration
    warned,    \* the reports of unconstrained signals: <<name of the node, name>>
    tree,      \* the components of the circuit, as a traversal of the DAG visits them
    list,      \* what the simplifier is given
    phase      \* "execute", "dag", "circuit", "analysis", "list" or "done"

vars == <<program, stack, model, nodes, instances, stats, warned, tree, list, phase>>

-----------------------------------------------------------------------------
\* Wires: [name, dims, bus], where bus = 0 for a signal and otherwise the
\* index of its bus.  Row major order of the cells of an array.
Elements(dims) ==
    FoldLeft(LAMBDA cells, d : FlattenSeq([i \in DOMAIN cells |-> [j \in 1 .. d |-> Append(cells[i], j - 1)]]),
             << << >> >>, dims)
Product(dims) == FoldLeft(LAMBDA p, d : p * d, 1, dims)
SumOf(s) == FoldLeft(LAMBDA x, y : x + y, 0, s)

\* A fault: a bus has the size of one field of each kind.
BusSizesFlat[b \in 0 .. Len(Buses)] ==
    IF b = 0 THEN 1
    ELSE SumOf([i \in DOMAIN Buses[b] |-> BusSizesFlat[Buses[b][i].bus]])
SizeFlat(w) == Product(w.dims) * BusSizesFlat[w.bus]

\* build_bus_info: the size of a bus, and the offset of each field in it.
BusSizes[b \in 0 .. Len(Buses)] ==
    IF b = 0 THEN 1
    ELSE SumOf([i \in DOMAIN Buses[b] |-> Product(Buses[b][i].dims) * BusSizes[Buses[b][i].bus]])
Size(w) == Product(w.dims) * BusSizes[w.bus]
FieldOffset(b, i) == SumOf([j \in 1 .. i - 1 |-> Size(Buses[b][j])])

\* generate_symbols and generate_bus_symbols: the symbols of a wire, in order;
\* each cell has those of the fields of its bus.
Spread(w, fields) ==
    LET cells == Elements(w.dims)
    IN  FlattenSeq([c \in DOMAIN cells |-> [s \in DOMAIN fields |-> <<w.name, cells[c]>> \o fields[s]]])
BusSymbols[b \in 0 .. Len(Buses)] ==
    IF b = 0 THEN << << >> >>
    ELSE FlattenSeq([i \in DOMAIN Buses[b] |->
            LET inner == BusSymbols[Buses[b][i].bus] IN Spread(Buses[b][i], inner)])
Symbols(w) == LET inner == BusSymbols[w.bus] IN Spread(w, inner)
AllSymbols(wires) == FlattenSeq([i \in DOMAIN wires |-> Symbols(wires[i])])

PublicWires(body) == SelectSeq(body.inputs, LAMBDA w : w.name \in body.public)
PrivateWires(body) == SelectSeq(body.inputs, LAMBDA w : w.name \notin body.public)

-----------------------------------------------------------------------------
\* A fault: two instantiations of a template with the same parameters share
\* a node whatever their tags are.
IdentifiedUntagged(key) ==
    {i \in DOMAIN model : /\ model[i].key.name = key.name
                          /\ model[i].key.params = key.params}

\* identify_node and is_equal.
Identified(key) == {i \in DOMAIN model : model[i].key = key}

Frame(key) == [key |-> key, connexions |-> << >>]
Top == Last(stack)
NextCall == program[Top.key].calls[Len(Top.connexions) + 1]
CallsLeft == Len(Top.connexions) < Len(program[Top.key].calls)

Connexion(call, node) ==
    [name |-> call.name, index |-> call.index, parallel |-> call.parallel, to |-> node]
Connected(frames, node) ==
    [frames EXCEPT ![Len(frames)].connexions =
        Append(@, Connexion(program[Last(frames).key].calls[Len(@) + 1], node))]

\* A component gets its template and every input: the template is executed,
\* unless the same instantiation was.
CallExecuted ==
    /\ phase = "execute" /\ CallsLeft
    /\ \E i \in Identified(NextCall.key) : stack' = Connected(stack, i)
    /\ UNCHANGED <<program, model, nodes, instances, stats, warned, list, phase, tree>>
CallTemplate ==
    /\ phase = "execute" /\ CallsLeft /\ Identified(NextCall.key) = {}
    /\ stack' = Append(stack, Frame(NextCall.key))
    /\ UNCHANGED <<program, model, nodes, instances, stats, warned, list, phase, tree>>

\* The template is executed to its end: add_node_to_scheme, and the caller
\* stores the pointer to the node.
FinishTemplate ==
    /\ phase = "execute" /\ ~ CallsLeft
    /\ model' = Append(model, Top)
    /\ stack' = IF Len(stack) = 1 THEN << >> ELSE Connected(Front(stack), Len(model'))
    /\ phase' = IF Len(stack) = 1 THEN "dag" ELSE "execute"
    /\ UNCHANGED <<program, nodes, instances, stats, warned, list, tree>>

-----------------------------------------------------------------------------
\* The DAG.  A name of a node's correspondence is <<component, symbol>>,
\* where the component of its own signals is << >>.
Count0 == [output |-> 0, public |-> 0, private |-> 0, intermediate |-> 0]
\* A fault: a node is not counted as a component.
NewNodeUncounted(key) ==
    [key |-> key, signals |-> 0, components |-> 0, outComponents |-> 0, count |-> Count0,
     names |-> << >>, locals |-> {}, reachables |-> {}, forbidden |-> {0},
     constraints |-> << >>, underscored |-> {}, parallelSub |-> FALSE, indexes |-> 0,
     edges |-> << >>]
NewNode(key) ==
    [key |-> key, signals |-> 0, components |-> 1, outComponents |-> 0, count |-> Count0,
     names |-> << >>, locals |-> {}, reachables |-> {}, forbidden |-> {0},
     constraints |-> << >>, underscored |-> {}, parallelSub |-> FALSE, indexes |-> 0,
     edges |-> << >>]

\* Node::add_output, add_input and add_intermediate.
AddSignal(node, symbol, class) ==
    LET id == node.signals + 1
    IN  [node EXCEPT
            !.signals = id,
            !.names = @ @@ (<< << >>, symbol>> :> id),
            !.locals = @ \cup {id},
            !.reachables = @ \cup {id},
            !.forbidden = IF class \in {"output", "public"} THEN @ \cup {id} ELSE @,
            !.count[class] = @ + 1]
AddWires(node, wires, class) ==
    FoldLeft(LAMBDA n, s : AddSignal(n, s, class), node, AllSymbols(wires))

\* A fault: the intermediate signals are numbered first.
BuildWiresInside(key, body) ==
    AddWires(AddWires(AddWires(AddWires(NewNode(key),
        body.intermediates, "intermediate"), body.outputs, "output"),
        PublicWires(body), "public"), PrivateWires(body), "private")
\* A fault: the inputs are numbered as they are declared.
BuildWiresMixed(key, body) ==
    AddWires(
        FoldLeft(LAMBDA n, w : AddWires(n, <<w>>, IF w.name \in body.public THEN "public" ELSE "private"),
                 AddWires(NewNode(key), body.outputs, "output"), body.inputs),
        body.intermediates, "intermediate")

\* add_node and build_wires.
BuildWires(key, body) ==
    AddWires(AddWires(AddWires(AddWires(NewNode(key),
        body.outputs, "output"), PublicWires(body), "public"),
        PrivateWires(body), "private"), body.intermediates, "intermediate")

\* A fault: a component takes the room of its own signals only.
AddEdgeShallow(node, cnn) ==
    LET to == nodes[cnn.to]
        blockOf == Cardinality(to.locals)
        label == <<cnn.name, cnn.index>>
        seen == {n \in DOMAIN to.names : to.names[n] \in to.locals}
    IN  [node EXCEPT
            !.signals = @ + blockOf, !.components = @ + to.components,
            !.outComponents = @ + to.components,
            !.parallelSub = @ \/ cnn.parallel \/ program[to.key].parallel,
            !.names = @ @@ [n \in {<<label, s[2]>> : s \in seen} |-> node.signals + to.names[<< << >>, n[2]>>]],
            !.reachables = @ \cup {node.signals + to.names[n] : n \in seen},
            !.edges = Append(@, [label |-> label, to |-> cnn.to, offset |-> node.signals,
                                 component |-> node.components])]
\* A fault: a component takes the number of one.
AddEdgeSingle(node, cnn) ==
    LET added == AddEdgeShallow(node, cnn)
        to == nodes[cnn.to]
    IN  [added EXCEPT !.signals = node.signals + to.signals,
                      !.components = node.components + 1,
                      !.outComponents = node.outComponents + 1]
\* A fault: only the template called says whether it is parallel.
AddEdgeCaller(node, cnn) ==
    LET added == AddEdgeShallow(node, cnn)
        to == nodes[cnn.to]
    IN  [added EXCEPT !.signals = node.signals + to.signals,
                      !.parallelSub = node.parallelSub \/ program[to.key].parallel]

\* DAG::add_edge: the component's block comes after all the signals so far;
\* its own signals get a name here, and its inputs and outputs are reachable.
AddEdge(node, cnn) ==
    LET to == nodes[cnn.to]
        label == <<cnn.name, cnn.index>>
        own == {n \in DOMAIN to.names : to.names[n] \in to.locals}
        io == to.count.output + to.count.public + to.count.private
    IN  [node EXCEPT
            !.signals = @ + to.signals,
            !.components = @ + to.components,
            !.outComponents = @ + to.components,
            !.parallelSub = @ \/ cnn.parallel \/ program[to.key].parallel,
            !.names = @ @@ [n \in {<<label, s[2]>> : s \in own} |-> node.signals + to.names[<< << >>, n[2]>>]],
            !.reachables = @ \cup {node.signals + to.names[n] : n \in {m \in own : to.names[m] <= io}},
            !.edges = Append(@, [label |-> label, to |-> cnn.to, offset |-> node.signals,
                                 component |-> node.components])]

\* A fault: the connexions stay in the order the components got their values.
SortedAsMade(connexions) == connexions

\* build_connexions sorts by the component's name, then by its position.
Before(c, d) ==
    \/ c.name < d.name
    \/ c.name = d.name /\ \E k \in DOMAIN c.index :
            c.index[k] < d.index[k] /\ \A j \in 1 .. k - 1 : c.index[j] = d.index[j]
Sorted(connexions) == SortSeq(connexions, Before)

\* filter_used_components: the arrays of which a component is used, with
\* room for all their positions.
UsedComponents(exe) ==
    SelectSeq(program[exe.key].components, LAMBDA c : \E i \in DOMAIN exe.connexions : exe.connexions[i].name = c.name)
NeededIndexes(exe) == SumOf([i \in DOMAIN UsedComponents(exe) |-> Product(UsedComponents(exe)[i].dims)])

\* build_constraints.
AddConstraints(node, body) ==
    [node EXCEPT
        !.constraints = [i \in DOMAIN body.constraints |->
                            [kind |-> body.constraints[i].kind,
                             on |-> {node.names[n] : n \in body.constraints[i].on}]],
        !.underscored = {node.names[n] : n \in body.underscored}]

\* What build_connexions writes in each connexion: where its block starts,
\* how long it is, and the same for the components in it.
Placed(node, connexions) ==
    [i \in DOMAIN connexions |->
        LET before == FoldLeft(AddEdge, node, SubSeq(connexions, 1, i - 1))
            after == AddEdge(before, connexions[i])
        IN  [name |-> connexions[i].name, index |-> connexions[i].index,
             parallel |-> connexions[i].parallel, to |-> connexions[i].to,
             offset |-> before.signals, jump |-> after.signals - before.signals,
             component |-> before.outComponents,
             componentJump |-> after.outComponents - before.outComponents]]

\* insert_in_dag, for the next executed template.
InsertInDag ==
    /\ phase = "dag"
    /\ LET n == Len(nodes) + 1
           body == program[model[n].key]
           wired == BuildWires(model[n].key, body)
           sorted == Sorted(model[n].connexions)
           connected == FoldLeft(AddEdge, wired, sorted)
       IN  /\ nodes' = Append(nodes, [AddConstraints(connected, body) EXCEPT !.indexes = NeededIndexes(model[n])])
           /\ model' = [model EXCEPT ![n].connexions = Placed(wired, sorted)]
           /\ phase' = IF n = Len(model) THEN "circuit" ELSE "dag"
    /\ UNCHANGED <<program, stack, instances, stats, warned, list, tree>>

-----------------------------------------------------------------------------
\* The lattice POS: the template of all the components of a name, "T" if
\* they have several.
\* A fault: the last one says it.
LeastUpperBoundLast(l, r) == r
LeastUpperBound(l, r) == IF l = r \/ l = "B" THEN r ELSE "T"
PosOf(exe, name) ==
    FoldLeft(LAMBDA p, c : IF c.name # name THEN p
                           ELSE LeastUpperBound(p, ToString(c.to)),
             "B", exe.connexions)
Mixed(exe, name) == PosOf(exe, name) = "T"

\* templates_in_mixed_arrays, over all executed templates.
InMixed ==
    UNION {{c.to : c \in {d \in Range(model[i].connexions) : Mixed(model[i], d.name)}} : i \in DOMAIN model}

\* build_clusters: the slice of the connexions of each component.
Cluster(exe, c) ==
    LET slice == {i \in DOMAIN exe.connexions : exe.connexions[i].name = c.name}
        start == CHOOSE i \in slice : \A j \in slice :
                    \/ i <= j /\ \A k \in i .. j : k \in slice
                    \/ i > j /\ \E k \in j .. i : k \notin slice
        end == CHOOSE i \in start .. Len(exe.connexions) :
                    start .. i \subseteq slice /\ i + 1 \notin slice
    IN  [name |-> c.name, first |-> start, last |-> end, mixed |-> Mixed(exe, c.name),
         jump |-> exe.connexions[start].jump, componentJump |-> exe.connexions[start].componentJump,
         instance |-> exe.connexions[start].to]
Clusters(exe) == [i \in DOMAIN UsedComponents(exe) |-> Cluster(exe, UsedComponents(exe)[i])]

\* export_to_circuit: the wires in the order of the DAG, local_id from 0 and
\* dag_local_id from 1.
WireOrder(body) ==
    body.outputs \o PublicWires(body) \o PrivateWires(body) \o body.intermediates
CircuitWires(body) ==
    [i \in DOMAIN WireOrder(body) |->
        LET before == SumOf([j \in 1 .. i - 1 |-> Size(WireOrder(body)[j])])
        IN  [name |-> WireOrder(body)[i].name, local |-> before, dag |-> before + 1,
             size |-> Size(WireOrder(body)[i])]]

\* A fault: the flags of the template are those of its last use.
MarkedLast(t, cnns) ==
    [t EXCEPT !.parallelComponent = IF cnns = << >> THEN @ ELSE Last(cnns).parallel,
              !.notParallelComponent = IF cnns = << >> THEN @ ELSE ~ Last(cnns).parallel]

\* build_triggers marks the templates by the components that run them.
Marked(t, cnns) ==
    [t EXCEPT !.parallelComponent = @ \/ \E i \in DOMAIN cnns : cnns[i].parallel,
              !.notParallelComponent = @ \/ \E i \in DOMAIN cnns : ~ cnns[i].parallel]

ExportToCircuit ==
    /\ phase = "circuit" /\ Len(instances) < Len(model)
    /\ LET n == Len(instances) + 1
           exe == model[n]
           runs(i) == SelectSeq(exe.connexions, LAMBDA c : c.to = i)
           instance == [wires |-> CircuitWires(program[exe.key]), clusters |-> Clusters(exe),
                        triggers |-> [i \in DOMAIN exe.connexions |->
                            [parallel |-> exe.connexions[i].parallel \/ program[model[exe.connexions[i].to].key].parallel,
                             offset |-> exe.connexions[i].offset, component |-> exe.connexions[i].component]],
                        parallelComponent |-> FALSE, notParallelComponent |-> FALSE]
       IN  instances' = Append([i \in DOMAIN instances |-> Marked(instances[i], runs(i))], instance)
    /\ UNCHANGED <<program, stack, model, nodes, stats, warned, list, phase, tree>>

\* A fault: a template is counted once for each template that uses it.
TotalsByNode ==
    LET total[n \in DOMAIN nodes] ==
            LET used == SetToSeq({nodes[n].edges[i].to : i \in DOMAIN nodes[n].edges})
                sum(f) == SumOf([i \in DOMAIN used |-> total[used[i]][f]])
            IN  [signals |-> Cardinality(nodes[n].locals) + sum("signals"),
                 components |-> 1 + sum("components"), indexes |-> nodes[n].indexes + sum("indexes")]
    IN  total[Len(nodes)]

\* produce_dags_stats: sums over the edges, children first.
Totals ==
    LET total[n \in DOMAIN nodes] ==
            LET sum(f) == SumOf([i \in DOMAIN nodes[n].edges |-> total[nodes[n].edges[i].to][f]])
                own == nodes[n].count
            IN  [signals |-> own.output + own.public + own.private + own.intermediate + sum("signals"),
                 components |-> 1 + sum("components"), indexes |-> nodes[n].indexes + sum("indexes")]
    IN  total[Len(nodes)]

\* Tree and EncodingIterator: the components of the circuit, each with its
\* node, the offset of its signals and its number, in the order of a visit.
Visit(graph) ==
    LET below[n \in DOMAIN graph] ==
            <<[node |-> n, offset |-> 0, number |-> 0, path |-> << >>]>>
            \o FlattenSeq([e \in DOMAIN graph[n].edges |->
                LET edge == graph[n].edges[e]
                    under == below[edge.to]
                IN  [i \in DOMAIN under |->
                        [node |-> under[i].node,
                         offset |-> edge.offset + under[i].offset,
                         number |-> edge.component + under[i].number,
                         path |-> <<edge.label>> \o under[i].path]]])
    IN  below[Len(graph)]

\* The end of export: main runs outside of any component, clean_constraints,
\* and the statistics.
FinishExport ==
    /\ phase = "circuit" /\ Len(instances) = Len(model)
    /\ instances' = [instances EXCEPT ![Len(instances)].notParallelComponent = TRUE]
    /\ nodes' = [n \in DOMAIN nodes |->
                    [nodes[n] EXCEPT !.constraints = SelectSeq(@, LAMBDA c : c.kind # "empty")]]
    /\ stats' = Totals
    /\ tree' = Visit(nodes)
    /\ phase' = "analysis"
    /\ UNCHANGED <<program, stack, model, warned, list>>

-----------------------------------------------------------------------------
\* visit_node counts the constraints each reachable signal is in.
Appears(node, id) == \/ id \in node.underscored
                     \/ \E i \in DOMAIN node.constraints : id \in node.constraints[i].on

\* A fault: signals of components count as signals of the template.
UnconstrainedOwn(node) == {id \in node.locals : ~ Appears(node, id)} \ node.forbidden
Unconstrained(node) == {id \in node.reachables : ~ Appears(node, id)}

\* The name of a node (instantiation_name, Node::template_name): the tags of
\* the fields of a bus are not in it.
ReportName(key) == <<key.name, key.params, key.tag>>
SignalName(node, id) == CHOOSE name \in DOMAIN node.names : node.names[name] = id

\* analyse: the nodes that are no custom gate, the first of each name.
IsGate(n) == program[nodes[n].key].gate
Analysed(n) == /\ ~ IsGate(n)
               /\ \A m \in 1 .. n - 1 : ~ IsGate(m) => ReportName(nodes[m].key) # ReportName(nodes[n].key)

\* constraint_analysis, with --inspect.
Inspect ==
    /\ phase = "analysis" /\ phase' = "list"
    /\ warned' = UNION {{<<ReportName(nodes[n].key), SignalName(nodes[n], id)>> : id \in Unconstrained(nodes[n])} :
                            n \in {m \in DOMAIN nodes : Analysed(m)}}
    /\ UNCHANGED <<program, stack, model, nodes, instances, stats, list, tree>>

SignalsOf(t) == {id + t.offset : id \in nodes[t.node].locals}
SignalSeq(t) ==
    SelectSeq([k \in 1 .. nodes[t.node].signals |-> k + t.offset], LAMBDA id : id \in SignalsOf(t))
\* A fault: the constraints of a component keep the numbers of its template.
MovedNever(t, c) == c
\* apply_offset: a constraint of a component in the numbers of main.
Moved(t, c) == [kind |-> c.kind, on |-> {id + t.offset : id \in c.on}]

\* A fault: the linear constraints of a node are taken once.
OfKindOnce(kinds) ==
    FlattenSeq([n \in DOMAIN nodes |->
        LET at == CHOOSE i \in DOMAIN tree : tree[i].node = n
            c == SelectSeq(nodes[n].constraints, LAMBDA x : x.kind \in kinds)
        IN  [j \in DOMAIN c |-> Moved(tree[at], c[j])]])

\* The constraints of some kinds over the tree.
OfKind(kinds) ==
    FlattenSeq([i \in DOMAIN tree |->
        LET c == SelectSeq(nodes[tree[i].node].constraints, LAMBDA x : x.kind \in kinds)
        IN  [j \in DOMAIN c |-> Moved(tree[i], c[j])]])

\* A fault: main's forbidden signals are all.
GateSignalsNone == {}
\* map_tree forbids the signals of a custom gate.
GateSignals == UNION {SignalsOf(tree[i]) : i \in {j \in DOMAIN tree : program[nodes[tree[j].node].key].gate}}

\* map: linear constraints go to the simplifier by their form, and the
\* others stay in the encoding, one list for each node.
MapToList ==
    /\ phase = "list" /\ phase' = "done"
    /\ list' = [witness |-> <<0>> \o FlattenSeq([i \in DOMAIN tree |-> SignalSeq(tree[i])]),
                forbidden |-> nodes[Len(nodes)].forbidden \cup GateSignals,
                constant |-> OfKind({"constant"}),
                equal |-> OfKind({"equal"}),
                linear |-> OfKind({"linear"}),
                no_constraints |-> Len(OfKind({"quadratic"})),
                non_linear |-> [n \in DOMAIN nodes |->
                                  SelectSeq(nodes[n].constraints, LAMBDA c : c.kind = "quadratic")]]
    /\ UNCHANGED <<program, stack, model, nodes, instances, stats, warned, tree>>

\* The r1cs of a DAG: the constraints as the tree is visited, and for each
\* custom gate in it the first node of its name and its signals as declared.
Gates == SelectSeq([n \in DOMAIN nodes |-> n], LAMBDA n : program[nodes[n].key].gate)
SameName(n, m) == ReportName(nodes[n].key) = ReportName(nodes[m].key)
Applied ==
    LET at == SelectSeq(tree, LAMBDA t : program[nodes[t.node].key].gate)
    IN  [i \in DOMAIN at |->
            [gate |-> CHOOSE g \in DOMAIN Gates :
                        /\ SameName(Gates[g], at[i].node)
                        /\ \A h \in 1 .. g - 1 : ~ SameName(Gates[h], at[i].node),
             signals |-> LET declared == AllSymbols(program[nodes[at[i].node].key].ordered)
                         IN  [k \in DOMAIN declared |->
                                nodes[at[i].node].names[<< << >>, declared[k]>>] + at[i].offset]]]

Done == phase = "done" /\ UNCHANGED vars

Init ==
    /\ program \in Programs
    /\ stack = <<Frame(Main)>>
    /\ model = << >> /\ nodes = << >> /\ instances = << >>
    /\ stats = << >> /\ warned = {} /\ tree = << >> /\ list = << >>
    /\ phase = "execute"

Next == \/ CallExecuted \/ CallTemplate \/ FinishTemplate
        \/ InsertInDag \/ ExportToCircuit \/ FinishExport
        \/ Inspect \/ MapToList \/ Done

Spec == Init /\ [][Next]_vars
-----------------------------------------------------------------------------
\* Types, and the two counters of components: the node counts itself, the
\* connexions start from 0.
TypeOK ==
    /\ phase \in {"execute", "dag", "circuit", "analysis", "list", "done"}
    /\ \A i \in DOMAIN stack : stack[i].key \in Keys
    /\ Len(nodes) <= Len(model) /\ Len(instances) <= Len(model)
    /\ \A n \in DOMAIN nodes : /\ nodes[n].components = nodes[n].outComponents + 1
                               /\ nodes[n].locals \subseteq 1 .. nodes[n].signals

\* A template is executed once for each name, parameters and tags, before the
\* templates that use it, and a component runs the node of the instantiation
\* its template asked for (execute_template_call, identify_node).
NodesShared ==
    \A i \in DOMAIN model :
        /\ \A j \in DOMAIN model : model[i].key = model[j].key => i = j
        /\ \A k \in DOMAIN model[i].connexions :
            LET c == model[i].connexions[k]
            IN  /\ c.to < i
                /\ \E call \in Range(program[model[i].key].calls) :
                    /\ call.name = c.name /\ call.index = c.index
                    /\ call.key = model[c.to].key

\* The numbers of the signals of all the components of the circuit are 1, 2,
\* ... up to main's number of signals, each the number of one signal
\* (add_edge, go_to_subtree).
SignalsPartition ==
    phase \in {"analysis", "list", "done"} =>
        /\ UNION {SignalsOf(t) : t \in Range(tree)} = 1 .. Last(nodes).signals
        /\ \A i, j \in DOMAIN tree : i # j => SignalsOf(tree[i]) \cap SignalsOf(tree[j]) = {}

\* The numbers of the components of the circuit are 0, 1, ...: a trigger's
\* offset plus one, added along the path, numbers each of them once.
ComponentsNumbered ==
    phase \in {"analysis", "list", "done"} =>
        /\ {t.number : t \in Range(tree)} = 0 .. Len(tree) - 1
        /\ Last(nodes).components = Len(tree)
        /\ \A n \in DOMAIN nodes : \A e \in DOMAIN nodes[n].edges :
            instances[n].triggers[e].component + 1 = nodes[n].edges[e].component

\* A constraint of a template only has signals that visit_node counts: those
\* of the template and the inputs and outputs of its components.
ConstraintsReach ==
    \A n \in DOMAIN nodes :
        /\ nodes[n].underscored \subseteq nodes[n].reachables
        /\ \A i \in DOMAIN nodes[n].constraints : nodes[n].constraints[i].on \subseteq nodes[n].reachables

\* The owner of a name in a component of the tree: itself, or one of the
\* components directly below it.
Owner(t, label) ==
    CHOOSE u \in Range(tree) : u.path = IF label = << >> THEN t.path ELSE Append(t.path, label)
LabelOf(t, name) ==
    LET u == Owner(t, name[1]) IN u.offset + nodes[u.node].names[<< << >>, name[2]>>]
\* A constraint of a component is on the signals its template's text names,
\* wherever main's tree has put them.
ConstraintsResolved ==
    phase \in {"analysis", "list", "done"} =>
        \A t \in Range(tree) :
            LET text == SelectSeq(program[nodes[t.node].key].constraints, LAMBDA c : c.kind # "empty")
            IN  \A i \in DOMAIN text :
                    Moved(t, nodes[t.node].constraints[i]).on = {LabelOf(t, n) : n \in text[i].on}

\* The numbers of main's outputs come first, then those of its public inputs
\* and of its private inputs, as the header of an r1cs file presumes.
MainInterface ==
    phase \notin {"execute", "dag"} =>
        LET body == program[Main]
            order == AllSymbols(body.outputs \o PublicWires(body) \o PrivateWires(body))
            main == Last(nodes)
        IN  /\ \A i \in DOMAIN order : main.names[<< << >>, order[i]>>] = i
            /\ main.forbidden = 0 .. main.count.output + main.count.public

\* The two numberings of the wires of a template agree: the DAG names every
\* cell and field, the circuit adds up the sizes of arrays and buses.
WiresAgree ==
    /\ \A n \in DOMAIN instances : \A w \in Range(instances[n].wires) :
        LET symbols == CHOOSE s \in {Symbols(x) : x \in {y \in Range(WireOrder(program[model[n].key])) : y.name = w.name}} : TRUE
        IN  /\ Len(symbols) = w.size
            /\ \A k \in DOMAIN symbols : nodes[n].names[<< << >>, symbols[k]>>] = w.dag + k - 1
            /\ w.dag = w.local + 1
    /\ \A b \in DOMAIN Buses : \A i \in DOMAIN Buses[b] :
        BusSymbols[b][FieldOffset(b, i) + 1][1] = Buses[b][i].name

\* A cluster holds all the components of a name; the ones of a uniform cluster
\* run one template, and their signals and numbers are a fixed jump apart.
ClustersAddress ==
    \A n \in DOMAIN instances : \A c \in Range(instances[n].clusters) :
        LET cnn == model[n].connexions
            first == cnn[c.first]
        IN  /\ {i \in DOMAIN cnn : cnn[i].name = c.name} = c.first .. c.last
            /\ ~ c.mixed => \A i \in c.first .. c.last :
                    /\ cnn[i].to = c.instance
                    /\ cnn[i].offset = first.offset + (i - c.first) * c.jump
                    /\ cnn[i].component = first.component + (i - c.first) * c.componentJump
            /\ c.mixed => {cnn[i].to : i \in c.first .. c.last} \subseteq InMixed

\* A template is generated for threads iff a component is declared parallel,
\* and without iff one is not, or it is main; a node knows whether any of its
\* components runs in a thread.
ParallelKnown ==
    /\ \A n \in DOMAIN nodes : nodes[n].parallelSub <=>
        \E c \in Range(model[n].connexions) : c.parallel \/ program[model[c.to].key].parallel
    /\ phase \in {"analysis", "list", "done"} =>
        \A n \in DOMAIN instances :
            LET uses == {c \in UNION {Range(model[m].connexions) : m \in DOMAIN model} : c.to = n}
            IN  /\ instances[n].parallelComponent <=> \E c \in uses : c.parallel
                /\ instances[n].notParallelComponent <=>
                        n = Len(instances) \/ \E c \in uses : ~ c.parallel

\* The memory the statistics ask for is what the tree of components needs.
StatsMatch ==
    phase \in {"analysis", "list", "done"} =>
        /\ stats.components = Len(tree)
        /\ stats.signals = Last(nodes).signals
        /\ stats.indexes = SumOf([i \in DOMAIN tree |-> NeededIndexes(model[tree[i].node])])

\* The simplifier is given every constraint of every component, the linear
\* ones numbered for main and the others by their node.
ListKeeps ==
    phase = "done" =>
        LET taken == list.constant \o list.equal \o list.linear
            encoded == FlattenSeq([i \in DOMAIN tree |->
                [j \in DOMAIN list.non_linear[tree[i].node] |-> Moved(tree[i], list.non_linear[tree[i].node][j])]])
            all == FlattenSeq([i \in DOMAIN tree |->
                [j \in DOMAIN nodes[tree[i].node].constraints |-> Moved(tree[i], nodes[tree[i].node].constraints[j])]])
        IN  /\ Range(taken \o encoded) = Range(all)
            /\ Len(taken \o encoded) = Len(all)
            /\ Len(encoded) = list.no_constraints
            /\ Len(list.witness) = Last(nodes).signals + 1

\* The simplifier may remove no signal a custom gate is applied to, and the
\* gate an application names has the template and the parameters of the component.
GatesKept ==
    phase = "done" =>
        \A i \in DOMAIN Applied :
            /\ Range(Applied[i].signals) \subseteq list.forbidden
            /\ \E t \in Range(tree) : /\ nodes[t.node].key.name = nodes[Gates[Applied[i].gate]].key.name
                                      /\ nodes[t.node].key.params = nodes[Gates[Applied[i].gate]].key.params
                                      /\ Range(Applied[i].signals) = SignalsOf(t)

\* A signal of a component that is in no constraint of the circuit is in a
\* report with the name of its template, unless it is marked as unused; and so
\* are the inputs and outputs of a component its father never constrains.
Reported(t, id) == <<ReportName(nodes[t.node].key), SignalName(nodes[t.node], id)>> \in warned
ReportsAll(t) ==
    /\ \A id \in nodes[t.node].locals :
        (/\ id \notin nodes[t.node].underscored
         /\ \A u \in Range(tree) : \A c \in Range(nodes[u.node].constraints) :
                id + t.offset \notin Moved(u, c).on)
        => Reported(t, id)
    /\ \A u \in Range(tree) : Len(u.path) = Len(t.path) + 1 /\ Front(u.path) = t.path =>
        LET io == 1 .. nodes[u.node].count.output + nodes[u.node].count.public + nodes[u.node].count.private
        IN  (\A id \in io : ~ Appears(nodes[t.node], id + u.offset - t.offset)) =>
                \A id \in io : Reported(t, id + u.offset - t.offset)

\* With --inspect the components of the first instantiation of every name,
\* wherever they are in the circuit, have their unconstrained signals reported.
UnconstrainedReported ==
    phase \in {"list", "done"} => \A t \in {u \in Range(tree) : Analysed(u.node)} : ReportsAll(t)

\* Every component has, custom gates apart: not so of two instantiations that
\* differ in the tags of the fields of a bus, whose names are equal.
EveryTemplateReported ==
    phase \in {"list", "done"} => \A t \in {u \in Range(tree) : ~ IsGate(u.node)} : ReportsAll(t)
=============================================================================
