-------------------------- MODULE ComponentCreation --------------------------
(***************************************************************************)
(* How a template of the generated calculator creates its subcomponents:   *)
(* the connexions of the executed template (sorted, with the offsets of    *)
(* module Dag) are gathered in clusters, each cluster is translated into   *)
(* creation buckets, and each bucket into a straight piece of code or a    *)
(* loop over the positions that are defined.  The C++ and the WASM writers *)
(* write different code for the same bucket.                               *)
(*                                                                         *)
(* An address is a position in the father's array of subcomponents; the    *)
(* father is number 0 and its signals start at 0.                          *)
(***************************************************************************)
EXTENDS Integers, Sequences, FiniteSets, TLC, SequencesExt

CONSTANTS
    Names,        \* the component symbols of the father, in the order of their names
    Dims,         \* Dims[c]: the dimensions of each symbol
    Templates,    \* instances: [signals, components, inputs, parallel]
    OwnSignals,   \* number of signals of the father
    Fathers       \* sequences of connexions [name, index, template, parallel]

\* What the constants must be.
DimsAssumption == \A c \in DOMAIN Dims : \A k \in DOMAIN Dims[c] : Dims[c][k] >= 1

VARIABLES
    target,       \* "c" or "wasm": which of the two codes runs
    triggers,     \* the triggers of the template
    buckets,      \* the creation buckets still to be executed
    memory,       \* address -> [number, start, variant] of the component there
    flags,        \* address -> what mySubcomponentsParallel holds there
    ran,          \* addresses whose component was run by its creation
    phase         \* "translate" or "run"

vars == <<target, triggers, buckets, memory, flags, ran, phase>>

Product(dims) == FoldLeft(LAMBDA p, d : p * d, 1, dims)

\* The address of an indexed position within its array (a fault: the first
\* index varies fastest).
JumpColumns(dims, index) ==
    FoldLeft(LAMBDA j, k : j + index[k] * Product(SubSeq(dims, 1, k - 1)), 0, [k \in DOMAIN dims |-> k])
Jump(dims, index) ==
    FoldLeft(LAMBDA j, k : j + index[k] * Product(SubSeq(dims, k + 1, Len(dims))), 0, [k \in DOMAIN dims |-> k])

\* The addresses reserved for the symbols, one after another.
Address(name) ==
    FoldLeft(LAMBDA a, c : a + Product(Dims[c]), 0, SubSeq(Names, 1, SelectInSeq(Names, LAMBDA c : c = name) - 1))

\* The offsets of a connexion: what the own signals and the earlier connexions take.
Trigger(cnns, k) ==
    LET before == SubSeq(cnns, 1, k - 1)
        t      == Templates[cnns[k].template]
    IN  [name |-> cnns[k].name, index |-> cnns[k].index, runs |-> cnns[k].template,
         parallel |-> cnns[k].parallel \/ t.parallel,
         hasInputs |-> t.inputs > 0,
         offset |-> FoldLeft(LAMBDA o, c : o + Templates[c.template].signals, OwnSignals, before),
         componentOffset |-> FoldLeft(LAMBDA o, c : o + Templates[c.template].components, 0, before)]

Of(name) == SelectSeq(triggers, LAMBDA t : t.name = name)

\* The parallel values of a symbol: one value when they agree ("uniform").
ParallelValues(name) == {Of(name)[k].parallel : k \in DOMAIN Of(name)}
IsUniform(name) == Cardinality(ParallelValues(name)) = 1

MixedSymbol(name) == \E k \in DOMAIN Of(name) : Of(name)[k].runs # Of(name)[1].runs

-----------------------------------------------------------------------------
(* Translation: the buckets of a cluster.                                   *)

UniformBucket(name) ==
    LET first == Of(name)[1] IN
    [symbol |-> first.runs, address |-> Address(name), hasInputs |-> first.hasInputs,
     defined |-> [k \in DOMAIN Of(name) |-> [at |-> Jump(Dims[name], Of(name)[k].index), parallel |-> Of(name)[k].parallel]],
     uniform |-> ParallelValues(name), partOfMixed |-> FALSE,
     offset |-> first.offset, componentOffset |-> first.componentOffset,
     offsetJump |-> Templates[first.runs].signals, componentJump |-> Templates[first.runs].components,
     numberOfCmp |-> Product(Dims[name])]

\* (a fault: the flag that tells the parallel status apart is never set)
MixedBucketUnflagged(t) ==
    [symbol |-> t.runs, address |-> Address(t.name) + Jump(Dims[t.name], t.index), hasInputs |-> t.hasInputs,
     defined |-> <<[at |-> 0, parallel |-> t.parallel]>>, uniform |-> {t.parallel}, partOfMixed |-> FALSE,
     offset |-> t.offset, componentOffset |-> t.componentOffset, offsetJump |-> 0, componentJump |-> 0,
     numberOfCmp |-> 1]
MixedBucket(t) == [MixedBucketUnflagged(t) EXCEPT !.partOfMixed = ~ IsUniform(t.name)]

BucketsOf(name) ==
    IF MixedSymbol(name) THEN [k \in DOMAIN Of(name) |-> MixedBucket(Of(name)[k])]
    ELSE <<UniformBucket(name)>>

CreateComponents ==
    /\ phase = "translate"
    /\ buckets' = FlattenSeq([i \in DOMAIN Names |-> IF Of(Names[i]) = << >> THEN << >> ELSE BucketsOf(Names[i])])
    /\ phase' = "run"
    /\ UNCHANGED <<target, triggers, memory, flags, ran>>

-----------------------------------------------------------------------------
(* Execution of the code of a bucket.  The k-th component it creates:       *)

Complete(b) == Len(b.defined) = b.numberOfCmp
\* (a fault: the loop over a whole array starts at 1)
IndexOfOne(b, k) == IF Complete(b) THEN k ELSE b.defined[k].at
IndexOf(b, k) == IF Complete(b) THEN k - 1 ELSE b.defined[k].at
Created(b, k) ==
    [number |-> b.componentOffset + 1 + (k - 1) * b.componentJump,
     start |-> b.offset + (k - 1) * b.offsetJump]
Slots(b) == {b.address + IndexOf(b, k) : k \in DOMAIN b.defined}
PositionAt(b, a) == CHOOSE k \in DOMAIN b.defined : b.address + IndexOf(b, k) = a
ParallelAt(b, a) == b.defined[PositionAt(b, a)].parallel
Overwrite(f, A, Value(_)) == [a \in DOMAIN f \cup A |-> IF a \in A THEN Value(a) ELSE f[a]]

\* A creation runs the component it created when that has no inputs (a fault:
\* only the creation for threads does so).
RunAtCreationThreads(b) == {a \in Slots(b) : ~ b.hasInputs /\ ParallelAt(b, a)}
RunAtCreation(b) == {a \in Slots(b) : ~ b.hasInputs}

\* C++: the loop tests the parallel status of each position unless it is known
\* for the whole bucket.
ExecuteC ==
    /\ phase = "run" /\ target = "c" /\ buckets # << >>
    /\ LET b == Head(buckets)
           known == Cardinality(b.uniform) = 1
           Variant(a) == IF known THEN TRUE \in b.uniform ELSE ParallelAt(b, a)
       IN  /\ memory' = Overwrite(memory, Slots(b), LAMBDA a : Created(b, PositionAt(b, a)) @@ [variant |-> Variant(a)])
           /\ flags' = IF known /\ ~ b.partOfMixed THEN flags ELSE Overwrite(flags, Slots(b), Variant)
           /\ ran' = ran \cup RunAtCreation(b)
    /\ buckets' = Tail(buckets)
    /\ UNCHANGED <<target, triggers, phase>>

\* WASM: one component, a loop over a whole array, or the defined positions of
\* an array unrolled by the distances between them.  The last does not run the
\* components without inputs.
WasmIndexOf(b, k) ==
    IF Complete(b) THEN k - 1
    ELSE b.defined[1].at + FoldLeft(LAMBDA d, i : d + b.defined[i + 1].at - b.defined[i].at, 0, [i \in 1 .. k - 1 |-> i])
ExecuteWasm ==
    /\ phase = "run" /\ target = "wasm" /\ buckets # << >>
    /\ LET b == Head(buckets)
           slots == {b.address + WasmIndexOf(b, k) : k \in DOMAIN b.defined}
           At(a) == CHOOSE k \in DOMAIN b.defined : b.address + WasmIndexOf(b, k) = a
       IN  /\ memory' = Overwrite(memory, slots, LAMBDA a : Created(b, At(a)) @@ [variant |-> FALSE])
           /\ ran' = IF Complete(b) /\ ~ b.hasInputs THEN ran \cup slots ELSE ran
    /\ buckets' = Tail(buckets)
    /\ UNCHANGED <<target, triggers, flags, phase>>

Done == phase = "run" /\ buckets = << >> /\ UNCHANGED vars

-----------------------------------------------------------------------------

\* The executed template sorts its connexions before it numbers them.
Init ==
    /\ target \in {"c", "wasm"}
    /\ \E cnns \in Fathers : triggers = [k \in DOMAIN cnns |-> Trigger(cnns, k)]
    /\ buckets = << >> /\ memory = << >> /\ flags = << >> /\ ran = {}
    /\ phase = "translate"

Next == CreateComponents \/ ExecuteC \/ ExecuteWasm \/ Done

Spec == Init /\ [][Next]_vars

-----------------------------------------------------------------------------
(* Properties.                                                              *)

Addresses == 0 .. FoldLeft(LAMBDA a, c : a + Product(Dims[c]), 0, Names) - 1
SlotOf(t) == Address(t.name) + Jump(Dims[t.name], t.index)
Finished == phase = "run" /\ buckets = << >>

\* Nothing is stored outside the father's array of subcomponents, and only
\* components that exist are run.
TypeOK ==
    /\ target \in {"c", "wasm"} /\ phase \in {"translate", "run"}
    /\ DOMAIN memory \subseteq Addresses
    /\ \A a \in DOMAIN memory : memory[a] \in [number : Nat, start : Nat, variant : BOOLEAN]
    /\ DOMAIN flags \subseteq DOMAIN memory
    /\ ran \subseteq DOMAIN memory

\* Every component the template assigned is created once all buckets ran, at
\* the address its name and indexes stand for, with the number and the first
\* signal the numbering of the circuit gave it, and no other address is set:
\* create_uniform_components keeps only the first offset and the jumps, and
\* relies on the order of the connexions.
SlotsRight ==
    Finished =>
        /\ DOMAIN memory = {SlotOf(triggers[k]) : k \in DOMAIN triggers}
        /\ \A k \in DOMAIN triggers :
               LET t == triggers[k] IN
               /\ memory[SlotOf(t)].start = t.offset
               /\ target = "c" => memory[SlotOf(t)].number = t.componentOffset + 1

\* The stores and loads of the generated C++ code choose the code for threads
\* from the uniform value of the symbol or, when there is none, from
\* mySubcomponentsParallel: whatever they choose is what the component was
\* created for, and the entry they look at has been set.
VariantMatches ==
    Finished /\ target = "c" =>
        \A k \in DOMAIN triggers :
            LET t == triggers[k]
                chosen == IF IsUniform(t.name) THEN ParallelValues(t.name)
                          ELSE IF SlotOf(t) \in DOMAIN flags THEN {flags[SlotOf(t)]} ELSE {}
            IN  /\ chosen = {memory[SlotOf(t)].variant}
                /\ memory[SlotOf(t)].variant = t.parallel

\* A component without inputs is run when it is created: nothing else would
\* ever run it (C++).
SourcesRun ==
    Finished /\ target = "c" =>
        ran = {SlotOf(triggers[k]) : k \in {j \in DOMAIN triggers : ~ triggers[j].hasInputs}}

\* The same in WASM, as template.rs says of the generated code: "if has no
\* inputs should be runned".
WasmSourcesRun ==
    Finished /\ target = "wasm" =>
        ran = {SlotOf(triggers[k]) : k \in {j \in DOMAIN triggers : ~ triggers[j].hasInputs}}
=============================================================================
