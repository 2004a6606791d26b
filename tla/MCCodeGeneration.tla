-------------------------- MODULE MCCodeGeneration --------------------------
(***************************************************************************)
(* From the executed templates to the code of the witness calculator, on   *)
(* small instances: the cleaning of what is translated (CleanMeaning), the *)
(* instances of functions (FunctionInstances), the marks of the stores to  *)
(* subcomponents (InputStatus) and the creation of subcomponents           *)
(* (ComponentCreation).  They run one after the other in one thread; a     *)
(* behaviour here is that of one of them, "running", and a variable it has *)
(* not is off.                                                             *)
(***************************************************************************)
EXTENDS CleanMeaning

CONSTANTS Calls, MaxInstances,                       \* of FunctionInstances
          Lists, MaxLoop,                            \* of InputStatus
          Names, Dims, Templates, OwnSignals, Fathers \* of ComponentCreation

VARIABLES running,
          phase, instances, next, code,
          trace, total, given, counter, runs, early, failed,
          target, triggers, buckets, memory, flags, ran

-----------------------------------------------------------------------------
(* Bodies with one statement of every kind, with expressions nested twice, *)
(* alone, in a block, in a branch, in a loop; pairs of them; returns of    *)
(* functions.                                                              *)
N(s) == <<s, 0>>
X == Var(N("x"), << >>, << >>)
Y == Var(N("y"), << >>, << >>)
I == Var(N("i"), << >>, << >>)
A(e) == Var(N("a"), <<e>>, << >>)
Arr == Var(N("a"), << >>, <<2>>)
M(e) == Var(N("m"), <<e>>, <<2>>)
C(e) == Var(N("c"), <<e>>, << >>)

StartEnvDef == (N("x") :> 1) @@ (N("y") :> 0) @@ (N("i") :> 0) @@ (N("a") :> <<1, 0>>)
               @@ (N("m") :> <<<<1, 0>>, <<0, 1>>>>) @@ (N("c") :> <<0, 1>>)
MixedDef == {N("c")}

Call(f, args, dims) == [k |-> "call", f |-> f, parts |-> args, dims |-> dims]
Inc(e) == Call("inc", <<e>>, << >>)
PairOf(e) == Call("pair", <<e>>, <<2>>)
First(e) == Call("first", <<e>>, << >>)
Switch(c, t, f) == [k |-> "switch", parts |-> <<c, t, f>>, dims |-> t.dims]
Array(es, dims) == [k |-> "array", parts |-> es, dims |-> dims]
Minus(e) == [k |-> "op", op |-> "-", parts |-> <<e>>, dims |-> << >>]

\* Scalars: without sugar, with one piece of it, with two.
S0 == {X, Num(2), Infix("+", X, Num(1)), A(Y), C(C(Y))}
S1 == {Inc(X), Switch(X, Y, Num(3)), A(Switch(X, Y, X)), Infix("+", Inc(Y), Inc(X)), First(Arr),
       Infix("**", X, X), Infix("**", Num(2), Num(2)), Minus(Inc(X)), C(Infix("+", C(Y), Num(0)))}
S2 == {Inc(e) : e \in S1} \cup {Infix("+", e, X) : e \in S1} \cup {Switch(X, e, Y) : e \in {A(X), C(C(X))}}
      \cup {First(PairOf(Inc(X))), First(Array(<<Inc(Y), X>>, <<2>>)), C(C(Switch(Y, X, Y))), Inc(C(C(Y)))}
\* Arrays of two elements, and of two arrays.
Arrays == {Arr, PairOf(X), PairOf(Inc(Y)), Array(<<X, Num(3)>>, <<2>>), Array(<<Inc(X), Switch(Y, X, Num(4))>>, <<2>>),
           Uniform(Num(5), 2, <<2>>), Uniform(Inc(X), 2, <<2>>), Switch(X, M(Y), M(X)), Switch(Y, Array(<<X, X>>, <<2>>), Uniform(X, 2, <<2>>)),
           Switch(X, Array(<<Y, X>>, <<2>>), Uniform(X, 2, <<2>>))}
Matrices == {Array(<<PairOf(X), Arr>>, <<2, 2>>), Array(<<Array(<<X>>, <<1>>), Array(<<X, Num(7)>>, <<2>>)>>, <<2, 2>>),
             Array(<<M(X), Uniform(Inc(X), 2, <<2>>)>>, <<2, 2>>), Uniform(PairOf(Y), 2, <<2, 2>>),
             Array(<<Array(<<X, Num(7)>>, <<2>>), Array(<<Num(6)>>, <<1>>)>>, <<2, 2>>)}

Log(e) == [k |-> "log", exps |-> <<e>>]
Assertion(e) == [k |-> "assert", exps |-> <<e>>]
Return(e) == [k |-> "return", exps |-> <<e>>]
Assign(name, index, e) == Sub(N(name), index, e)
NoSwitch == {e \in S0 \cup S1 \cup S2 : e.k # "switch"}

Assignments == {Assign("x", << >>, e) : e \in S0 \cup S1 \cup S2}
               \cup {Assign("m", <<j>>, e) : j \in {Y, Inc(Y), A(Inc(Y))}, e \in Arrays}
               \cup {Assign("m", << >>, e) : e \in Matrices} \cup {Assign("a", <<e>>, e) : e \in {Switch(X, Y, X), First(Arr)}}
Checked == {[k |-> "eq", exps |-> <<l, r>>] : l \in {Array(<<Inc(X), Y>>, <<2>>), Array(<<X, Y>>, <<2>>)},
                                             r \in {Arr, M(Inc(Y)), Array(<<Y, Inc(Y)>>, <<2>>), Uniform(Inc(X), 2, <<2>>)}}
           \cup {Equal(M(Switch(X, Y, X)), Array(<<First(Arr), Y>>, <<2>>)), Equal(Array(<<M(Y), PairOf(X)>>, <<2, 2>>), Var(N("m"), << >>, <<2, 2>>))}
Others == {Log(e) : e \in NoSwitch} \cup {Assertion(e) : e \in NoSwitch \cap S1} \cup {Equal(X, e) : e \in NoSwitch \cap S1}
Statements == Assignments \cup Checked \cup Others

Turns(s) == [k |-> "while", exps |-> <<Infix("<", I, Num(2))>>, stmts |-> <<Block(<<s, Assign("i", << >>, Infix("+", I, Num(1)))>>)>>]
Local(e, s) == [k |-> "init", stmts |-> <<Decl(N("z"), << >>), Assign("z", << >>, e), s>>]
Contexts(s) == {Block(<<s, Log(X)>>), Block(<<Turns(s)>>),
                Block(<<If(Inc(A(Inc(Y))), <<Block(<<s>>), Block(<<Log(Inc(X))>>)>>), s>>),
                Block(<<If(Infix("<", X, Switch(X, Y, X)), <<Block(<<Log(X)>>), Block(<<s, Local(Inc(X), s)>>)>>)>>)}
PairsOf(S, T) == {Block(<<s, Turns(Block(<<t>>)), s>>) : s \in S, t \in T}
Returns == {Block(<<If(e, <<Block(<<Return(f)>>)>>), Return(f)>>) : e \in {X, Inc(X), Y}, f \in NoSwitch \cup Arrays \cup {Switch(X, Y, X)}}
           \cup {Block(<<Return(e)>>) : e \in Matrices}

Bodies == UNION {Contexts(s) : s \in Statements}
          \cup PairsOf({Assign("x", << >>, e) : e \in S1}, {Assign("m", <<Inc(Y)>>, e) : e \in Arrays})
ProgramsDef == {<<b>> : b \in Bodies} \cup {<<Block(<<s>>), r>> : s \in {Log(Inc(Inc(X)))}, r \in Returns}

\* A loop whose condition calls a function.
LoopPrograms == {<<Block(<<[k |-> "while", exps |-> <<c>>, stmts |-> <<Block(<<Assign("x", << >>, Infix("+", X, Num(1)))>>)>>]>>)>> :
                    c \in {Infix("<", X, Num(3)), Infix("<", Inc(X), Num(3))}}
\* Branches that are not blocks, and arms, that call functions.
EagerPrograms == {<<Block(<<If(Y, <<Assign("x", << >>, Infix("+", e, Num(1)))>>)>>)>> : e \in {X, Inc(X)}}
\* An array assigned to the variable its elements read.
SwapPrograms == {<<Block(<<Assign("a", << >>, Array(<<A(j), A(k)>>, <<2>>))>>)>> : j \in {Num(0), Num(1)}, k \in {Num(0), Num(1)}}
\* An array that equals what a function returns.
EqualityPrograms == {<<Block(<<Equal(Array(<<X, Y>>, <<2>>), e)>>)>> : e \in {Arr, PairOf(X)}}
\* A branch that is not a block and assigns an array.
LeftPrograms == {<<Block(<<If(X, <<Assign("a", << >>, e)>>)>>)>> : e \in {Arr, PairOf(X), Array(<<X, X>>, <<2>>)}}

-----------------------------------------------------------------------------
(* Programs that call functions with arrays of several lengths: those of   *)
(* MCFunctionInstances.                                                    *)
Linking == INSTANCE FunctionInstances WITH Programs <- Calls
Callers == INSTANCE MCFunctionInstances WITH Programs <- {}

CallsDef == Callers!ProgramsDef

-----------------------------------------------------------------------------
(* Templates of up to three items, of which up to two are branches or      *)
(* loops, over the array c of two subcomponents and an anonymous component *)
(* with two inputs; and short templates with stores of no, one or two      *)
(* inputs, the same for both subcomponents or not.                         *)
ArrayPositions == [c |-> {1, 2}]
Marking == INSTANCE InputStatus WITH Bodies <- Lists, Positions <- ArrayPositions
Shape == INSTANCE InputStatus WITH Bodies <- {}, Positions <- ArrayPositions

Targets == {1, 2, Shape!Unknown}
One == [x \in {1, 2} |-> 1]
Stores == {Shape!Store("c", x, FALSE, One, 1) : x \in Targets}
OfAnonymous(size) == Shape!Store("a", 9, TRUE, [x \in 9 .. 9 + MaxLoop |-> size], size)
Anonymous == <<OfAnonymous(1), OfAnonymous(1)>>
\* (what is stored has one size or not; a function stores nothing)
Sized == {Shape!Store("c", x, FALSE, sizes, sizes[1]) : x \in {1, Shape!Unknown}, sizes \in {<<0, 0>>, <<0, 1>>, <<2, 1>>, <<2, 2>>}}
         \cup {Shape!Store("c", x, FALSE, <<0, 1>>, Shape!Varies) : x \in Targets}
         \cup {Shape!Store("c", x, FALSE, <<0, 0>>, Shape!Called) : x \in {1, Shape!Unknown}}

UpTo1(S) == {<<>>} \cup {<<a>> : a \in S}
UpTo2(S) == UpTo1(S) \cup {<<a, b>> : a \in S, b \in S}

Branches == {Shape!Branch(t, e) : t \in UpTo1(Stores), e \in UpTo1(Stores)}
Compound == Branches \cup {Shape!Loop(b) : b \in UpTo2(Stores)} \cup {Shape!Loop(<<b>>) : b \in Branches}

ListsDef ==
  UpTo2(Stores \cup Compound) \cup
  UNION {{<<a, b, k>>, <<a, k, b>>, <<k, a, b>>} : a \in Stores, b \in Stores, k \in Stores \cup Compound} \cup
  {<<a, k, l>> : a \in Stores, k \in Branches, l \in Branches} \cup
  {Anonymous \o l : l \in UpTo1(Stores \cup Compound)} \cup
  {<<Shape!Loop(Anonymous \o l)>> : l \in UpTo2(Stores)} \cup
  {<<OfAnonymous(m), OfAnonymous(n)>> : m \in 0 .. 2, n \in 0 .. 2} \cup
  UNION {{<<a, z>>, <<z, a>>, <<a, Shape!Branch(<<z>>, <<>>)>>, <<a, Shape!Loop(<<z>>)>>} : a \in Sized \cup Compound, z \in Sized} \cup
  UNION {{<<a, b, z>>, <<a, z, b>>} : a \in Stores, b \in Stores \cup Branches, z \in Sized}

-----------------------------------------------------------------------------
(* Fathers with two symbols: an array x of two by two and a scalar y;      *)
(* every non-empty choice of the positions of x, each with one of three    *)
(* instances and a parallel mark.                                          *)
Creation == INSTANCE ComponentCreation

TemplatesDef == [a |-> [signals |-> 3, components |-> 2, inputs |-> 1, parallel |-> FALSE],
                 b |-> [signals |-> 2, components |-> 1, inputs |-> 1, parallel |-> TRUE],
                 n |-> [signals |-> 2, components |-> 1, inputs |-> 0, parallel |-> FALSE]]
NamesDef == <<"x", "y">>
DimsDef == [x |-> <<2, 2>>, y |-> << >>]

\* The positions of x in the order of the sort.
Positions == <<<<0, 0>>, <<0, 1>>, <<1, 0>>, <<1, 1>>>>
Kinds == [template : DOMAIN TemplatesDef, parallel : BOOLEAN]
Cnn(name, index, kind) == [name |-> name, index |-> index] @@ kind
OfArray(used, kinds) ==
    LET taken == SelectSeq(<<1, 2, 3, 4>>, LAMBDA p : p \in used)
    IN  [i \in DOMAIN taken |-> Cnn("x", Positions[taken[i]], kinds[taken[i]])]
FathersDef ==
    UNION {{OfArray(used, kinds) \o <<Cnn("y", << >>, y)>> :
                kinds \in [used -> Kinds], y \in {[template |-> "a", parallel |-> FALSE], [template |-> "n", parallel |-> TRUE]}} :
              used \in SUBSET (1 .. 4) \ {{}}}

ASSUME Creation!DimsAssumption

-----------------------------------------------------------------------------
(* One of them in each behaviour.                                          *)
Off == "off"

CleanRest ==
    <<phase, instances, next, code, trace, total, given, counter, runs, early,
      failed, target, triggers, buckets, memory, flags, ran>>
CleanAlone ==
    /\ phase = Off /\ instances = Off /\ next = Off /\ code = Off
    /\ trace = Off /\ total = Off /\ given = Off /\ counter = Off
    /\ runs = Off /\ early = Off /\ failed = Off /\ target = Off
    /\ triggers = Off /\ buckets = Off /\ memory = Off /\ flags = Off
    /\ ran = Off

LinkingRest ==
    <<done, body, fresh_id, trace, total, given, counter, runs, early, failed,
      target, triggers, buckets, memory, flags, ran>>
LinkingAlone ==
    /\ done = Off /\ body = Off /\ fresh_id = Off /\ trace = Off
    /\ total = Off /\ given = Off /\ counter = Off /\ runs = Off
    /\ early = Off /\ failed = Off /\ target = Off /\ triggers = Off
    /\ buckets = Off /\ memory = Off /\ flags = Off /\ ran = Off

MarkingRest ==
    <<program, done, body, fresh_id, instances, next, target, triggers,
      buckets, memory, flags, ran>>
MarkingAlone ==
    /\ program = Off /\ done = Off /\ body = Off /\ fresh_id = Off
    /\ instances = Off /\ next = Off /\ target = Off /\ triggers = Off
    /\ buckets = Off /\ memory = Off /\ flags = Off /\ ran = Off

CreationRest ==
    <<program, done, body, fresh_id, instances, next, code, trace, total,
      given, counter, runs, early, failed>>
CreationAlone ==
    /\ program = Off /\ done = Off /\ body = Off /\ fresh_id = Off
    /\ instances = Off /\ next = Off /\ code = Off /\ trace = Off
    /\ total = Off /\ given = Off /\ counter = Off /\ runs = Off
    /\ early = Off /\ failed = Off

generationVars == <<running, vars, CleanRest>>

GenerationInit ==
    \/ running = "cleaning" /\ Init /\ CleanAlone
    \/ running = "linking" /\ Linking!Init /\ LinkingAlone
    \/ running = "marking" /\ Marking!Init /\ MarkingAlone
    \/ running = "creation" /\ Creation!Init /\ CreationAlone

GenerationNext ==
    \/ running = "cleaning" /\ Next /\ UNCHANGED <<running, CleanRest>>
    \/ running = "linking" /\ Linking!Next /\ UNCHANGED <<running, LinkingRest>>
    \/ running = "marking" /\ Marking!Next /\ UNCHANGED <<running, MarkingRest>>
    \/ running = "creation" /\ Creation!Next /\ UNCHANGED <<running, CreationRest>>

GenerationSpec == GenerationInit /\ [][GenerationNext]_generationVars

-----------------------------------------------------------------------------
\* hir/sugar_cleaner.rs of the compiler crate (clean_sugar): a cleaned body
\* has nothing left that the translation has unreachable!() for, gives every
\* variable the value it had, logs, checks and returns the same and makes the
\* same calls; the fresh names never meet.
CleanedSame == running = "cleaning" => TypeOK /\ Translatable /\ SameMeaning /\ SameCalls

\* run_preprocessing: every call of the code is linked to an instance of its
\* function for the dimensions of its arguments, every return of an instance
\* fits the type the callers were given, and a return that is not known yet
\* never stops the inference.
CallsHaveInstances ==
    running = "linking" =>
        /\ Linking!TypeOK /\ Linking!NeverStops /\ Linking!CallsLinked /\ Linking!ReturnsFit

\* build_inputs_info.rs: whatever branches and loops an execution takes, every
\* subcomponent is run once, by the store that brings its last input and never
\* before, with and without the counters of the sanity checks, whose asserts hold.
InputsTrigger ==
    running = "marking" =>
        /\ Marking!TypeOK /\ Marking!RunsWithAllInputs /\ Marking!RunsAtLastInput /\ Marking!AssertsHold

\* create_components: every defined position gets the component, the number and
\* the signals the connexions gave it, no two components share a signal, the
\* parallel variant is called exactly for the parallel ones and a component
\* without inputs is run when it is created (by the C++ code).
ComponentsPlaced ==
    running = "creation" =>
        /\ Creation!TypeOK /\ Creation!SlotsRight /\ Creation!VariantMatches /\ Creation!SourcesRun
=============================================================================
