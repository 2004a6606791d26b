------------------------- MODULE FunctionInstances -------------------------
(***************************************************************************)
(* Instances of functions (run_preprocessing): for every call found in a   *)
(* template or in an instance already made, one instance of the function   *)
(* for the dimensions of its arguments, with a return type inferred from   *)
(* its body; then every call is linked to its instance and every           *)
(* expression gets its dimensions.                                         *)
(*                                                                         *)
(* An expression is [k, parts]: a number (n), a variable (name; parts: its *)
(* accesses, an index or a signal [k |-> "sig", name]), an operation, a     *)
(* call (f, inst: 0 until it is linked), a conditional expression (parts:  *)
(* condition, two arms), an array, a uniform array (parts: value,          *)
(* dimension).  Dimensions are sequences of lengths.                       *)
(***************************************************************************)
EXTENDS Integers, Sequences, FiniteSets, TLC, SequencesExt, FiniteSetsExt

CONSTANTS
    Programs,      \* [templates, functions, buses], see Init
    MaxInstances   \* bound: no more instances are made

VARIABLES program, phase, instances, next, code

vars == <<program, phase, instances, next, code>>

Functions == program.functions
None == << >>
Some(t) == <<t>>

-----------------------------------------------------------------------------
(* Environments: blocks of variables with their dimensions, the last first.  *)

AddBlock(env) == Append(env, << >>)
RemoveBlock(env) == SubSeq(env, 1, Len(env) - 1)
AddVariable(env, x, t) == [env EXCEPT ![Len(env)] = (x :> t) @@ @]
Holding(env, x) == {i \in DOMAIN env : x \in DOMAIN env[i]}
GetVariable(env, x) == env[Max(Holding(env, x))][x]

\* Vectors of lengths are ordered as words.
Below(s, t) ==
    \/ Len(s) < Len(t) /\ \A i \in DOMAIN s : s[i] = t[i]
    \/ \E i \in DOMAIN s \cap DOMAIN t : s[i] < t[i] /\ \A j \in 1 .. i - 1 : s[j] = t[j]
MaxType(s, t) == IF Below(s, t) THEN t ELSE s
\* (a fault: the first return decides)
FirstReturn(s, t) == IF s = None THEN t ELSE s
\* (a fault: the last return decides)
LastReturn(s, t) == t
MaxReturn(s, t) == IF s = None THEN t ELSE IF t = None THEN s ELSE Some(MaxType(s[1], t[1]))

\* The dimensions of an array: the largest of its elements, each by itself.
Largest(ts) == [d \in DOMAIN ts[1] |-> Max({IF d \in DOMAIN ts[i] THEN ts[i][d] ELSE 0 : i \in DOMAIN ts})]

-----------------------------------------------------------------------------
(* What is known of components and buses: [size, signals, buses].            *)

RECURSIVE BusInfo(_)
BusInfo(id) ==
    LET bus == program.buses[id]
        sub == {f \in DOMAIN bus.fields : bus.fields[f].bus # 0}
    IN  [size |-> bus.size,
         signals |-> [f \in DOMAIN bus.fields \ sub |-> bus.fields[f].dims],
         buses |-> [f \in sub |-> [dims |-> bus.fields[f].dims, info |-> BusInfo(bus.fields[f].bus)]]]

\* The wires of the instances of one component, which may differ.
Common(l, r) == DOMAIN l \cap DOMAIN r
RECURSIVE MergedInfo(_, _)
MergedInfo(l, r) ==
    [size |-> Max({l.size, r.size}),
     signals |-> [x \in Common(l.signals, r.signals) |-> MaxType(l.signals[x], r.signals[x])] @@ l.signals @@ r.signals,
     buses |-> [x \in Common(l.buses, r.buses) |->
                    [dims |-> MaxType(l.buses[x].dims, r.buses[x].dims), info |-> MergedInfo(l.buses[x].info, r.buses[x].info)]]
               @@ l.buses @@ r.buses]

TriggerInfo(trigger) ==
    [size |-> 0,
     signals |-> [w \in {w \in DOMAIN trigger.wires : trigger.wires[w].bus = 0} |-> trigger.wires[w].dims],
     buses |-> [w \in {w \in DOMAIN trigger.wires : trigger.wires[w].bus # 0} |->
                    [dims |-> trigger.wires[w].dims, info |-> BusInfo(trigger.wires[w].bus)]]]
ComponentInfo(triggers) ==
    FoldLeft(LAMBDA known, t : (t.component :> IF t.component \in DOMAIN known THEN MergedInfo(TriggerInfo(t), known[t.component])
                                               ELSE TriggerInfo(t)) @@ known,
             << >>, triggers)

\* The buses known to a body: those of its template; the functions come after
\* the templates and are left with those of the last one.
BusesOf(i) ==
    LET t == program.templates[IF i <= Len(program.templates) THEN i ELSE Len(program.templates)]
    IN  [b \in DOMAIN t.buses |-> BusInfo(t.buses[b])]
Known(i) == [components |-> IF i <= Len(program.templates) THEN ComponentInfo(program.templates[i].triggers) ELSE << >>,
             buses |-> BusesOf(i)]

-----------------------------------------------------------------------------
(* The dimensions of an expression whose calls have instances.               *)

\* (a fault: an instance is found by the number of its parameters)
AnyInstanceOf(insts, f, params) == {i \in DOMAIN insts : insts[i].name = f /\ Len(insts[i].params) = Len(params)}
InstanceOf(insts, f, params) == {i \in DOMAIN insts : insts[i].name = f /\ insts[i].params = params}

\* Types are looked up by the name of an instance, which is also what a linked
\* call has, before the functions are: nothing keeps a function from that name.
Header(insts, i) == insts[i].name \o "_" \o ToString(i - 1)
QuickKnowledge(insts, f) == {i \in DOMAIN insts : Header(insts, i) = f}

TypeOfVariable(known, env, e) ==
    LET Step(acc, a) ==
            IF a.k # "sig" THEN [acc EXCEPT !.dims = Tail(@)]
            ELSE LET info == IF acc.bus # None THEN acc.bus[1] ELSE known.components[e.name]
                 IN  IF a.name \in DOMAIN info.signals THEN [dims |-> info.signals[a.name], bus |-> None]
                     ELSE [dims |-> info.buses[a.name].dims, bus |-> Some(info.buses[a.name].info)]
        end == FoldLeft(Step, [dims |-> GetVariable(env, e.name),
                               bus |-> IF e.name \in DOMAIN known.buses THEN Some(known.buses[e.name]) ELSE None], e.parts)
    IN  IF end.bus = None THEN end.dims ELSE Append(end.dims, end.bus[1].size)

RECURSIVE TypeOf(_, _, _, _)
TypesOf(insts, known, env, es) == [i \in DOMAIN es |-> TypeOf(insts, known, env, es[i])]
TypeOf(insts, known, env, e) ==
    CASE e.k = "var" -> TypeOfVariable(known, env, e)
      [] e.k = "array" -> <<Len(e.parts)>> \o Largest(TypesOf(insts, known, env, e.parts))
      [] e.k = "uniform" -> <<e.parts[2].n>> \o TypeOf(insts, known, env, e.parts[1])
      [] e.k = "switch" -> TypeOf(insts, known, env, e.parts[2])
      [] e.k = "call" /\ e.inst # 0 -> insts[e.inst].return
      [] e.k = "call" /\ e.inst = 0 /\ QuickKnowledge(insts, e.f) # {} -> insts[Min(QuickKnowledge(insts, e.f))].return
      [] e.k = "call" /\ e.inst = 0 /\ QuickKnowledge(insts, e.f) = {} /\ e.f \in DOMAIN Functions ->
            LET found == InstanceOf(insts, e.f, TypesOf(insts, known, env, e.parts))
            IN  IF found = {} THEN << >> ELSE insts[Min(found)].return
      [] OTHER -> << >>

-----------------------------------------------------------------------------
(* The return type of a function, before it has instances: ctx is the        *)
(* environment, the calls being looked into and whether a statement was met  *)
(* that has no case (unreachable!()); a type is None or Some(t).             *)

RECURSIVE InferExpression(_, _)
RECURSIVE InferStatement(_, _)

\* Types of the arguments, up to the first that has none.
InferArgs(es, ctx) ==
    FoldLeft(LAMBDA acc, e : IF ~ acc.ok THEN acc
                             ELSE LET r == InferExpression(e, acc.ctx)
                                  IN  [ok |-> r.t # None, types |-> acc.types \o r.t, ctx |-> r.ctx],
             [ok |-> TRUE, types |-> << >>, ctx |-> ctx], es)

\* A call being looked into has no type; one whose arguments have none leaves
\* its block and its name behind.
InferCall(e, ctx) ==
    LET f    == Functions[e.f]
        open == [ctx EXCEPT !.open = @ \cup {e.f}, !.env = AddBlock(@)]
        args == InferArgs(e.parts, open)
        body == InferStatement(f.body, [args.ctx EXCEPT !.env = FoldLeft(LAMBDA v, i : AddVariable(v, f.params[i], args.types[i]), @,
                                                                         [i \in DOMAIN args.types |-> i])])
    IN  IF e.f \in ctx.open THEN [t |-> None, ctx |-> ctx]
        ELSE IF ~ args.ok THEN [t |-> None, ctx |-> args.ctx]
        ELSE [t |-> body.t, ctx |-> [body.ctx EXCEPT !.env = RemoveBlock(@), !.open = @ \ {e.f}]]

\* A conditional expression has the type of its second arm when the first has none.
InferSwitch(e, ctx) ==
    LET r == InferExpression(e.parts[2], ctx)
    IN  IF r.t = None THEN InferExpression(e.parts[3], r.ctx) ELSE r

InferArray(e, ctx) ==
    LET r == InferArgs(e.parts, ctx)
    IN  [t |-> IF r.ok THEN Some(<<Len(e.parts)>> \o Largest(r.types)) ELSE None, ctx |-> r.ctx]
InferUniform(e, ctx) ==
    LET r == InferExpression(e.parts[1], ctx)
    IN  [r EXCEPT !.t = IF @ = None THEN None ELSE Some(<<e.parts[2].n>> \o @[1])]

InferExpression(e, ctx) ==
    CASE e.k = "call" -> InferCall(e, ctx)
      [] e.k = "switch" -> InferSwitch(e, ctx)
      [] e.k = "array" -> InferArray(e, ctx)
      [] e.k = "uniform" -> InferUniform(e, ctx)
      [] e.k = "var" -> [t |-> LET t == GetVariable(ctx.env, e.name) IN Some(SubSeq(t, Len(e.parts) + 1, Len(t))), ctx |-> ctx]
      [] OTHER -> [t |-> Some(<< >>), ctx |-> ctx]

Declared(env, ds) == FoldLeft(LAMBDA v, d : AddVariable(v, d.name, d.dims), env, ds)
Declarations(stmts) == SelectSeq(stmts, LAMBDA s : s.k = "decl")

\* Every return of the body counts, also one that comes after another.
InferSequence(stmts, ctx) ==
    FoldLeft(LAMBDA acc, s : LET r == InferStatement(s, acc.ctx) IN [t |-> MaxReturn(acc.t, r.t), ctx |-> r.ctx],
             [t |-> None, ctx |-> ctx], stmts)
InferStatement(s, ctx) ==
    CASE s.k = "return" -> InferExpression(s.exps[1], ctx)
      [] s.k = "block" -> LET r == InferSequence(s.stmts, [ctx EXCEPT !.env = AddBlock(@)]) IN [r EXCEPT !.ctx.env = RemoveBlock(@)]
      [] s.k = "init" -> [t |-> None, ctx |-> [ctx EXCEPT !.env = Declared(@, Declarations(s.stmts))]]
      [] s.k = "decl" -> [t |-> None, ctx |-> [ctx EXCEPT !.env = Declared(@, <<s>>)]]
      [] s.k \in {"if", "while"} -> InferSequence(s.stmts, ctx)
      [] s.k \in {"sub", "eq", "log", "assert"} -> [t |-> None, ctx |-> ctx]
      [] s.k = "under" -> [t |-> None, ctx |-> [ctx EXCEPT !.stops = TRUE]]

\* None when the compiler stops: no return has a type, or a statement no case.
InferFunctionResult(f, params) ==
    LET env == FoldLeft(LAMBDA v, i : AddVariable(v, Functions[f].params[i], params[i]), <<<< >>>>, [i \in DOMAIN params |-> i])
        r   == InferStatement(Functions[f].body, [open |-> {f}, env |-> env, stops |-> FALSE])
    IN  IF r.ctx.stops THEN None ELSE r.t

-----------------------------------------------------------------------------
(* Production of instances: the calls of a body in the order of its          *)
(* evaluation.  st is [insts, ok]; ok is FALSE when the compiler stops.      *)

\* (a fault: an instance is made for every call)
AddInstanceAlways(st, f, params) ==
    LET t == InferFunctionResult(f, params)
    IN  IF t = None THEN [st EXCEPT !.ok = FALSE]
        ELSE [st EXCEPT !.insts = Append(@, [name |-> f, params |-> params, return |-> t[1]])]
AddInstance(st, f, params) ==
    IF InstanceOf(st.insts, f, params) # {} THEN st
    ELSE LET t == InferFunctionResult(f, params)
         IN  IF t = None THEN [st EXCEPT !.ok = FALSE]
             ELSE [st EXCEPT !.insts = Append(@, [name |-> f, params |-> params, return |-> t[1]])]

\* The expressions inside e that are looked at: not the condition of a
\* conditional expression.
Visited(e) == IF e.k = "switch" THEN <<2, 3>> ELSE [i \in DOMAIN e.parts |-> i]

ProduceCall(st, known, env, e) ==
    IF e.f \notin DOMAIN Functions THEN st ELSE AddInstance(st, e.f, TypesOf(st.insts, known, env, e.parts))

RECURSIVE ProduceExpression(_, _, _, _)
ProduceAll(st, known, env, es) == FoldLeft(LAMBDA acc, e : ProduceExpression(acc, known, env, e), st, es)
ProduceExpression(st, known, env, e) ==
    LET inner == ProduceAll(st, known, env, [i \in DOMAIN Visited(e) |-> e.parts[Visited(e)[i]]])
    IN  IF e.k = "call" /\ inner.ok THEN ProduceCall(inner, known, env, e) ELSE inner

RECURSIVE ProduceStatement(_, _, _, _)
ProduceSequence(r, known, stmts) == FoldLeft(LAMBDA acc, s : ProduceStatement(acc.st, known, acc.env, s), r, stmts)
ProduceStatement(st, known, env, s) ==
    CASE s.k = "block" -> [st |-> ProduceSequence([st |-> st, env |-> AddBlock(env)], known, s.stmts).st, env |-> env]
      [] s.k = "init" -> ProduceSequence([st |-> st, env |-> env], known, s.stmts)
      [] s.k \in {"if", "while"} -> ProduceSequence([st |-> ProduceAll(st, known, env, s.exps), env |-> env], known, s.stmts)
      [] s.k = "decl" -> [st |-> ProduceAll(st, known, env, s.exps), env |-> Declared(env, <<s>>)]
      [] s.k = "under" -> [st |-> st, env |-> env]
      [] OTHER -> [st |-> ProduceAll(st, known, env, s.exps), env |-> env]

-----------------------------------------------------------------------------
(* Linking: the calls of a body get their instances.                         *)

RECURSIVE LinkExpression(_, _, _, _)
LinkExpression(insts, known, env, e) ==
    LET seen   == ToSet(Visited(e))
        inner  == [i \in DOMAIN e.parts |-> IF i \in seen THEN LinkExpression(insts, known, env, e.parts[i]) ELSE e.parts[i]]
        linked == [e EXCEPT !.parts = inner]
    IN  IF e.k # "call" THEN linked
        ELSE IF e.f \notin DOMAIN Functions THEN linked
        ELSE LET found == InstanceOf(insts, e.f, TypesOf(insts, known, env, inner))
             IN  [linked EXCEPT !.inst = IF found = {} THEN -1 ELSE Min(found)]

LinkAll(insts, known, env, es) == [i \in DOMAIN es |-> LinkExpression(insts, known, env, es[i])]

RECURSIVE LinkStatement(_, _, _, _)
LinkSequence(insts, known, r, stmts) ==
    FoldLeft(LAMBDA acc, s : LET l == LinkStatement(insts, known, acc.env, s) IN [stmts |-> Append(acc.stmts, l.s), env |-> l.env], r, stmts)
LinkStatement(insts, known, env, s) ==
    LET exps  == LinkAll(insts, known, env, s.exps)
        inner == LinkSequence(insts, known, [stmts |-> << >>, env |-> IF s.k = "block" THEN AddBlock(env) ELSE env], s.stmts)
    IN  CASE s.k = "block" -> [s |-> [s EXCEPT !.stmts = inner.stmts], env |-> env]
          [] s.k \in {"init", "if", "while"} -> [s |-> [s EXCEPT !.exps = exps, !.stmts = inner.stmts], env |-> inner.env]
          [] s.k = "decl" -> [s |-> [s EXCEPT !.exps = exps], env |-> Declared(env, <<s>>)]
          [] s.k = "under" -> [s |-> s, env |-> env]
          [] OTHER -> [s |-> [s EXCEPT !.exps = exps], env |-> env]

-----------------------------------------------------------------------------
(* The bodies: those of the templates, then those of the instances, which     *)
(* are met while they are made.                                              *)

TemplateCount == Len(program.templates)
Bodies == TemplateCount + Len(instances)
BodyOf(i) == IF i <= TemplateCount THEN program.templates[i].code ELSE Functions[instances[i - TemplateCount].name].body
EnvironmentOf(i) ==
    IF i <= TemplateCount THEN <<program.templates[i].header>>
    ELSE LET inst == instances[i - TemplateCount]
             names == Functions[inst.name].params
         IN  FoldLeft(LAMBDA v, j : AddVariable(v, names[j], inst.params[j]), <<<< >>>>, [j \in DOMAIN inst.params |-> j])

\* templates: [header, triggers, buses, code]; functions: name to [params, body].
Init ==
    /\ program \in Programs
    /\ phase = "produce" /\ instances = << >> /\ next = 1 /\ code = << >>

\* The calls of the next body give new instances, whose bodies come later.
Produce ==
    LET r == ProduceStatement([insts |-> instances, ok |-> TRUE], Known(next), EnvironmentOf(next), BodyOf(next)).st
    IN  /\ phase = "produce" /\ next <= Bodies /\ Len(instances) <= MaxInstances
        /\ instances' = r.insts
        /\ phase' = IF r.ok THEN "produce" ELSE "stopped"
        /\ next' = next + 1
        /\ UNCHANGED <<program, code>>

StartLinking ==
    /\ phase = "produce" /\ next > Bodies
    /\ phase' = "link" /\ next' = 1
    /\ UNCHANGED <<program, instances, code>>

Link ==
    /\ phase = "link" /\ next <= Bodies
    /\ code' = Append(code, LinkStatement(instances, Known(next), EnvironmentOf(next), BodyOf(next)).s)
    /\ next' = next + 1
    /\ phase' = IF next = Bodies THEN "linked" ELSE "link"
    /\ UNCHANGED <<program, instances>>

Next == Produce \/ StartLinking \/ Link
Spec == Init /\ [][Next]_vars
-----------------------------------------------------------------------------
(* Properties.                                                               *)

\* The dimensions an expression has when it is evaluated in body i: names are
\* those of that body, a conditional expression may give either arm.
RightKnown(i) == [Known(i) EXCEPT !.buses = IF i <= TemplateCount THEN @ ELSE << >>]
RECURSIVE RightType(_, _, _)
RightType(i, env, e) ==
    LET of(es) == [j \in DOMAIN es |-> RightType(i, env, es[j])]
    IN  CASE e.k = "var" -> TypeOfVariable(RightKnown(i), env, e)
          [] e.k = "array" -> <<Len(e.parts)>> \o Largest(of(e.parts))
          [] e.k = "uniform" -> <<e.parts[2].n>> \o RightType(i, env, e.parts[1])
          [] e.k = "switch" -> Largest(of(Tail(e.parts)))
          [] e.k = "call" -> IF e.inst > 0 THEN instances[e.inst].return ELSE << >>
          [] OTHER -> << >>

\* The expressions of a body, each with the environment where it stands.
RECURSIVE PartsWithin(_)
PartsWithin(e) == <<e>> \o FlattenSeq([i \in DOMAIN e.parts |-> PartsWithin(e.parts[i])])
RECURSIVE Placed(_, _)
PlacedHere(s, env) ==
    LET parts == FlattenSeq([i \in DOMAIN s.exps |-> PartsWithin(s.exps[i])])
    IN  [i \in DOMAIN parts |-> [e |-> parts[i], env |-> env, returned |-> s.k = "return" /\ i = 1]]
Placed(stmts, env) ==
    IF stmts = << >> THEN << >>
    ELSE LET s == Head(stmts)
         IN  PlacedHere(s, env) \o Placed(s.stmts, IF s.k = "block" THEN AddBlock(env) ELSE env)
             \o Placed(Tail(stmts), CASE s.k = "decl" -> Declared(env, <<s>>)
                                      [] s.k = "init" -> Declared(env, Declarations(s.stmts))
                                      [] OTHER -> env)
Expressions(i) == ToSet(Placed(<<code[i]>>, EnvironmentOf(i)))

\* A finished production has looked into every instance; a function has one
\* instance for the same dimensions of its parameters, however often and from
\* wherever it is called, itself included.
TypeOK ==
    /\ phase \in {"produce", "link", "linked", "stopped"}
    /\ phase = "linked" => Len(code) = Bodies
    /\ \A i, j \in DOMAIN instances :
            instances[i].name = instances[j].name /\ instances[i].params = instances[j].params => i = j

\* Function f assigns a value to the underscore.
RECURSIVE Underscored(_)
Underscored(s) == s.k = "under" \/ \E i \in DOMAIN s.stmts : Underscored(s.stmts[i])
Discards(f) == Underscored(Functions[f].body)

\* The first arm of every conditional expression in e, whose dimensions the
\* expression is given, has room for the second.
Within(s, t) == Len(s) = Len(t) /\ \A d \in DOMAIN s : s[d] <= t[d]
FirstArmHolds(i, env, e) ==
    \A x \in ToSet(PartsWithin(e)) :
        x.k = "switch" => Within(RightType(i, env, x.parts[3]), RightType(i, env, x.parts[2]))

\* A function has the name of an instance.
Homonyms == \E i \in DOMAIN instances : Header(instances, i) \in DOMAIN Functions

\* A program whose functions all return, with no assignment to the underscore in
\* them, stops neither production nor linking.
NeverStops == phase = "stopped" => \E f \in DOMAIN Functions : Discards(f)

\* Every call of a linked body goes to an instance of its function made for the
\* dimensions its arguments have there, unless an argument is a conditional
\* expression whose second arm is longer or a function has the name of an instance.
CallsLinked ==
    Homonyms \/
    \A i \in DOMAIN code :
        \A p \in {x \in Expressions(i) : x.e.k = "call" /\ FirstArmHolds(i, x.env, x.e)} :
            p.e.f \in DOMAIN Functions =>
                /\ p.e.inst \in DOMAIN instances
                /\ instances[p.e.inst].name = p.e.f
                /\ instances[p.e.inst].params = [j \in DOMAIN p.e.parts |-> RightType(i, p.env, p.e.parts[j])]

\* What an instance returns fits in its return type, whichever return statement
\* is reached: the caller gives it so much room.  A conditional expression is
\* left out when its second arm is longer.
ReturnsFit ==
    Homonyms \/
    \A i \in DOMAIN code \ (1 .. TemplateCount) :
        \A p \in Expressions(i) :
            p.returned /\ FirstArmHolds(i, p.env, p.e) => Within(RightType(i, p.env, p.e), instances[i - TemplateCount].return)

\* What the documents let a program rely on, and the code does not keep: a
\* program whose functions all return is compiled, whatever else they do.
AcceptedNeverStops == phase # "stopped"

\* Every call goes to an instance of its function, whatever the functions are called.
NamesAreFree ==
    \A i \in DOMAIN code : \A p \in {x \in Expressions(i) : x.e.k = "call"} : p.e.f \in DOMAIN Functions => p.e.inst \in DOMAIN instances

\* What is returned fits, also the second arm of a conditional expression.
ArmsFit ==
    \A i \in DOMAIN code \ (1 .. TemplateCount) :
        \A p \in Expressions(i) : p.returned => Within(RightType(i, p.env, p.e), instances[i - TemplateCount].return)
=============================================================================
