--------------------------- MODULE MCInterpreter ---------------------------
(***************************************************************************)
(* What the constraint generation decides, on small instances: templates   *)
(* (Templates), and what Templates keeps only the outcome of: the signals, *)
(* the inputs of a component and the tags (Interpreter), and the           *)
(* arithmetic of expressions (Expressions).  A behaviour is that of one of *)
(* them, "running"; a variable it has not is off, and one of a name that   *)
(* several have is of the one that runs.                                   *)
(***************************************************************************)
EXTENDS Interpreter, SyntaxTree, TLC

CONSTANTS P, Inputs, Functions, MaxIterations, Programs, \* of Templates
          Points, Operands, AmountRange                 \* of Expressions, with MaxDepth

VARIABLES program, analysis, execution, code, input, kept,
          point, expr, value, depth

-----------------------------------------------------------------------------
(* Templates over the variables x and y, a counter k, an array a of two    *)
(* cells, an input "in" and an output "out": two statements, one condition *)
(* or loop, and one more statement.                                        *)
N(n) == Number(n)
X == Variable("x")
Y == Variable("y")
K == Variable("k")
In == SignalRead("in")
A(i) == Element("a", i)
SetA(i, e) == Assign("variable", "a", <<i>>, "=", e)
Out(how, e) == Assign("signal", "out", << >>, how, e)
Eq(l, r) == Infix("==", l, r)
Less(l, r) == Infix("<", l, r)
Plus(l, r) == Infix("+", l, r)
Times(l, r) == Infix("*", l, r)
Var(x) == Declare("var", x, << >>)
Count(body) == Block(<<body, Set("k", Plus(K, N(1)))>>)
Loop(c, body) == Initialize(<<Set("k", N(0))>>)

Prime == 7
InputSet == 0 .. 2
FunctionBodies ==
    [double |-> <<Fill(Return(Plus(Variable("p"), Variable("p"))), <<90>>)>>,
     sign |-> <<Fill(If(Eq(Variable("p"), N(0)), Block(<<Return(N(0))>>), Nothing), <<91>>),
                Fill(Return(N(1)), <<92>>)>>,
     loud |-> <<Fill(Log(Variable("p")), <<93>>), Fill(Return(Variable("p")), <<94>>)>>]

Before == {Nothing, Set("x", N(1)), Set("x", In), Set("y", In),
           Initialize(<<Var("x"), Set("x", N(2))>>)}
Steps == {Set("x", N(1)), Set("x", In), Set("y", X), Set("y", K), Set("x", Plus(X, Y)),
            Set("y", Call("sign", X)), SetA(K, X), Set("y", A(X))}
Tests == {Eq(X, N(1)), Less(In, N(1)), Eq(A(N(0)), N(0))}
Aux(how, e) == Assign("signal", "aux", << >>, how, e)
Effects == {Aux("<==", X), Aux("<--", Y), Equality(X, X), Declare("signal", "s", << >>),
            Declare("var", "b", <<X>>), Assign("component", "c", << >>, "=", X),
            Assign("tag", "s", << >>, "=", X), Check(Less(N(0), X)), Log(X), Underscore("<==", X),
            Equality(Times(In, X), Times(In, In))}
After == {Out("<==", Y), Out("<--", Plus(X, Y)), Out("<--", Times(X, Switch(Eq(Y, N(1)), X, N(3)))),
          Assign("component", "c", << >>, "=", Y)}

Whole(ss) ==
    Block(<<Var("x"), Var("y"), Var("k"), Declare("var", "a", <<N(2)>>), Declare("signal", "out", << >>)>> \o ss)

Branches == {<<If(c, Block(<<s>>), t)>> : c \in Tests, s \in Steps, t \in {Nothing, Block(<<Set("x", N(1))>>)}}
Guarded == {<<If(c, Block(<<s>>), Nothing)>> : c \in Tests, s \in Effects}
           \cup {<<Set("y", N(1)), If(c, Block(<<Set("y", N(2))>>), Nothing), If(Eq(Y, N(2)), Block(<<s>>), Nothing)>> :
                   c \in Tests, s \in Effects}
Loops == {<<While(Less(K, b), Count(s))>> : b \in {N(2), In, X}, s \in Steps}
         \cup {<<While(Less(K, N(3)), Count(If(c, Block(<<s>>), Block(<<Set("x", Y), Set("y", In)>>))))>> :
                 c \in Tests, s \in Steps}
\* Loops with a counter of their own within a condition or a loop.
J == Variable("j")
OwnLoop(s) == Block(<<Initialize(<<Var("j"), Set("j", N(0))>>), While(Less(J, N(2)), Block(<<s, Set("j", Plus(J, N(1)))>>))>>)
Repeatable == {Equality(X, X), Declare("var", "b", <<X>>), Check(Less(N(0), X)), Underscore("<==", X)}
Nested == {<<If(c, OwnLoop(s), Nothing)>> : c \in Tests, s \in Steps \cup Repeatable}
          \cup {<<While(Less(K, b), Count(OwnLoop(s)))>> : b \in {N(2), In}, s \in Steps \cup Repeatable}
          \cup {<<While(Less(K, N(2)), Count(Block(<<OwnLoop(Set("y", X)), s>>)))>> :
                  s \in {Set("x", In), OwnLoop(Set("x", In))}}
Plain == {<<s, t>> : s \in Steps, t \in Steps \cup Effects}
         \cup {<<Set("y", Call(f, e))>> : f \in {"double", "sign", "loud"}, e \in {N(2), X, In}}

Bodies(bs, middles, as) == {Whole(<<b>> \o m \o <<a>>) : b \in bs, m \in middles, a \in as}
Numbered(bodies) == {Fill(body, << >>) : body \in bodies}

ProgramSet == Numbered(Bodies(Before, Branches \cup Guarded \cup Loops \cup Nested \cup Plain, After))

-----------------------------------------------------------------------------
(* The other instances.                                                    *)
Template == INSTANCE Templates
Arithmetic == INSTANCE Expressions

\* a component with an array of two signals, a tagged signal and a bus with a
\* tagged field; an anonymous component with the last two
MCNamedInputs ==
    [signals |-> {"in", "t"}, buses |-> {"b"}, size |-> [in |-> 2, t |-> 1, b |-> 1],
     tagged |-> {<<"t", "all">>, <<"b", "x">>}]
MCAnonymousInputs ==
    [signals |-> {"t"}, buses |-> {"b"}, size |-> [t |-> 1, b |-> 1],
     tagged |-> {<<"t", "all">>, <<"b", "x">>}]

MCPoints == {[s \in 0 .. 2 |-> CASE s = 0 -> 1 [] s = 1 -> 3 [] s = 2 -> 5],
             [s \in 0 .. 2 |-> CASE s = 0 -> 1 [] s = 1 -> 0 [] s = 2 -> 6]}
Shape == INSTANCE Expressions WITH Points <- {}, Operands <- {}
MCOperands ==
    {Shape!Number(v) : v \in {0, 1, 2, 3, 5, 6}} \cup {Shape!Signal(1), Shape!Signal(2)}
    \cup {Shape!LinearOf((0 :> 4) @@ (1 :> 2)),
          Shape!Quadratic((0 :> 0) @@ (1 :> 1), (0 :> 3) @@ (2 :> 1), (0 :> 1))}

-----------------------------------------------------------------------------
(* One of them in each behaviour.                                          *)
NoTemplate ==
    <<program, analysis, execution, code, input, kept>>
NoTemplateAlone ==
    /\ program = Off /\ analysis = Off /\ execution = Off /\ code = Off
    /\ input = Off /\ kept = Off
NoExpression == <<point, expr, value, depth>>
NoExpressionAlone == point = Off /\ expr = Off /\ value = Off /\ depth = Off

TemplatesRest ==
    <<conds, counter, slots, frames, path, writes, verdict, surely,
      fieldsLeft, left, tagsLeft, tags, delayed, nextIf, carried, defs,
      remaining, isInit, late, exported, ids>>
TemplatesAlone ==
    /\ conds = Off /\ counter = Off /\ slots = Off /\ frames = Off
    /\ path = Off /\ writes = Off /\ verdict = Off /\ surely = Off
    /\ fieldsLeft = Off /\ left = Off /\ tagsLeft = Off /\ tags = Off
    /\ delayed = Off /\ nextIf = Off /\ carried = Off /\ defs = Off
    /\ remaining = Off /\ isInit = Off /\ late = Off /\ exported = Off
    /\ ids = Off

interpreterVars == <<vars, program, analysis, execution, code, input, kept, point, expr, value, depth>>

InterpreterInit ==
    \/ Init /\ NoTemplateAlone /\ NoExpressionAlone
    \/ running = "templates" /\ Template!Init /\ TemplatesAlone /\ NoExpressionAlone
    \/ /\ running = "expressions" /\ Arithmetic!Init /\ TemplatesAlone
       /\ phase = Off /\ written = Off /\ NoTemplateAlone

InterpreterNext ==
    \/ Next /\ UNCHANGED <<NoTemplate, NoExpression>>
    \/ running = "templates" /\ Template!Next /\ UNCHANGED <<running, TemplatesRest, NoExpression>>
    \/ /\ running = "expressions" /\ Arithmetic!Next
       /\ UNCHANGED <<running, TemplatesRest, phase, written, NoTemplate>>

InterpreterSpec == InterpreterInit /\ [][InterpreterNext]_interpreterVars

-----------------------------------------------------------------------------
\* algebra.rs: whatever shape an expression has, it has the value its operators
\* are documented to have; an error is reported exactly for the quotients by zero
\* and the shifts beyond a usize, and the compiler stops exactly at a remainder by
\* zero.
ExpressionsMeanTheirOperators ==
    running = "expressions" =>
        Arithmetic!TypeOK /\ Arithmetic!MeaningKept /\ Arithmetic!ErrorsForUndefined

\* execute.rs against unknown_known_analysis.rs and against a run: a template the
\* analysis accepts executes without an unknown where a known is needed, what is
\* taken for known is a number, the tags a loop ends with are a fixpoint, a value
\* the execution knows is the value of every run, and the constraints hold of the
\* witness.
ExecutionSound ==
    running = "templates" =>
        /\ Template!TypeOK /\ Template!AcceptedExecutes /\ Template!KnownIsNumber
        /\ Template!LoopsStable /\ Template!ValuesAgree /\ Template!ConstraintsHold

\* filters.rs: the code that is kept assigns, logs and asserts what the code as
\* written does.
CodeSound == running = "templates" => Template!CodeKept /\ Template!EffectsKept
=============================================================================
