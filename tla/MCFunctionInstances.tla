------------------------ MODULE MCFunctionInstances ------------------------
(* Two templates that call functions with arrays of several lengths, and     *)
(* functions that call each other: straight, recursively, each other, with   *)
(* arguments from components, buses, arrays and conditional expressions.      *)
EXTENDS FunctionInstances

Exp(k, parts) == [k |-> k, parts |-> parts]
Num(n) == [k |-> "num", n |-> n, parts |-> << >>]
Var(x, access) == [k |-> "var", name |-> x, parts |-> access]
Sig(x) == [k |-> "sig", name |-> x, parts |-> << >>]
V(x) == Var(x, << >>)
At(x, i) == Var(x, <<Num(i)>>)
Call(f, args) == [k |-> "call", f |-> f, inst |-> 0, parts |-> args]
Array(es) == Exp("array", es)
Switch(c, t, f) == Exp("switch", <<c, t, f>>)
Plus(a, b) == Exp("op", <<a, b>>)

Stmt(k, exps, stmts) == [k |-> k, exps |-> exps, stmts |-> stmts]
Decl(x, dims) == [k |-> "decl", name |-> x, dims |-> dims, exps |-> [i \in DOMAIN dims |-> Num(dims[i])], stmts |-> << >>]
Var0(x, dims) == Stmt("init", << >>, <<Decl(x, dims), Stmt("sub", <<Num(0)>>, << >>)>>)
Do(e) == Stmt("sub", <<e>>, << >>)
Block(ss) == Stmt("block", << >>, ss)
Return(e) == Stmt("return", <<e>>, << >>)
If(c, ss) == Stmt("if", <<c>>, ss)
Fun(params, ss) == [params |-> params, body |-> Block(ss)]

\* g and h work on what they are given; k returns as many elements as it is given.
Library == [g |-> Fun(<<"a">>, <<Return(Plus(V("a"), Num(1)))>>),
            k |-> Fun(<<"v">>, <<Var0("w", <<2>>), Stmt("while", <<Num(1)>>, <<Block(<<Do(V("v"))>>)>>), Return(V("v"))>>)]

\* Function f(n, v): what it returns when n is 0, and otherwise.
F(now, later) == Fun(<<"n", "v">>, <<If(V("n"), <<Block(<<Return(now)>>), Block(<<Return(later)>>)>>)>>)
Bases == {V("v"), Array(<<V("n"), Num(0), Num(1)>>), Array(<<V("n"), Num(0)>>), Call("k", <<V("v")>>), Exp("uniform", <<Call("g", <<V("n")>>), Num(2)>>)}
Again == Call("f", <<Plus(V("n"), Num(1)), V("v")>>)
Laters == {V("v"), Again, Call("k", <<Again>>), Switch(V("n"), Again, V("v")), Switch(V("n"), V("v"), Again),
           Call("f", <<Call("g", <<V("n")>>), Array(<<At("v", 0), At("v", 1)>>)>>), Call("p", <<V("n"), V("v")>>)}
P == Fun(<<"m", "v">>, <<Var0("z", <<2>>), Return(Call("f", <<V("m"), V("z")>>)), Return(V("v"))>>)
Orders(a, b) == {F(a, b), F(b, a)}

\* Template T has a bus b of two signals, a component c of bigger and smaller
\* instances, variables and signals.
Buses == <<[size |-> 3, fields |-> [x |-> [dims |-> << >>, bus |-> 0], y |-> [dims |-> <<2>>, bus |-> 0]]],
           [size |-> 7, fields |-> [in |-> [dims |-> <<2>>, bus |-> 1], z |-> [dims |-> << >>, bus |-> 0]]]>>
Wire(dims, bus) == [dims |-> dims, bus |-> bus]
Trigger(n) == [component |-> "c", wires |-> [out |-> Wire(<<n>>, 0), bb |-> Wire(<<n>>, 2)]]
Args == {V("s"), Array(<<Num(1), Num(2)>>), Array(<<At("s", 0), Call("g", <<Num(1)>>)>>), Var("b", <<Sig("y")>>),
         Var("d", <<Num(1), Sig("in"), Num(0), Sig("y")>>), Var("c", <<Num(0), Sig("out")>>), Call("k", <<V("s")>>),
         Var("c", <<Num(1), Sig("bb"), Num(0), Sig("in"), Num(1), Sig("y")>>)}
T(args, hole) ==
    [header |-> [n |-> << >>], buses |-> [b |-> 1, d |-> 2], triggers |-> <<Trigger(1), Trigger(2)>>,
     code |-> Block(<<Var0("s", <<2>>), Decl("c", <<2>>), Decl("b", << >>), Decl("d", <<2>>), hole,
                      If(Call("g", <<V("n")>>), <<Block([i \in DOMAIN args |-> Do(Call("f", <<V("n"), args[i]>>))]), Do(V("s"))>>),
                      Do(Call("T", <<V("n")>>)), Stmt("under", <<Num(0)>>, << >>)>>)]
S == [header |-> [m |-> <<3>>], buses |-> << >>, triggers |-> << >>, code |-> Block(<<Do(Call("k", <<V("m")>>)), Do(Call("k", <<At("m", 0)>>))>>)]

Of(f, t) == [templates |-> t, buses |-> Buses, functions |-> Library @@ [f |-> f, p |-> P]]
FBodies == UNION {Orders(x, y) : x \in Bases, y \in Laters} \ {F(Call("k", <<Again>>), Call("k", <<V("v")>>))}
\* Functions that give a value to the underscore, called and not.
Under == Stmt("under", <<Num(0)>>, << >>)
With(f, name, fun) == [Of(f, <<T(<<V("s")>>, Do(V("s")))>>) EXCEPT !.functions = (name :> fun) @@ @]
UnderscorePrograms ==
    {With(F(V("v"), x), "u", Fun(<<"a">>, <<If(Num(1), <<Block(ss)>>), Return(V("a"))>>)) :
        x \in {Call("u", <<V("v")>>), Again}, ss \in {<<Under>>, << >>}}
\* Returns, and arguments, that are conditional expressions with arms of other lengths.
Long == Array(<<V("n"), Num(0), Num(1)>>)
ArmPrograms ==
    {Of(F(x, y), <<T(<<V("s")>>, Do(V("s")))>>) : x \in {V("v"), Array(<<V("n")>>)},
                                                y \in {Switch(V("n"), V("v"), Long), Switch(V("n"), Long, V("v")), Call("k", <<Switch(V("n"), V("v"), Long)>>)}}
\* A function with the name of the instance of f, called in an argument.
HomonymPrograms ==
    {With(F(V("v"), Call("k", <<Call(name, <<V("n")>>)>>)), name, Fun(<<"a">>, <<Return(Array(<<V("a")>>))>>)) : name \in {"f_1", "f_9"}}

ProgramsDef ==
    UnderscorePrograms \cup ArmPrograms \cup HomonymPrograms \cup
    {Of(f, <<T(<<a>>, Do(V("s"))), S>>) : f \in FBodies, a \in Args}
    \cup {Of(F(V("v"), Again), <<S, T(<<a, b>>, Do(Call("k", <<a>>)))>>) : a \in Args, b \in Args}

\* A call in the condition of a conditional expression.
ConditionPrograms == {Of(F(V("v"), V("v")), <<T(<<V("s")>>, Do(Switch(c, V("s"), V("s"))))>>) : c \in {V("n"), Call("g", <<V("n")>>)}}
\* Functions with a parameter named as a bus of the last template.
BusPrograms == {Of(Fun(<<"n", x>>, <<Return(Call("k", <<V(x)>>))>>), <<T(<<V("s")>>, Do(V("s")))>>) : x \in {"a", "b"}}
\* A call whose argument is a recursive call, before a call of the same function.
OpenPrograms == {Of(Fun(<<"n", "v">>, <<If(V("n"), <<Block(<<Return(x)>>), Block(<<Return(Call("k", <<V("v")>>))>>)>>)>>),
                    <<T(<<V("s")>>, Do(V("s")))>>) : x \in {Again, Call("k", <<Again>>)}}
\* Returns of two matrices, neither of which holds the other.
WidePrograms == {Of(F(Exp("uniform", <<Exp("uniform", <<Num(0), Num(n)>>), Num(m)>>), Exp("uniform", <<Exp("uniform", <<Num(0), Num(1)>>), Num(2)>>)),
                    <<T(<<V("s")>>, Do(V("s")))>>) : n \in 1 .. 3, m \in 1 .. 2}
=============================================================================
