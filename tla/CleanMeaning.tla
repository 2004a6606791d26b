---------------------------- MODULE CleanMeaning ----------------------------
(***************************************************************************)
(* What a body means before and after module SugarCleaner: the values of   *)
(* its variables, what it logs and checks, what it returns and the calls   *)
(* it makes.  The same executor runs both: conditional expressions         *)
(* evaluate one arm, an array is evaluated whole before it is assigned, a  *)
(* variable lives as long as the block that declares it.                   *)
(***************************************************************************)
EXTENDS SugarCleaner

CONSTANTS
    StartEnv,    \* the variables a body starts with
    MaxTurns     \* a loop that turns more often counts as endless

Garbage == -77   \* what a declared variable holds before its first assignment

RECURSIVE Filled(_, _)
Filled(dims, v) == IF dims = << >> THEN v ELSE [i \in 1 .. Head(dims) |-> Filled(Tail(dims), v)]

\* A value given the dimensions dims, with zeros where it has none.
RECURSIVE Padded(_, _)
Padded(v, dims) ==
    IF dims = << >> THEN v
    ELSE [i \in 1 .. Head(dims) |-> IF i \in DOMAIN v THEN Padded(v[i], Tail(dims)) ELSE Filled(Tail(dims), 0)]

\* The functions of the programs.
Result(f, args) ==
    CASE f = "inc" -> args[1] + 1
      [] f = "pair" -> <<args[1], args[1] + 1>>
      [] f = "first" -> args[1][1]

Operated(op, v) ==
    CASE op = "+" -> v[1] + v[2]
      [] op = "<" -> IF v[1] < v[2] THEN 1 ELSE 0
      [] op = "**" -> 10 * v[1] + v[2]
      [] op = "-" -> - v[1]

RECURSIVE Value(_, _)
Values(env, es) == [i \in DOMAIN es |-> Value(env, es[i])]
Value(env, e) ==
    CASE e.k = "num" -> e.n
      [] e.k = "var" -> FoldLeft(LAMBDA v, i : v[i + 1], env[e.name], Values(env, e.parts))
      [] e.k = "op" -> Operated(e.op, Values(env, e.parts))
      [] e.k = "call" -> Result(e.f, Values(env, e.parts))
      [] e.k = "switch" -> IF Value(env, e.parts[1]) # 0 THEN Value(env, e.parts[2]) ELSE Value(env, e.parts[3])
      [] e.k = "array" -> Padded(Values(env, e.parts), e.dims)
      [] e.k = "uniform" -> Filled(<<e.parts[2].n>>, Value(env, e.parts[1]))

\* The calls made to evaluate e, with the values of their arguments.
RECURSIVE CallsOf(_, _)
AllCalls(env, es) == FlattenSeq([i \in DOMAIN es |-> CallsOf(env, es[i])])
CallsOf(env, e) ==
    CASE e.k = "switch" -> AllCalls(env, <<e.parts[1], IF Value(env, e.parts[1]) # 0 THEN e.parts[2] ELSE e.parts[3]>>)
      [] e.k = "call" -> Append(AllCalls(env, e.parts), <<e.f, Values(env, e.parts)>>)
      [] OTHER -> AllCalls(env, e.parts)

RECURSIVE Written(_, _, _)
Written(v, index, x) == IF index = << >> THEN x ELSE [v EXCEPT ![Head(index) + 1] = Written(@, Tail(index), x)]

\* Equalities of arrays are checked element by element.
RECURSIVE Elements(_, _)
Elements(e, v) == IF e = << >> THEN <<v>> ELSE FlattenSeq([i \in 1 .. Head(e) |-> Elements(Tail(e), v[i])])
Compared(l, r) == [i \in DOMAIN l |-> <<"eq", {l[i], r[i]}>>]
Checks(env, s) ==
    Compared(Elements(s.exps[1].dims, Value(env, s.exps[1])), Elements(s.exps[2].dims, Value(env, s.exps[2])))

DeclaredIn(stmts) == {stmts[i].name : i \in {i \in DOMAIN stmts : stmts[i].k = "decl"}}
                     \cup UNION {{t.name : t \in {t \in ToSet(stmts[i].stmts) : t.k = "decl"}} : i \in {i \in DOMAIN stmts : stmts[i].k = "init"}}
LeaveBlock(before, st, names) ==
    [st EXCEPT !.env = [x \in DOMAIN before |-> IF x \in names THEN before[x] ELSE st.env[x]]]

RECURSIVE Execute(_, _)
RECURSIVE Repeated(_, _, _)
RECURSIVE Turned(_, _, _, _)
Run(st, stmts) == FoldLeft(Execute, st, stmts)
Evaluated(st, es) == [st EXCEPT !.calls = @ \o AllCalls(st.env, es)]

\* A loop: its condition, then its body if it was not zero.
Repeated(st, s, turns) ==
    IF st.ret # << >> THEN st ELSE Turned(Evaluated(st, s.exps), Value(st.env, s.exps[1]), s, turns)
Turned(st, c, s, turns) ==
    IF c = 0 THEN st
    ELSE IF turns = 0 THEN [st EXCEPT !.ok = FALSE]
    ELSE Repeated(Run(st, s.stmts), s, turns - 1)

Execute(st, s) ==
    IF st.ret # << >> \/ ~ st.ok THEN st
    ELSE CASE s.k = "decl" -> [st EXCEPT !.env = (s.name :> Filled(s.dims, Garbage)) @@ @]
           [] s.k = "sub" -> [Evaluated(Evaluated(st, s.exps), s.index) EXCEPT
                                 !.env[s.name] = Written(@, Values(st.env, s.index), Value(st.env, s.exps[1]))]
           [] s.k = "init" -> Run(st, s.stmts)
           [] s.k = "block" -> LeaveBlock(st.env, Run(st, s.stmts), DeclaredIn(s.stmts))
           [] s.k = "if" -> IF Value(st.env, s.exps[1]) # 0 THEN Run(Evaluated(st, s.exps), <<s.stmts[1]>>)
                            ELSE Run(Evaluated(st, s.exps), Tail(s.stmts))
           [] s.k = "while" -> Repeated(st, s, MaxTurns)
           [] s.k = "eq" -> [Evaluated(st, s.exps) EXCEPT !.events = @ \o Checks(st.env, s)]
           [] s.k = "return" -> [Evaluated(st, s.exps) EXCEPT !.ret = Values(st.env, s.exps)]
           [] OTHER -> [Evaluated(st, s.exps) EXCEPT !.events = Append(@, <<s.k, Values(st.env, s.exps)>>)]

Executed(s) == Execute([env |-> StartEnv, events |-> << >>, calls |-> << >>, ret |-> << >>, ok |-> TRUE], s)

-----------------------------------------------------------------------------
(* Properties.                                                               *)

RECURSIVE NamesOnce(_)
NamesOnce(s) ==
    CASE s.k = "block" -> /\ Cardinality(DeclaredIn(s.stmts)) = Cardinality({i \in DOMAIN s.stmts : s.stmts[i].k = "decl"})
                          /\ \A t \in ToSet(s.stmts) : NamesOnce(t)
      [] s.k \in {"if", "while"} -> \A t \in ToSet(s.stmts) : NamesOnce(t)
      [] OTHER -> TRUE

\* Between two bodies every fresh id is free again, and no block declares a
\* name twice: the ids of a block are given back when it ends, while those of
\* what a condition puts before it are not.
TypeOK ==
    /\ fresh_id = 0
    /\ done = Len(body)
    /\ \A i \in DOMAIN body : body[i].k = "block" /\ NamesOnce(body[i])

RECURSIVE MixedIn(_)
MixedIn(e) == (e.k = "var" /\ e.name \in Mixed) \/ \E p \in ToSet(e.parts) : MixedIn(p)
RECURSIVE Simple(_)
Simple(e) == \A p \in ToSet(e.parts) : /\ ~ IsSugar(p) /\ Simple(p)
                                       /\ e.k = "var" /\ e.name \in Mixed => ~ MixedIn(p)
RECURSIVE Translated(_)
Translated(s) ==
    CASE s.k \in {"block", "if", "while"} ->
            /\ \A t \in ToSet(s.stmts) : Translated(t)
            /\ s.k # "block" => \A e \in ToSet(s.exps) : Simple(e) /\ ~ IsSugar(e)
      [] s.k = "sub" -> \A e \in ToSet(s.exps \o s.index) : Simple(e) /\ (IsSugar(e) => e.k = "call" /\ e \notin ToSet(s.index))
      [] OTHER -> \A e \in ToSet(s.exps) : Simple(e) /\ (IsSugar(e) => e.k = "call")

\* Nothing is left that the translation has unreachable!() for: no array and no
\* conditional expression anywhere, no call inside an expression, no variable
\* of a mixed component inside the index of another.
Translatable == \A i \in DOMAIN body : Translated(body[i])

\* A cleaned body gives every variable the value it had, logs and checks the
\* same values in the same order and returns the same, whatever was moved out
\* of its expressions; it ends when the body did.
SameMeaning ==
    \A i \in DOMAIN body :
        LET before == Executed(program[i])
            after  == Executed(body[i])
        IN  [before EXCEPT !.calls = << >>] = [after EXCEPT !.calls = << >>]

\* A cleaned body makes the calls of the body, each as often and with the same
\* arguments: none is made in a branch that is not taken.
SameCalls ==
    \A i \in DOMAIN body :
        LET before == Executed(program[i]).calls
            after  == Executed(body[i]).calls
        IN  /\ Len(before) = Len(after)
            /\ \A c \in ToSet(before) \cup ToSet(after) :
                    Cardinality({j \in DOMAIN before : before[j] = c}) = Cardinality({j \in DOMAIN after : after[j] = c})
=============================================================================
