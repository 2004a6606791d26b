----------------------------- MODULE Execution -----------------------------
(* The execution of a template that generates its constraints (execute.rs),  *)
(* what it records about the code on its way (analysis.rs), and the filters  *)
(* that rewrite the code with it before it is compiled (filters.rs).         *)
(*                                                                           *)
(* A value is a number, or an expression over the inputs given by its kind   *)
(* and by its value for each of them, or nothing is known of it.             *)
EXTENDS KnownAnalysis, Integers

CONSTANTS P,             \* the prime of the field
          Inputs,        \* values of the input signal of a template
          Functions,     \* the body of every function, a sequence; its parameter is "p"
          MaxIterations  \* bound: iterations of a loop with a known condition

-----------------------------------------------------------------------------
(* Operators, on numbers and on expressions *)
Signed(v) == IF v > P \div 2 THEN v - P ELSE v
Truth(b) == IF b THEN 1 ELSE 0
Apply(f, l, r) == CASE f = "+" -> (l + r) % P
                    [] f = "*" -> (l * r) % P
                    [] f = "==" -> Truth(l = r)
                    [] f = "<" -> Truth(Signed(l) < Signed(r))

Known(n) == [kind |-> "number", at |-> [i \in Inputs |-> n]]
NonQuadratic == [kind |-> "nonquadratic", at |-> [i \in Inputs |-> 0]]
InputSignal == [kind |-> "linear", at |-> [i \in Inputs |-> i]]
IsNumber(v) == v.kind = "number"
NumberOf(v) == v.at[CHOOSE i \in Inputs : TRUE]

Degree(v) == CASE v.kind = "number" -> 0 [] v.kind = "linear" -> 1
               [] v.kind = "quadratic" -> 2 [] v.kind = "nonquadratic" -> 3
ResultDegree(f, l, r) ==
    CASE l = 3 \/ r = 3 -> 3
      [] l = 0 /\ r = 0 -> 0
      [] f = "+" -> IF l + r = 4 THEN 3 ELSE IF l > r THEN l ELSE r
      [] f = "*" -> l + r
      [] OTHER -> 3
OfDegree(d, at) == CASE d = 0 -> [kind |-> "number", at |-> at]
                     [] d = 1 -> [kind |-> "linear", at |-> at]
                     [] d = 2 -> [kind |-> "quadratic", at |-> at]
                     [] OTHER -> NonQuadratic
ExecuteInfixOp(f, l, r) ==
    OfDegree(ResultDegree(f, Degree(l), Degree(r)), [i \in Inputs |-> Apply(f, l.at[i], r.at[i])])

-----------------------------------------------------------------------------
(* RuntimeInformation: the variables (cells of each, in blocks), whether the *)
(* block is executed under an unknown condition, the statements reached, the *)
(* values computed, the constraints. "val" is the value of the expression    *)
(* just executed, "ret" the value returned if any, "simple" whether what was *)
(* executed may be left out of the code, "test" the condition just executed. *)
Start(params) ==
    [env |-> <<params>>, block |-> "known", reached |-> {}, computed |-> << >>,
     constraints |-> {}, error |-> "none", val |-> Known(0), ret |-> << >>,
     simple |-> TRUE, test |-> "unknown"]
Failing(st, error) == [st EXCEPT !.error = error]
Ok(st) == st.error = "none"

ValueAt(v) == IF IsNumber(v) THEN <<NumberOf(v)>> ELSE << >>
LeastUpperBound(old, new) == IF old = new THEN old ELSE << >>
\* Analysis::computed: << >> stands for Top, absence for Bottom.
Computed(computed, id, v) ==
    LET new == ValueAt(v) IN
    (id :> IF id \in DOMAIN computed THEN LeastUpperBound(computed[id], new) ELSE new) @@ computed

\* The end of execute_expression: the value, recorded if it may replace the code.
Folded(id, v, simplifies, st) ==
    [st EXCEPT !.val = v, !.computed = IF simplifies THEN Computed(@, id, v) ELSE @]

InRange(i, cells) == IsNumber(i) /\ NumberOf(i) < Len(cells)
ReadElement(id, cells, i, st) ==
    CASE ~IsNumber(i) -> Folded(id, NonQuadratic, TRUE, st)
      [] InRange(i, cells) -> Folded(id, cells[NumberOf(i) + 1], TRUE, st)
      [] OTHER -> Failing(st, "OutOfBounds")

RECURSIVE ExecuteExpression(_, _), ExecuteStatement(_, _), ExecuteSequence(_, _, _), ExecuteLoop(_, _, _)

\* A call leaves the environment and the block of its caller as they were.
AfterCall(inner, st) ==
    IF Ok(inner) THEN [inner EXCEPT !.env = st.env, !.block = st.block, !.val = inner.ret[1], !.ret = st.ret]
    ELSE inner

(* (a fault: every call may be replaced by its value) *)
ExecuteFunctionCallSimple(f, arg, st) ==
    [AfterCall(ExecuteSequence(Functions[f], 1,
                    [st EXCEPT !.env = << "p" :> <<arg>> >>, !.block = "known"]), st) EXCEPT !.simple = TRUE]
\* execute_call and execute_function_call: an environment of its own.
ExecuteFunctionCall(f, arg, st) ==
    AfterCall(ExecuteSequence(Functions[f], 1,
                    [st EXCEPT !.env = << "p" :> <<arg>> >>, !.block = "known", !.simple = TRUE]), st)

ExecuteExpression(e, st) ==
    IF ~Ok(st) THEN st ELSE
    CASE e.op = "number" -> Folded(e.id, Known(e.n), TRUE, st)
      [] e.op = "variable" -> Folded(e.id, Get(st.env, e.x)[1], TRUE, st)
      [] e.op = "signal" -> Folded(e.id, InputSignal, TRUE, st)
      [] e.op = "element" ->
            LET i == ExecuteExpression(e.index, st)
            IN IF Ok(i) THEN ReadElement(e.id, Get(i.env, e.x), i.val, i) ELSE i
      [] e.op = "infix" ->
            LET l == ExecuteExpression(e.lhe, st)
                r == ExecuteExpression(e.rhe, l)
            IN IF Ok(r) THEN Folded(e.id, ExecuteInfixOp(e.f, l.val, r.val), TRUE, r) ELSE r
      [] e.op = "switch" ->
            LET c == ExecuteExpression(e.cond, st)
                b == IF ~IsNumber(c.val) THEN [c EXCEPT !.val = NonQuadratic]
                     ELSE IF NumberOf(c.val) # 0 THEN ExecuteExpression(e.ift, c)
                     ELSE ExecuteExpression(e.iff, c)
            IN IF Ok(b) THEN Folded(e.id, b.val, TRUE, b) ELSE b
      [] e.op = "call" ->
            LET a == ExecuteExpression(e.arg, st)
                r == IF Ok(a) THEN ExecuteFunctionCall(e.f, a.val, a) ELSE a
            IN IF Ok(r) THEN [Folded(e.id, r.val, r.simple, r) EXCEPT !.simple = st.simple] ELSE r

-----------------------------------------------------------------------------
(* Statements *)
\* What a statement that returns nothing leaves: it may be left out of the code.
Simple(st) == [st EXCEPT !.simple = TRUE]

ExecuteDeclaration(s, st) ==
    LET d == IF s.dims = << >> THEN [st EXCEPT !.val = Known(1)] ELSE ExecuteExpression(s.dims[1], st)
    IN CASE ~Ok(d) -> d
         [] ~IsNumber(d.val) -> Failing(d, "UnknownSizeDimension")
         [] s.xtype # "var" /\ d.block = "unknown" -> Failing(d, "DeclarationInUnknown")
         [] s.xtype = "var" ->
               Simple([d EXCEPT !.env = Add(@, s.x, [i \in 1 .. NumberOf(d.val) |-> Known(0)])])
         [] OTHER -> Simple(d)

(* (a fault: under an unknown condition the variable takes the value) *)
AssignVariableKnown(s, index, st) ==
    LET cells == Get(st.env, s.x) IN
    CASE index # << >> /\ ~IsNumber(index[1]) ->
            Simple([st EXCEPT !.env = Put(@, s.x, [i \in DOMAIN cells |-> NonQuadratic])])
      [] index # << >> /\ ~InRange(index[1], cells) -> Failing(st, "OutOfBounds")
      [] OTHER ->
            LET cell == IF index = << >> THEN 1 ELSE NumberOf(index[1]) + 1
            IN Simple([st EXCEPT !.env = Put(@, s.x, [cells EXCEPT ![cell] = st.val])])
AssignVariable(s, index, st) ==
    LET cells == Get(st.env, s.x)
        value == IF st.block = "unknown" THEN NonQuadratic ELSE st.val
    IN CASE index # << >> /\ ~IsNumber(index[1]) ->
               Simple([st EXCEPT !.env = Put(@, s.x, [i \in DOMAIN cells |-> NonQuadratic])])
         [] index # << >> /\ ~InRange(index[1], cells) -> Failing(st, "OutOfBounds")
         [] OTHER ->
               LET cell == IF index = << >> THEN 1 ELSE NumberOf(index[1]) + 1
               IN Simple([st EXCEPT !.env = Put(@, s.x, [cells EXCEPT ![cell] = value])])

(* (a fault: a value nothing is known of is constrained) *)
AssignSignalUnchecked(s, st) ==
    CASE s.how = "<--" -> Simple(st)
      [] st.block = "unknown" -> Failing(st, "ConstraintInUnknown")
      [] OTHER -> Simple([st EXCEPT !.constraints = @ \cup {[on |-> s.x, at |-> st.val.at]}])
AssignSignal(s, st) ==
    CASE s.how = "<--" -> Simple(st)
      [] st.block = "unknown" -> Failing(st, "ConstraintInUnknown")
      [] st.val.kind = "nonquadratic" -> Failing(st, "NonQuadraticConstraint")
      [] OTHER -> Simple([st EXCEPT !.constraints = @ \cup {[on |-> s.x, at |-> st.val.at]}])

ExecuteSubstitution(s, st) ==
    LET i == IF s.access = << >> THEN st ELSE ExecuteExpression(s.access[1], st)
        index == IF s.access = << >> THEN << >> ELSE <<i.val>>
        r == ExecuteExpression(s.rhe, i)
    IN CASE ~Ok(r) -> r
         [] s.to = "variable" -> AssignVariable(s, index, r)
         [] s.to = "signal" -> AssignSignal(s, r)
         [] s.to = "component" -> IF IsNumber(r.val) THEN Simple(r) ELSE Failing(r, "UnknownTemplate")
         [] s.to = "tag" -> IF r.block = "unknown" THEN Failing(r, "TagAssignmentInUnknown")
                            ELSE IF IsNumber(r.val) THEN Simple(r) ELSE Failing(r, "NonValidTagAssignment")

ExecuteEquality(s, st) ==
    LET l == ExecuteExpression(s.lhe, st)
        r == ExecuteExpression(s.rhe, l)
    IN CASE st.block = "unknown" -> Failing(st, "ConstraintInUnknown")
         [] ~Ok(r) -> r
         [] ResultDegree("+", Degree(l.val), Degree(r.val)) = 3 -> Failing(r, "NonQuadraticConstraint")
         [] OTHER -> Simple([r EXCEPT !.constraints = @ \cup
                        {[on |-> "equality", at |-> [i \in Inputs |-> (l.val.at[i] - r.val.at[i]) % P]]}])

\* A value returned under an unknown condition is not known.
ExecuteReturn(s, st) ==
    LET r == ExecuteExpression(s.arg, st)
    IN IF Ok(r) THEN Simple([r EXCEPT !.ret = <<IF r.block = "unknown" THEN NonQuadratic ELSE r.val>>]) ELSE r

ExecuteAssert(s, st) ==
    LET r == ExecuteExpression(s.arg, st)
    IN CASE ~Ok(r) -> r
         [] IsNumber(r.val) /\ NumberOf(r.val) = 0 -> Failing(r, "FalseAssert")
         [] OTHER -> [r EXCEPT !.simple = IsNumber(r.val)]

\* execute_conditional_statement. An unknown condition executes both branches;
\* a value returned in one of them ends the sequence it is in.
ExecuteConditional(cond, ift, iff, st) ==
    LET c == ExecuteExpression(cond, st)
        unknown == [c EXCEPT !.block = "unknown"]
        first == ExecuteStatement(ift, unknown)
        second == ExecuteStatement(iff, [first EXCEPT !.ret = << >>])
    IN CASE ~Ok(c) -> c
         [] IsNumber(c.val) ->
               [ExecuteStatement(IF NumberOf(c.val) # 0 THEN ift ELSE iff, c)
                    EXCEPT !.test = IF NumberOf(c.val) # 0 THEN "true" ELSE "false"]
         [] ~Ok(first) -> first
         [] OTHER -> [second EXCEPT !.block = st.block, !.test = "unknown",
                                    !.simple = first.simple /\ second.simple,
                                    !.ret = IF first.ret # << >> THEN first.ret ELSE @]

ExecuteLoop(s, left, st) ==
    LET once == ExecuteConditional(s.cond, s.body, Nothing @@ [id |-> << >>], st)
    IN CASE ~Ok(once) -> once
         [] once.ret # << >> \/ once.test = "false" -> once
         [] once.test = "unknown" ->
               [ExecuteConditional(s.cond, s.body, Nothing @@ [id |-> << >>], once)
                    EXCEPT !.simple = once.simple]
         [] left = 0 -> Failing(once, "endless")
         [] OTHER -> LET rest == ExecuteLoop(s, left - 1, once)
                     IN [rest EXCEPT !.simple = @ /\ once.simple]

\* A statement that returns ends the sequence.
AfterStatement(ss, i, simple, next) ==
    IF next.ret # << >> THEN [next EXCEPT !.simple = @ /\ simple]
    ELSE ExecuteSequence(ss, i + 1, [next EXCEPT !.simple = @ /\ simple])
ExecuteSequence(ss, i, st) ==
    IF i > Len(ss) \/ ~Ok(st) THEN st
    ELSE AfterStatement(ss, i, st.simple, ExecuteStatement(ss[i], st))

(* (a fault: only the statements that do not nest are marked) *)
ReachedFlat(s, st) == IF s.op \in {"if", "while"} THEN st ELSE [st EXCEPT !.reached = @ \cup {s.id}]
Reached(s, st) == [st EXCEPT !.reached = @ \cup {s.id}]

ExecuteStatement(s, before) ==
    LET st == Reached(s, before) IN
    IF ~Ok(st) THEN st ELSE
    CASE s.op = "declaration" -> ExecuteDeclaration(s, st)
      [] s.op = "substitution" -> ExecuteSubstitution(s, st)
      [] s.op = "equality" -> ExecuteEquality(s, st)
      [] s.op = "return" -> ExecuteReturn(s, st)
      [] s.op = "if" -> ExecuteConditional(s.cond, s.ift, s.iff, st)
      [] s.op = "while" -> ExecuteLoop(s, MaxIterations, st)
      [] s.op = "block" ->
            LET in == ExecuteSequence(s.stmts, 1, [st EXCEPT !.env = AddBlock(@), !.simple = TRUE])
            IN IF Ok(in) THEN [in EXCEPT !.env = RemoveBlock(@)] ELSE in
      [] s.op = "init" -> Simple(ExecuteSequence(s.stmts, 1, st))
      [] s.op = "log" -> [ExecuteExpression(s.arg, st) EXCEPT !.simple = FALSE]
      [] s.op = "assert" -> ExecuteAssert(s, st)
      [] s.op = "underscore" ->
            LET r == ExecuteExpression(s.arg, st)
            IN IF Ok(r) /\ s.how = "<==" /\ r.val.kind = "nonquadratic" THEN Failing(r, "panic") ELSE Simple(r)
=============================================================================
