---------------------------- MODULE SugarRemover ----------------------------
(***************************************************************************)
(* Removal of anonymous components and tuples from the bodies of templates *)
(* and functions: checks on anonymous components, their replacement by     *)
(* declared components (numbered by a counter inside loops), checks on     *)
(* tuples, their replacement by sequences of assignments.                  *)
(*                                                                         *)
(* An expression is [k, parts, ...]: a number (n), a variable (name, sig;  *)
(* parts: its index), an operation, a call (t; parts: arguments), an       *)
(* array, a tuple, parallel (one part) or an anonymous component (t,       *)
(* params, parts: its inputs, names, par, at).  A name is a pair: a user's *)
(* name is <<"x", <<>>>>, a generated one holds the position of its node.  *)
(***************************************************************************)
EXTENDS Integers, Sequences, FiniteSets, TLC, SequencesExt

CONSTANTS
    Library,     \* Library[t] = [inputs, outputs, sorted]: names in the order of their
                 \* declaration, and the inputs in alphabetical order
    Programs     \* records [kind, mainAnonymous, body]

VARIABLES program, phase, body

vars == <<program, phase, body>>

-----------------------------------------------------------------------------
(* Expressions.                                                             *)

Num(n) == [k |-> "num", n |-> n, parts |-> << >>]
Var(name, index, sig) == [k |-> "var", name |-> name, sig |-> sig, parts |-> index]
Tuple(values) == [k |-> "tuple", parts |-> values]
CallOf(t, args) == [k |-> "call", t |-> t, parts |-> args]
Parallel(e) == [k |-> "par", parts |-> <<e>>]
Plus(a, b) == [k |-> "op", parts |-> <<a, b>>]

PartsOf(e) == ToSet(IF e.k = "anon" THEN e.params \o e.parts ELSE e.parts)

RECURSIVE HasAnonymous(_)
HasAnonymous(e) == e.k = "anon" \/ \E p \in PartsOf(e) : HasAnonymous(p)

RECURSIVE HasTuple(_)
HasTuple(e) == e.k = "tuple" \/ \E p \in PartsOf(e) : HasTuple(p)

(* Statements: [k, ...] with sub (name, index, sig, op, rhe), mult (lhe, op,  *)
(* rhe), under (op, rhe), if (cond, taken, stmts: one or two), while (cond,   *)
(* times, stmts: its body), block and init (stmts), and log, eq, assert,      *)
(* return and decl (exps).  What a condition decides is part of the statement. *)

Sub(name, index, sig, op, rhe) ==
    [k |-> "sub", name |-> name, index |-> index, sig |-> sig, op |-> op, rhe |-> rhe]
Block(stmts) == [k |-> "block", stmts |-> stmts]
Decl(xtype, name, dims) == [k |-> "decl", xtype |-> xtype, name |-> name, exps |-> dims]

RECURSIVE StatementHasAnonymous(_)
StatementHasAnonymous(s) ==
    CASE s.k = "mult" -> HasAnonymous(s.lhe) \/ HasAnonymous(s.rhe)
      [] s.k = "sub" -> HasAnonymous(s.rhe) \/ \E i \in ToSet(s.index) : HasAnonymous(i)
      [] s.k \in {"if", "while"} -> HasAnonymous(s.cond) \/ \E c \in ToSet(s.stmts) : StatementHasAnonymous(c)
      [] s.k \in {"block", "init"} -> \E c \in ToSet(s.stmts) : StatementHasAnonymous(c)
      [] OTHER -> \E e \in ToSet(s.exps) : HasAnonymous(e)

-----------------------------------------------------------------------------
(* Checks on anonymous components.  Under parallel, an anonymous component is *)
(* accepted without a look at its parameters and inputs.                      *)

RECURSIVE CheckExpression(_)
CheckExpression(e) ==
    CASE e.k = "anon" -> /\ \A p \in ToSet(e.params) : ~ HasAnonymous(p)
                         /\ \A s \in ToSet(e.parts) : CheckExpression(s)
      [] e.k \in {"tuple", "array"} -> \A v \in ToSet(e.parts) : CheckExpression(v)
      [] e.k = "par" -> e.parts[1].k = "anon" \/ ~ HasAnonymous(e.parts[1])
      [] OTHER -> ~ HasAnonymous(e)

\* (a fault: only the operator of the assignment is checked)
CheckOperator(op, rhe) == HasAnonymous(rhe) => op # "<--"
CheckAssigned(op, rhe) == (HasAnonymous(rhe) => op # "<--") /\ CheckExpression(rhe)

RECURSIVE CheckStatement(_)
CheckStatement(s) ==
    CASE s.k = "mult" -> ~ HasAnonymous(s.lhe) /\ CheckAssigned(s.op, s.rhe)
      [] s.k = "sub" -> (\A i \in ToSet(s.index) : ~ HasAnonymous(i)) /\ CheckAssigned(s.op, s.rhe)
      [] s.k \in {"if", "while"} -> ~ HasAnonymous(s.cond) /\ \A c \in ToSet(s.stmts) : CheckStatement(c)
      [] s.k \in {"block", "init"} -> \A c \in ToSet(s.stmts) : CheckStatement(c)
      [] OTHER -> \A e \in ToSet(s.exps) : ~ HasAnonymous(e)

-----------------------------------------------------------------------------
(* Removal of anonymous components from an expression: declarations of       *)
(* components, statements to execute before, and what is left.               *)

\* The inputs, by position or by name; the call is refused when they do not
\* match those of the template.
InputOf(e, input) ==
    IF e.names = << >>
    THEN e.parts[SelectInSeq(Library[e.t].inputs, LAMBDA x : x = input)]
    ELSE e.parts[SelectInSeq(e.names, LAMBDA x : x.name = input)]

\* (a fault: the operator before a name is not looked at)
CallMatchesAnyOp(e) ==
    /\ e.t \in DOMAIN Library
    /\ LET inputs == ToSet(Library[e.t].inputs) IN
       IF e.names = << >> THEN Cardinality(inputs) = Len(e.parts)
       ELSE Cardinality(inputs) = Len(e.names) /\ {e.names[i].name : i \in DOMAIN e.names} = inputs
CallMatches(e) ==
    /\ e.t \in DOMAIN Library
    /\ LET inputs == ToSet(Library[e.t].inputs) IN
       IF e.names = << >> THEN Cardinality(inputs) = Len(e.parts)
       ELSE /\ Cardinality(inputs) = Len(e.names)
            /\ {e.names[i].name : i \in DOMAIN e.names} = inputs
            /\ \A i \in DOMAIN e.names : e.names[i].op = "<=="

RECURSIVE Removable(_)
Removable(e) ==
    CASE e.k = "anon" -> CallMatches(e) /\ \A s \in ToSet(e.parts) : Removable(s)
      [] e.k \in {"tuple", "array"} -> \A v \in ToSet(e.parts) : Removable(v)
      [] e.k = "par" -> e.parts[1].k = "anon" => Removable(e.parts[1])
      [] OTHER -> TRUE

Creation(e) == IF e.par THEN Parallel(CallOf(e.t, e.params)) ELSE CallOf(e.t, e.params)

\* access: << >>, or the counter of the loop around.
Outputs(e, name, access) ==
    LET outs == Library[e.t].outputs
        Out(i) == Var(name, access, outs[i])
    IN  IF Len(outs) = 1 THEN Out(1) ELSE Tuple([i \in DOMAIN outs |-> Out(i)])

RECURSIVE RemoveFromExpression(_, _)
RemoveAnonymous(e, access) ==
    LET name   == <<e.t, e.at>>
        xtype  == IF access = << >> THEN "component" ELSE "anonymous"
        inputs == Library[e.t].sorted
        r      == [i \in DOMAIN inputs |-> RemoveFromExpression(InputOf(e, inputs[i]), access)]
    IN  [comps |-> <<Decl(xtype, name, access)>> \o FlattenSeq([i \in DOMAIN r |-> r[i].comps]),
         stmts |-> <<Block(<<Sub(name, access, "", "=", Creation(e))>>
                           \o FlattenSeq([i \in DOMAIN r |->
                                r[i].stmts \o <<Sub(name, access, inputs[i], "<==", r[i].exp)>>]))>>,
         exp |-> Outputs(e, name, access)]

RemoveFromExpression(e, access) ==
    CASE e.k \in {"array", "tuple"} ->
            LET r == [i \in DOMAIN e.parts |-> RemoveFromExpression(e.parts[i], access)]
            IN  [comps |-> FlattenSeq([i \in DOMAIN r |-> r[i].comps]),
                 stmts |-> FlattenSeq([i \in DOMAIN r |-> r[i].stmts]),
                 exp |-> [e EXCEPT !.parts = [i \in DOMAIN r |-> r[i].exp]]]
      [] e.k = "anon" -> RemoveAnonymous(e, access)
      [] e.k = "par" /\ e.parts[1].k = "anon" -> RemoveAnonymous([e.parts[1] EXCEPT !.par = TRUE], access)
      [] OTHER -> [comps |-> << >>, stmts |-> << >>, exp |-> e]

-----------------------------------------------------------------------------
(* Removal from a statement: the new statement, and the declarations of      *)
(* components, the counters of loops and their initial values, which all go  *)
(* to the top of the template.                                               *)

RECURSIVE StatementRemovable(_)
StatementRemovable(s) ==
    CASE s.k \in {"sub", "mult"} -> Removable(s.rhe)
      [] s.k \in {"if", "while", "block", "init"} -> \A c \in ToSet(s.stmts) : StatementRemovable(c)
      [] OTHER -> TRUE

Left(s) == [stmt |-> s, comps |-> << >>, counters |-> << >>, subs |-> << >>]

\* The body of a loop that contains anonymous components is followed by the
\* increment of the loop's counter; the counter is set once, at the top of the
\* template (a fault: it is set before the loop, each time the loop is reached).
LoopResets(s, r) ==
    LET counter == <<"anon_var", s.at>> IN
    IF r.comps = << >> THEN [r EXCEPT !.stmt = [s EXCEPT !.stmts = <<r.stmt>>]]
    ELSE [r EXCEPT !.stmt = Block(<<Sub(counter, << >>, "", "=", Num(0)),
                                    [s EXCEPT !.stmts = <<Block(<<r.stmt,
                                        Sub(counter, << >>, "", "=", Plus(Var(counter, << >>, ""), Num(1)))>>)>>]>>),
                   !.counters = <<Decl("var", counter, << >>)>> \o r.counters]
Loop(s, r) ==
    LET counter == <<"anon_var", s.at>> IN
    IF r.comps = << >> THEN [r EXCEPT !.stmt = [s EXCEPT !.stmts = <<r.stmt>>]]
    ELSE [r EXCEPT !.stmt = [s EXCEPT !.stmts = <<Block(<<r.stmt,
                                Sub(counter, << >>, "", "=", Plus(Var(counter, << >>, ""), Num(1)))>>)>>],
                   !.counters = <<Decl("var", counter, << >>)>> \o r.counters,
                   !.subs = r.subs \o <<Sub(counter, << >>, "", "=", Num(0))>>]

RECURSIVE RemoveFromStatement(_, _)
RemoveFromStatement(s, access) ==
    CASE s.k \in {"sub", "mult"} ->
            LET r == RemoveFromExpression(s.rhe, access)
                new == [s EXCEPT !.rhe = r.exp]
            IN  [Left(IF r.stmts = << >> THEN new ELSE Block(Append(r.stmts, new))) EXCEPT !.comps = r.comps]
      [] s.k = "while" -> Loop(s, RemoveFromStatement(s.stmts[1], <<Var(<<"anon_var", s.at>>, << >>, "")>>))
      [] s.k \in {"if", "block", "init"} ->
            LET r == [i \in DOMAIN s.stmts |-> RemoveFromStatement(s.stmts[i], access)]
            IN  [stmt |-> [s EXCEPT !.stmts = [i \in DOMAIN r |-> r[i].stmt]],
                 comps |-> FlattenSeq([i \in DOMAIN r |-> r[i].comps]),
                 counters |-> FlattenSeq([i \in DOMAIN r |-> r[i].counters]),
                 subs |-> FlattenSeq([i \in DOMAIN r |-> r[i].subs])]
      [] OTHER -> Left(s)

-----------------------------------------------------------------------------
(* Checks on tuples, and their removal.                                      *)

RECURSIVE CheckTuples(_)
CheckTuples(e) ==
    CASE e.k = "tuple" -> \A v \in ToSet(e.parts) : CheckTuples(v)
      [] OTHER -> \A v \in ToSet(e.parts) : ~ HasTuple(v)

RECURSIVE CheckTuplesStatement(_)
CheckTuplesStatement(s) ==
    CASE s.k = "mult" -> CheckTuples(s.lhe) /\ CheckTuples(s.rhe)
      [] s.k = "sub" -> (\A i \in ToSet(s.index) : ~ HasTuple(i)) /\ CheckTuples(s.rhe)
      [] s.k \in {"if", "while"} -> ~ HasTuple(s.cond) /\ \A c \in ToSet(s.stmts) : CheckTuplesStatement(c)
      [] s.k \in {"block", "init"} -> \A c \in ToSet(s.stmts) : CheckTuplesStatement(c)
      [] s.k = "log" -> \A e \in ToSet(s.exps) : CheckTuples(e)
      [] OTHER -> \A e \in ToSet(s.exps) : ~ HasTuple(e)

\* A tuple without tuples inside.
RECURSIVE FlatValues(_)
FlatValues(e) == IF e.k = "tuple" THEN FlattenSeq([i \in DOMAIN e.parts |-> FlatValues(e.parts[i])]) ELSE <<e>>
Flat(e) == IF e.k = "tuple" THEN Tuple(FlatValues(e)) ELSE e

Assigned(target, op, rhe) ==
    IF target.name = <<"_", << >>>> THEN [k |-> "under", op |-> op, rhe |-> rhe]
    ELSE Sub(target.name, target.parts, target.sig, op, rhe)

RECURSIVE TuplesRemovable(_)
TuplesRemovable(s) ==
    CASE s.k = "mult" ->
            LET l == Flat(s.lhe)  r == Flat(s.rhe)
            IN  /\ l.k = "tuple" /\ r.k = "tuple"
                /\ Len(l.parts) = Len(r.parts)
                /\ \A i \in DOMAIN l.parts : l.parts[i].k = "var"
      [] s.k = "sub" -> Flat(s.rhe).k # "tuple"
      [] s.k \in {"if", "while", "block", "init"} -> \A c \in ToSet(s.stmts) : TuplesRemovable(c)
      [] OTHER -> TRUE

\* What a log prints: a tuple between parentheses.
RECURSIVE SeparateTuple(_)
SeparateTuple(e) ==
    IF e.k # "tuple" THEN <<e>>
    ELSE <<[k |-> "text", s |-> "(", parts |-> << >>]>>
         \o FlattenSeq([i \in DOMAIN e.parts |-> SeparateTuple(e.parts[i])])
         \o <<[k |-> "text", s |-> ")", parts |-> << >>]>>

RECURSIVE RemoveTuples(_)
RemoveTuples(s) ==
    CASE s.k = "mult" ->
            LET l == Flat(s.lhe).parts  r == Flat(s.rhe).parts
            IN  Block([i \in DOMAIN l |-> Assigned(l[i], s.op, r[i])])
      [] s.k = "sub" -> Assigned(Var(s.name, s.index, s.sig), s.op, Flat(s.rhe))
      [] s.k \in {"if", "while", "block", "init"} ->
            [s EXCEPT !.stmts = [i \in DOMAIN s.stmts |-> RemoveTuples(s.stmts[i])]]
      [] s.k = "log" -> [s EXCEPT !.exps = FlattenSeq([i \in DOMAIN s.exps |-> SeparateTuple(s.exps[i])])]
      [] OTHER -> s

-----------------------------------------------------------------------------
(* apply_syntactic_sugar on one body, and the main component.                *)

Reject == phase' = "rejected" /\ UNCHANGED <<program, body>>

CheckAnonymous ==
    /\ phase = "parsed"
    /\ LET accepted == /\ ~ program.mainAnonymous
                       /\ IF program.kind = "function" THEN ~ StatementHasAnonymous(body) ELSE CheckStatement(body)
       IN  IF accepted THEN phase' = "checked" /\ UNCHANGED <<program, body>> ELSE Reject

\* (a fault: the declarations are not put at the top)
RemoveWithoutDeclarations ==
    /\ phase = "checked"
    /\ IF program.kind = "function" THEN phase' = "removed" /\ UNCHANGED <<program, body>>
       ELSE IF ~ StatementRemovable(body) THEN Reject
       ELSE /\ body' = Block(RemoveFromStatement(body, << >>).stmt.stmts)
            /\ phase' = "removed"
            /\ UNCHANGED program
RemoveAnonymousComponents ==
    /\ phase = "checked"
    /\ IF program.kind = "function" THEN phase' = "removed" /\ UNCHANGED <<program, body>>
       ELSE IF ~ StatementRemovable(body) THEN Reject
       ELSE LET r == RemoveFromStatement(body, << >>) IN
            /\ body' = Block(<<[k |-> "init", stmts |-> r.counters], [k |-> "init", stmts |-> r.comps]>>
                             \o r.subs \o r.stmt.stmts)
            /\ phase' = "removed"
            /\ UNCHANGED program

RemoveAllTuples ==
    /\ phase = "removed"
    /\ IF CheckTuplesStatement(body) /\ TuplesRemovable(body)
       THEN body' = RemoveTuples(body) /\ phase' = "done" /\ UNCHANGED program
       ELSE Reject

Done == phase \in {"done", "rejected"} /\ UNCHANGED vars

Init == program \in Programs /\ body = program.body /\ phase = "parsed"

Next == CheckAnonymous \/ RemoveAnonymousComponents \/ RemoveAllTuples \/ Done

Spec == Init /\ [][Next]_vars
=============================================================================
