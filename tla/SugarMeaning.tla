---------------------------- MODULE SugarMeaning ----------------------------
(***************************************************************************)
(* What a body means before and after the removal of anonymous components  *)
(* and tuples (module SugarRemover): the assignments and logs it executes, *)
(* in order, and the components it creates with the values of their inputs. *)
(* Values are terms: <<"num", n>>, <<"start", name>>, <<"op", ...>> and    *)
(* <<"out", template, parameters, inputs, output>>.                        *)
(***************************************************************************)
EXTENDS SugarRemover

\* The state of an execution.
Start == [env |-> << >>, events |-> << >>, comps |-> << >>, ok |-> TRUE]

Lookup(st, name) == IF name \in DOMAIN st.env THEN st.env[name] ELSE <<"start", name>>
Add(a, b) == IF a[1] = "num" /\ b[1] = "num" THEN <<"num", a[2] + b[2]>> ELSE <<"op", a, b>>
Set(st, name, op, value) ==
    IF name[1] = "_" THEN st
    ELSE [st EXCEPT !.env = (name :> value) @@ @,
                    !.events = IF name[2] = << >> THEN Append(@, <<name, op, value>>) ELSE @]

-----------------------------------------------------------------------------
(* The executor, on bodies without anonymous components and tuples: a        *)
(* component is created once, each of its inputs is assigned once, and its   *)
(* outputs have values when all inputs have.                                 *)

RECURSIVE Value(_, _)
Key(st, name, index) == <<name, [i \in DOMAIN index |-> Value(st, index[i])]>>
Readable(st, e) ==
    /\ Key(st, e.name, e.parts) \in DOMAIN st.comps
    /\ LET c == st.comps[Key(st, e.name, e.parts)]
       IN  DOMAIN c.ins = ToSet(Library[c.t].inputs)
Value(st, e) ==
    CASE e.k = "num" -> <<"num", e.n>>
      [] e.k = "text" -> <<"text", e.s>>
      [] e.k = "op" -> Add(Value(st, e.parts[1]), Value(st, e.parts[2]))
      [] e.k = "array" -> <<"array", [i \in DOMAIN e.parts |-> Value(st, e.parts[i])]>>
      [] e.k = "var" /\ e.sig = "" -> Lookup(st, e.name)
      [] e.k = "var" /\ e.sig # "" ->
            IF Readable(st, e)
            THEN LET c == st.comps[Key(st, e.name, e.parts)] IN <<"out", c.t, c.args, c.ins, e.sig>>
            ELSE <<"unreadable">>
      [] OTHER -> <<"unknown">>

CallIn(e) == IF e.k = "par" THEN e.parts[1] ELSE e
Executed(st, s) ==
    CASE s.k = "sub" /\ s.rhe.k \in {"call", "par"} ->
            LET call == CallIn(s.rhe)
                key  == Key(st, s.name, s.index)
            IN  [st EXCEPT !.ok = @ /\ key \notin DOMAIN st.comps,
                           !.comps = (key :> [t |-> call.t, par |-> s.rhe.k = "par", ins |-> << >>,
                                              args |-> [i \in DOMAIN call.parts |-> Value(st, call.parts[i])]]) @@ @]
      [] s.k = "sub" /\ s.rhe.k \notin {"call", "par"} /\ s.sig # "" ->
            LET key == Key(st, s.name, s.index)
                new == key \in DOMAIN st.comps /\ s.sig \notin DOMAIN st.comps[key].ins
            IN  IF ~ new THEN [st EXCEPT !.ok = FALSE]
                ELSE [st EXCEPT !.comps[key].ins = (s.sig :> Value(st, s.rhe)) @@ @]
      [] s.k = "sub" /\ s.rhe.k \notin {"call", "par"} /\ s.sig = "" -> Set(st, s.name, s.op, Value(st, s.rhe))
      [] s.k = "log" -> [st EXCEPT !.events = Append(@, [i \in DOMAIN s.exps |-> Value(st, s.exps[i])])]
      [] OTHER -> st

RECURSIVE Execute(_, _)
Times(n, s) == [i \in 1 .. n |-> s]
Execute(st, stmts) ==
    FoldLeft(LAMBDA acc, s :
                CASE s.k \in {"block", "init"} -> Execute(acc, s.stmts)
                  [] s.k = "if" -> IF s.taken THEN Execute(acc, <<s.stmts[1]>>) ELSE Execute(acc, Tail(s.stmts))
                  [] s.k = "while" -> Execute(acc, FlattenSeq(Times(s.times, s.stmts)))
                  [] OTHER -> Executed(acc, s),
             st, stmts)

-----------------------------------------------------------------------------
(* The meaning of the sugar itself: an anonymous component is evaluated where *)
(* it stands, a tuple is assigned element by element.  Denoted gives the      *)
(* values of an expression (none, one or several) and the components made.    *)

RECURSIVE Denoted(_, _)
Denoted(st, e) ==
    CASE e.k = "tuple" ->
            LET d == [i \in DOMAIN e.parts |-> Denoted(st, e.parts[i])]
            IN  [values |-> FlattenSeq([i \in DOMAIN d |-> d[i].values]), made |-> FlattenSeq([i \in DOMAIN d |-> d[i].made])]
      [] e.k = "array" ->
            LET d == [i \in DOMAIN e.parts |-> Denoted(st, e.parts[i])]
            IN  [values |-> <<<<"array", [i \in DOMAIN d |-> d[i].values[1]]>>>>, made |-> FlattenSeq([i \in DOMAIN d |-> d[i].made])]
      [] e.k = "anon" \/ (e.k = "par" /\ e.parts[1].k = "anon") ->
            LET a    == CallIn(e)
                d    == [x \in ToSet(Library[a.t].inputs) |-> Denoted(st, InputOf(a, x))]
                ins  == [x \in DOMAIN d |-> d[x].values[1]]
                args == [i \in DOMAIN a.params |-> Value(st, a.params[i])]
                outs == Library[a.t].outputs
            IN  [values |-> [i \in DOMAIN outs |-> <<"out", a.t, args, ins, outs[i]>>],
                 made |-> <<[t |-> a.t, par |-> e.k = "par" \/ a.par, ins |-> ins, args |-> args]>>
                          \o FlattenSeq([i \in DOMAIN Library[a.t].inputs |-> d[Library[a.t].inputs[i]].made])]
      [] OTHER -> [values |-> <<Value(st, e)>>, made |-> << >>]

\* The elements of the right side are evaluated one after another, each after
\* the assignments of those before it.
RECURSIVE Elements(_)
Elements(e) == IF e.k = "tuple" THEN FlattenSeq([i \in DOMAIN e.parts |-> Elements(e.parts[i])]) ELSE <<e>>
AssignInOrder(state, targets, op, elements) ==
    FoldLeft(LAMBDA acc, e :
                LET d == Denoted(acc.st, e)
                    n == Len(d.values)
                IN  [left |-> SubSeq(acc.left, n + 1, Len(acc.left)),
                     st |-> [FoldLeft(LAMBDA s, i : Set(s, acc.left[i].name, op, d.values[i]), acc.st, [i \in 1 .. n |-> i])
                             EXCEPT !.made = @ \o d.made]],
             [left |-> targets, st |-> state], elements).st

Printed(st, e) == [i \in DOMAIN SeparateTuple(e) |-> Value(st, SeparateTuple(e)[i])]

RECURSIVE Meaning(_, _)
Meaning(st, stmts) ==
    FoldLeft(LAMBDA acc, s :
                CASE s.k \in {"block", "init"} -> Meaning(acc, s.stmts)
                  [] s.k = "if" -> IF s.taken THEN Meaning(acc, <<s.stmts[1]>>) ELSE Meaning(acc, Tail(s.stmts))
                  [] s.k = "while" -> Meaning(acc, FlattenSeq(Times(s.times, s.stmts)))
                  [] s.k = "sub" -> AssignInOrder(acc, <<Var(s.name, s.index, s.sig)>>, s.op, <<s.rhe>>)
                  [] s.k = "mult" -> AssignInOrder(acc, Elements(s.lhe), s.op, Elements(s.rhe))
                  [] s.k = "log" -> [acc EXCEPT !.events = Append(@, FlattenSeq([i \in DOMAIN s.exps |-> Printed(acc, s.exps[i])]))]
                  [] OTHER -> acc,
             st, stmts)

\* The components of an execution are those of the meaning, each as often.
SameComponents(comps, made) ==
    /\ Cardinality(DOMAIN comps) = Len(made)
    /\ \A c \in ToSet(made) : Cardinality({k \in DOMAIN comps : comps[k] = c}) = Cardinality({i \in DOMAIN made : made[i] = c})

-----------------------------------------------------------------------------
(* Which bodies are legal, as the documentation tells it.                    *)

\* The number of values of an expression, alone (scalar) or as a tuple; legal
\* is FALSE where an anonymous component or a tuple may not stand.
RECURSIVE Shape(_)
Plain(e) == ~ HasAnonymous(e) /\ ~ HasTuple(e)
Shape(e) ==
    CASE e.k = "tuple" ->
            LET d == [i \in DOMAIN e.parts |-> Shape(e.parts[i])]
            IN  [legal |-> \A i \in DOMAIN d : d[i].legal, scalar |-> FALSE,
                 size |-> FoldLeft(LAMBDA n, x : n + x.size, 0, d)]
      [] e.k = "array" ->
            LET d == [i \in DOMAIN e.parts |-> Shape(e.parts[i])]
            IN  [legal |-> \A i \in DOMAIN d : d[i].legal /\ d[i].scalar, scalar |-> TRUE, size |-> 1]
      [] e.k = "anon" \/ (e.k = "par" /\ e.parts[1].k = "anon") ->
            LET a == CallIn(e)
                n == Len(Library[a.t].outputs)
                given == IF a.names = << >> THEN Library[a.t].inputs ELSE [i \in DOMAIN a.names |-> a.names[i].name]
            IN  [legal |-> /\ Len(a.parts) = Len(given)
                           /\ Len(given) = Len(Library[a.t].inputs)
                           /\ \A x \in ToSet(Library[a.t].inputs) : \E i \in DOMAIN given : given[i] = x
                           /\ \A i \in DOMAIN a.names : a.names[i].op = "<=="
                           /\ \A p \in ToSet(a.params) : Plain(p)
                           /\ \A s \in ToSet(a.parts) : Shape(s).legal /\ Shape(s).scalar,
                 scalar |-> n = 1, size |-> n]
      [] OTHER -> [legal |-> \A p \in PartsOf(e) : Plain(p), scalar |-> TRUE, size |-> 1]

RECURSIVE Legal(_)
Legal(s) ==
    CASE s.k \in {"sub", "mult"} ->
            /\ Shape(s.rhe).legal
            /\ HasAnonymous(s.rhe) => s.op # "<--"
            /\ s.k = "sub" => Shape(s.rhe).scalar /\ \A i \in ToSet(s.index) : Plain(i)
            /\ s.k = "mult" => /\ s.lhe.k = "tuple" /\ ~ Shape(s.rhe).scalar
                               /\ \A i \in DOMAIN Elements(s.lhe) : Elements(s.lhe)[i].k = "var" /\ Plain(Elements(s.lhe)[i])
                               /\ Len(Elements(s.lhe)) = Shape(s.rhe).size
      [] s.k \in {"if", "while"} -> Plain(s.cond) /\ \A c \in ToSet(s.stmts) : Legal(c)
      [] s.k \in {"block", "init"} -> \A c \in ToSet(s.stmts) : Legal(c)
      [] s.k = "log" -> \A e \in ToSet(s.exps) : ~ HasAnonymous(e) /\ Shape(e).legal
      [] OTHER -> \A e \in ToSet(s.exps) : Plain(e)

-----------------------------------------------------------------------------
(* Properties.                                                               *)

RECURSIVE Sugared(_)
Sugared(s) ==
    CASE s.k = "mult" -> TRUE
      [] s.k \in {"sub", "under"} -> ~ Plain(s.rhe)
      [] s.k \in {"if", "while", "block", "init"} -> \E c \in ToSet(s.stmts) : Sugared(c)
      [] OTHER -> \E e \in ToSet(s.exps) : ~ Plain(e)

\* No anonymous component and no tuple is left in a body that was accepted:
\* every later pass has unreachable!() for them.
NothingLeft == phase = "done" => ~ Sugared(body)

\* The phases come in order, and the body of a rejected program is never used:
\* a body is rewritten only as a block whose first statements declare.
TypeOK ==
    /\ phase \in {"parsed", "checked", "removed", "done", "rejected"}
    /\ phase \in {"removed", "done"} /\ program.kind = "template" =>
            body.k = "block" /\ body.stmts[1].k = "init" /\ body.stmts[2].k = "init"

\* A body is accepted exactly when anonymous components and tuples stand where
\* the documentation allows them and match their templates and targets, though
\* the code decides it in four passes, two of them after the rewriting.
AcceptedIffLegal ==
    /\ phase = "done" => Legal(program.body) /\ ~ program.mainAnonymous
    /\ phase = "rejected" =>
            \/ ~ Legal(program.body) \/ program.mainAnonymous
            \/ program.kind = "function" /\ StatementHasAnonymous(program.body)

\* The rewritten body executes the assignments and the logs of the original, in
\* the same order and with the same values, and creates the same components
\* with the same inputs: one for each time an anonymous component is reached,
\* in any nesting of loops, none created twice and no input assigned twice.
SameMeaning ==
    phase = "done" =>
        LET run  == Execute(Start, body.stmts)
            mean == Meaning([env |-> << >>, events |-> << >>, made |-> << >>], program.body.stmts)
        IN  /\ run.ok
            /\ run.events = mean.events
            /\ SameComponents(run.comps, mean.made)
=============================================================================
