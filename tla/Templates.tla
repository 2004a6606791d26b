----------------------------- MODULE Templates -----------------------------
(* A template on its way to the code that computes the witness: the static   *)
(* analysis accepts it, the execution gathers its constraints, the filters   *)
(* rewrite its code (add_node_to_scheme), and both the code as written and   *)
(* the code kept run on every input.                                         *)
EXTENDS Execution

CONSTANT Programs        \* the bodies, already numbered by Fill

VARIABLES phase, program, analysis, execution, code, input, written, kept
vars == <<phase, program, analysis, execution, code, input, written, kept>>

Body == program

-----------------------------------------------------------------------------
(* filters.rs *)
ReadComputed(computed, e) == IF e.id \in DOMAIN computed THEN computed[e.id] ELSE << >>

RECURSIVE ApplyComputedTo(_, _)
\* computed_or_original, and apply_computed_expr below it
ApplyComputedTo(e, computed) ==
    IF ReadComputed(computed, e) # << >> THEN [id |-> e.id] @@ Number(ReadComputed(computed, e)[1])
    ELSE [field \in DOMAIN e |-> IF field \in Children THEN ApplyComputedTo(e[field], computed) ELSE e[field]]

ExpressionFields == {"index", "lhe", "rhe", "cond", "arg"}
RECURSIVE ApplyComputed(_, _)
ApplyComputed(s, computed) ==
    [field \in DOMAIN s |->
        CASE field \in ExpressionFields -> ApplyComputedTo(s[field], computed)
          [] field \in {"dims", "access"} -> [i \in DOMAIN s[field] |-> ApplyComputedTo(s[field][i], computed)]
          [] field \in {"ift", "iff", "body"} -> ApplyComputed(s[field], computed)
          [] field = "stmts" -> [i \in DOMAIN s[field] |-> ApplyComputed(s[field][i], computed)]
          [] OTHER -> s[field]]

\* clean_dead_code returns the statement and whether it is empty.
RECURSIVE CleanDeadCode(_, _)
CleanedBranch(s, ift, iff, test) ==
    CASE test = << >> -> [s EXCEPT !.ift = ift, !.iff = iff]
      [] test = <<0>> -> iff
      [] OTHER -> ift
CleanDeadCode(s, st) ==
    CASE s.op = "while" -> LET b == CleanDeadCode(s.body, st)
                           IN [code |-> [s EXCEPT !.body = b.code], empty |-> b.empty]
      [] s.op = "if" ->
            LET ift == CleanDeadCode(s.ift, st)
                iff == CleanDeadCode(s.iff, st)
            IN [code |-> CleanedBranch(s, ift.code, iff.code, ReadComputed(st.computed, s.cond)),
                empty |-> ift.empty /\ iff.empty]
      [] s.op = "block" ->
            LET cleaned == [i \in DOMAIN s.stmts |->
                    IF s.stmts[i].id \in st.reached THEN CleanDeadCode(s.stmts[i], st)
                    ELSE [code |-> s.stmts[i], empty |-> TRUE]]
                left == SelectSeq(cleaned, LAMBDA c : ~c.empty)
            IN [code |-> [s EXCEPT !.stmts = [i \in DOMAIN left |-> left[i].code]], empty |-> left = << >>]
      [] OTHER -> [code |-> s, empty |-> FALSE]

Filtered(s, st) == ApplyComputed(CleanDeadCode(s, st).code, st.computed)

-----------------------------------------------------------------------------
(* What the language says a template computes from an input: the reference.  *)
RECURSIVE Eval(_, _), Run(_, _), RunAll(_, _, _), RunLoop(_, _, _)
Fresh(in) == [env |-> << << >> >>, in |-> in, out |-> << >>, log |-> << >>, val |-> 0, ret |-> << >>, stop |-> "none"]
Running(r) == r.stop = "none" /\ r.ret = << >>
Stopped(r, why) == [r EXCEPT !.stop = why]
Eval(e, r) ==
    IF r.stop # "none" THEN r ELSE
    CASE e.op = "number" -> [r EXCEPT !.val = e.n]
      [] e.op = "variable" -> [r EXCEPT !.val = Get(r.env, e.x)[1]]
      [] e.op = "signal" -> [r EXCEPT !.val = r.in]
      [] e.op = "element" ->
            LET i == Eval(e.index, r)
                cells == Get(i.env, e.x)
            IN IF i.val < Len(cells) THEN [i EXCEPT !.val = cells[i.val + 1]] ELSE Stopped(i, "index")
      [] e.op = "infix" -> LET l == Eval(e.lhe, r)
                               m == Eval(e.rhe, l)
                           IN [m EXCEPT !.val = Apply(e.f, l.val, m.val)]
      [] e.op = "switch" -> LET c == Eval(e.cond, r) IN IF c.val # 0 THEN Eval(e.ift, c) ELSE Eval(e.iff, c)
      [] e.op = "call" ->
            LET a == Eval(e.arg, r)
                inner == RunAll(Functions[e.f], 1, [a EXCEPT !.env = << "p" :> <<a.val>> >>])
            IN IF inner.stop # "none" THEN inner
               ELSE [inner EXCEPT !.env = r.env, !.val = inner.ret[1], !.ret = r.ret]

Run(s, r) ==
    IF ~Running(r) THEN r ELSE
    CASE s.op = "declaration" ->
            LET d == IF s.dims = << >> THEN [r EXCEPT !.val = 1] ELSE Eval(s.dims[1], r)
            IN IF s.xtype = "var" THEN [d EXCEPT !.env = Add(@, s.x, [i \in 1 .. d.val |-> 0])] ELSE d
      [] s.op = "substitution" ->
            LET i == IF s.access = << >> THEN [r EXCEPT !.val = 0] ELSE Eval(s.access[1], r)
                v == Eval(s.rhe, i)
            IN CASE v.stop # "none" -> v
                 [] s.to = "variable" /\ i.val >= Len(Get(v.env, s.x)) -> Stopped(v, "index")
                 [] s.to = "variable" -> [v EXCEPT !.env = Put(@, s.x, [Get(v.env, s.x) EXCEPT ![i.val + 1] = v.val])]
                 [] s.to = "signal" -> [v EXCEPT !.out = (s.x :> v.val) @@ @]
                 [] OTHER -> v
      [] s.op = "if" -> LET c == Eval(s.cond, r) IN IF c.val # 0 THEN Run(s.ift, c) ELSE Run(s.iff, c)
      [] s.op = "while" -> RunLoop(s, MaxIterations, r)
      [] s.op = "block" -> LET in == RunAll(s.stmts, 1, [r EXCEPT !.env = AddBlock(@)]) IN [in EXCEPT !.env = RemoveBlock(@)]
      [] s.op = "init" -> RunAll(s.stmts, 1, r)
      [] s.op = "return" -> LET v == Eval(s.arg, r) IN [v EXCEPT !.ret = <<v.val>>]
      [] s.op = "log" -> LET v == Eval(s.arg, r) IN [v EXCEPT !.log = Append(@, v.val)]
      [] s.op = "assert" -> LET v == Eval(s.arg, r) IN IF v.val = 0 THEN Stopped(v, "assert") ELSE v
      [] s.op = "equality" -> LET l == Eval(s.lhe, r)
                                  v == Eval(s.rhe, l)
                              IN IF l.val = v.val THEN v ELSE Stopped(v, "assert")
      [] s.op = "underscore" -> Eval(s.arg, r)
RunLoop(s, left, r) ==
    LET c == Eval(s.cond, r)
    IN CASE ~Running(c) \/ c.val = 0 -> c
         [] left = 0 -> Stopped(c, "endless")
         [] OTHER -> RunLoop(s, left - 1, Run(s.body, c))
RunAll(ss, i, r) == IF i > Len(ss) \/ ~Running(r) THEN r ELSE RunAll(ss, i + 1, Run(ss[i], r))

-----------------------------------------------------------------------------
NoAnalysis == Exit(<< << >> >>)
NoRun == Fresh(0)

Init ==
    /\ phase = "parsed"
    /\ program \in Programs
    /\ analysis = NoAnalysis
    /\ execution = Start(<< >>)
    /\ code = Nothing
    /\ input = 0
    /\ written = NoRun
    /\ kept = NoRun

\* unknown_known_analysis: a template with reports goes no further.
AnalyzeTemplate ==
    /\ phase = "parsed"
    /\ analysis' = AnalyzeAll(Body.stmts, 1, NoAnalysis)
    /\ phase' = IF analysis'.reports = {} THEN "accepted" ELSE "rejected"
    /\ UNCHANGED <<program, execution, code, input, written, kept>>

\* execute_template_call: the statements of the body; an error ends the compilation.
ExecuteTemplate ==
    /\ phase = "accepted"
    /\ execution' = ExecuteSequence(Body.stmts, 1, Start(<< >>))
    /\ phase' = IF execution'.error = "none" THEN "executed" ELSE "failed"
    /\ UNCHANGED <<program, analysis, code, input, written, kept>>

AddNodeToScheme ==
    /\ phase = "executed"
    /\ code' = Filtered(Body, execution)
    /\ phase' = "compiled"
    /\ UNCHANGED <<program, analysis, execution, input, written, kept>>

\* The witness of an input: by the template as written, and by the code kept.
ComputeWitness ==
    /\ phase = "compiled"
    /\ input' \in Inputs
    /\ written' = RunAll(Body.stmts, 1, Fresh(input'))
    /\ kept' = RunAll(code.stmts, 1, Fresh(input'))
    /\ phase' = "computed"
    /\ UNCHANGED <<program, analysis, execution, code>>

Done == phase \in {"rejected", "failed", "computed"} /\ UNCHANGED vars
Next == AnalyzeTemplate \/ ExecuteTemplate \/ AddNodeToScheme \/ ComputeWitness \/ Done
Spec == Init /\ [][Next]_vars

-----------------------------------------------------------------------------
Errors == {"none", "OutOfBounds", "UnknownSizeDimension", "DeclarationInUnknown", "ConstraintInUnknown",
           "NonQuadraticConstraint", "UnknownTemplate", "TagAssignmentInUnknown", "NonValidTagAssignment",
           "FalseAssert", "endless", "panic"}

(* What is recorded of an execution is well formed: it ends in the block and *)
(* under the condition it started with, and computes numbers of the field.   *)
TypeOK ==
    /\ phase \in {"parsed", "rejected", "accepted", "failed", "executed", "compiled", "computed"}
    /\ execution.error \in Errors
    /\ execution.error = "none" => execution.block = "known" /\ Len(execution.env) = 1
    /\ \A id \in DOMAIN execution.computed :
          execution.computed[id] = << >> \/ execution.computed[id][1] \in 0 .. P - 1
    /\ input \in Inputs

RECURSIVE Within(_), Changes(_), Declares(_)
Parts(s) == CASE s.op \in {"block", "init"} -> {s.stmts[i] : i \in DOMAIN s.stmts}
              [] s.op = "if" -> {s.ift, s.iff}
              [] s.op = "while" -> {s.body}
              [] OTHER -> {}
\* The statement and those inside it; the variables it declares in its block;
\* the variables of enclosing blocks it assigns.
Within(s) == {s} \cup UNION {Within(t) : t \in Parts(s)}
Declares(s) == CASE s.op = "declaration" -> {s.x}
                 [] s.op = "init" -> UNION {Declares(t) : t \in Parts(s)}
                 [] OTHER -> {}
Changes(s) == CASE s.op = "substitution" -> IF s.to = "variable" THEN {s.x} ELSE {}
                [] s.op = "block" -> UNION {Changes(t) : t \in Parts(s)} \ UNION {Declares(t) : t \in Parts(s)}
                [] OTHER -> UNION {Changes(t) : t \in Parts(s)}

(* A condition or loop that contains a loop which assigns a variable declared*)
(* outside of both: the analysis of a loop does not hand on what its body    *)
(* modifies, so the statement around it keeps the tag of the variable.       *)
HidesChanges(body) ==
    \E s \in Within(body) : \E loop \in Within(s) \ {s} :
        s.op \in {"if", "while"} /\ loop.op = "while" /\ Changes(loop) \cap Changes(s) # {}

(* A template the analysis accepts executes without a declaration, a         *)
(* constraint, a tag or an instantiation that depends on an unknown value:   *)
(* unknown_known_analysis.rs against the checks of execute.rs. Templates     *)
(* that read an array are left out, as the analysis does, and those with a   *)
(* loop that hides what it changes (AcceptedMeansKnown below).               *)
RECURSIVE ReadsArray(_)
ReadsArray(node) ==
    \/ node.op = "element"
    \/ \E f \in DOMAIN node \cap Children : ReadsArray(node[f])
    \/ \E f \in DOMAIN node \cap Lists : \E i \in DOMAIN node[f] : ReadsArray(node[f][i])
ExecutesKnown ==
    execution.error \notin {"DeclarationInUnknown", "ConstraintInUnknown", "UnknownTemplate",
                            "TagAssignmentInUnknown", "NonValidTagAssignment"}
AcceptedExecutes ==
    phase = "failed" /\ ~ReadsArray(Body) /\ ~HidesChanges(Body) => ExecutesKnown

(* What the analysis takes for known at the end of a template is a number    *)
(* when it is executed (unless the variable is an array), with the same      *)
(* exceptions.                                                               *)
KnownIsNumber ==
    phase = "executed" /\ ~ReadsArray(Body) /\ ~HidesChanges(Body) => \A x \in DOMAIN analysis.env[1] :
        LET v == analysis.env[1][x] IN
        ~v.array /\ v.tag = "known" => IsNumber(execution.env[1][x][1])

(* The tags a loop ends with are a fixpoint: to analyse its body again from  *)
(* them makes no variable worse, whether or not the analysis says that the   *)
(* body modifies it (check_modified); again unless a loop hides a change.    *)
Stable(s, env) == LET again == Analyze(s, env).env IN ~GotWorse(env, again, UNION {DOMAIN env[i] : i \in DOMAIN env})
LoopsStable ==
    phase = "accepted" /\ ~HidesChanges(Body) => \A i \in DOMAIN Body.stmts :
        Body.stmts[i].op = "while" =>
            Stable(Body.stmts[i].body, AnalyzeAll(SubSeq(Body.stmts, 1, i), 1, NoAnalysis).env)

(* A variable whose value the execution knows has that value when the        *)
(* template runs, whatever the input: the branches executed under an unknown *)
(* condition, the loops executed twice and the calls lose no assignment.     *)
ValuesAgree ==
    phase = "computed" /\ written.stop = "none" =>
        \A x \in DOMAIN execution.env[1] : \A i \in DOMAIN execution.env[1][x] :
            LET v == execution.env[1][x][i] IN
            v.kind # "nonquadratic" => written.env[1][x][i] = v.at[input]

(* The constraints of the template hold of the witness its code computes.    *)
ConstraintsHold ==
    phase = "computed" /\ written.stop = "none" => \A c \in execution.constraints :
        IF c.on = "equality" THEN c.at[input] = 0 ELSE written.out[c.on] = c.at[input]

(* The code that is kept assigns to the signals what the code as written     *)
(* assigns: nothing that can be reached was left out, and a number replaces  *)
(* an expression only if it always has this value (filters.rs).              *)
CodeKept ==
    phase = "computed" /\ written.stop = "none" => kept.stop = "none" /\ kept.out = written.out

(* The code that is kept logs what the code as written logs, and fails the   *)
(* asserts it fails: a call is replaced by its value only if it has no       *)
(* effect (can_be_simplified).                                               *)
EffectsKept == phase = "computed" => kept.log = written.log /\ kept.stop = written.stop

(* A false assert ends the compilation only if every input fails it:         *)
(* "the assert depends on a control flow with only known conditions".        *)
AssertsFalse ==
    phase = "failed" /\ execution.error = "FalseAssert" =>
        \A in \in Inputs : RunAll(Body.stmts, 1, Fresh(in)).stop # "none"

(* No exception for loops within conditions and loops: "constraint can only  *)
(* be generated in a control flow with known conditions" would be decided    *)
(* before the execution.                                                     *)
AcceptedMeansKnown == phase = "failed" /\ ~ReadsArray(Body) => ExecutesKnown

(* An accepted template never stops the compiler: the expression of an       *)
(* underscore has a constraint form ("unwrap" in execute.rs).                *)
NoPanic == execution.error # "panic"
=============================================================================
