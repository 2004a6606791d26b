--------------------------- MODULE KnownAnalysis ---------------------------
(* The static analysis that rejects templates whose circuit would depend on  *)
(* a value unknown at compile time (unknown_known_analysis.rs): a tag for    *)
(* every variable, two environments merged after a condition, and the body   *)
(* of a loop analysed again until no tag gets worse.                         *)
EXTENDS SyntaxTree, FiniteSets, TLC

\* An environment is a sequence of blocks, the innermost last; a variable is
\* a tag and whether it was declared as an array.
InnermostWith(env, x) == CHOOSE i \in DOMAIN env :
    /\ x \in DOMAIN env[i]
    /\ \A j \in DOMAIN env : j > i => x \notin DOMAIN env[j]
HasVariable(env, x) == \E i \in DOMAIN env : x \in DOMAIN env[i]
Get(env, x) == env[InnermostWith(env, x)][x]
Put(env, x, value) == [env EXCEPT ![InnermostWith(env, x)] = (x :> value) @@ @]
Add(env, x, value) == [env EXCEPT ![Len(env)] = (x :> value) @@ @]
AddBlock(env) == Append(env, << >>)
(* (a fault: the outermost block of a statement stays) *)
RemoveBlockKept(env) == IF Len(env) = 2 THEN env ELSE Front(env)
RemoveBlock(env) == Front(env)

Worst(a, b) == IF "unknown" \in {a, b} THEN "unknown" ELSE "known"
WorstVariable(a, b) == [tag |-> Worst(a.tag, b.tag), array |-> a.array]
Union(l, r) == [x \in DOMAIN l \cup DOMAIN r |->
    IF x \notin DOMAIN r THEN l[x] ELSE IF x \notin DOMAIN l THEN r[x] ELSE WorstVariable(l[x], r[x])]
Merge(l, r) == [i \in DOMAIN l |-> Union(l[i], r[i])]

RECURSIVE TagOf(_, _)
TagOf(e, env) ==
    CASE e.op = "number" -> "known"
      [] e.op \in {"variable", "element"} -> IF Get(env, e.x).array THEN "known" ELSE Get(env, e.x).tag
      [] e.op = "signal" -> "unknown"
      [] e.op = "infix" -> Worst(TagOf(e.lhe, env), TagOf(e.rhe, env))
      [] e.op = "switch" -> Worst(TagOf(e.cond, env), Worst(TagOf(e.ift, env), TagOf(e.iff, env)))
      [] e.op = "call" -> TagOf(e.arg, env)

RECURSIVE UnknownIndex(_, _)
UnknownIndex(e, env) ==
    CASE e.op = "element" -> TagOf(e.index, env) = "unknown"
      [] e.op = "infix" -> UnknownIndex(e.lhe, env) \/ UnknownIndex(e.rhe, env)
      [] e.op = "switch" -> \E b \in {e.cond, e.ift, e.iff} : UnknownIndex(b, env)
      [] e.op = "call" -> UnknownIndex(e.arg, env)
      [] OTHER -> FALSE

\* What analyze returns: reports, the environment, what the statement makes
\* (constraints, tags, signals) and the variables it may assign.
Exit(env) == [reports |-> {}, env |-> env, makes |-> {}, modified |-> {}]
Joined(first, second) ==
    [reports |-> first.reports \cup second.reports, env |-> second.env,
     makes |-> first.makes \cup second.makes, modified |-> first.modified \cup second.modified]
Report(code, when) == IF when THEN {code} ELSE {}

AnalyzeDeclaration(s, env) ==
    LET after == IF s.xtype = "var"
                 THEN Add(env, s.x, [tag |-> "known", array |-> s.dims # << >>]) ELSE env
    IN [reports |-> Report("UnknownDimension", \E i \in DOMAIN s.dims : TagOf(s.dims[i], after) = "unknown"),
        env |-> after,
        makes |-> IF s.xtype = "var" THEN {} ELSE {"signals"},
        modified |-> IF s.xtype = "var" THEN {s.x} ELSE {}]

Assigned(old, new) == IF old.array /\ old.tag = "unknown" THEN old ELSE [old EXCEPT !.tag = new]

AnalyzeSubstitution(s, env) ==
    LET value == TagOf(s.rhe, env)
        access == IF \E i \in DOMAIN s.access : TagOf(s.access[i], env) = "unknown" THEN "unknown" ELSE "known"
        constrains == s.how = "<=="
    IN CASE s.to = "variable" ->
              [Exit(Put(env, s.x, Assigned(Get(env, s.x), Worst(value, access)))) EXCEPT !.modified = {s.x}]
         [] s.to = "component" ->
              [Exit(env) EXCEPT !.makes = {"constraints"},
                                !.reports = Report("UnknownTemplate", "unknown" \in {value, access})]
         [] s.to = "tag" ->
              [Exit(env) EXCEPT !.makes = {"tags"},
                                !.reports = Report("NonValidTagAssignment", "unknown" \in {value, access})]
         [] s.to = "signal" ->
              [Exit(env) EXCEPT !.makes = IF constrains THEN {"constraints"} ELSE {},
                                !.reports = Report("NonQuadratic", constrains /\ (UnknownIndex(s.rhe, env) \/ access = "unknown"))]

\* What a condition that may be unknown does to the result of its statements.
(* (a fault: what is assigned under an unknown condition keeps its tag) *)
MarkUnknownNot(env, xs) == env
MarkUnknown(env, xs) == [i \in DOMAIN env |->
    [x \in DOMAIN env[i] |-> IF x \in xs /\ i = InnermostWith(env, x)
                              THEN [env[i][x] EXCEPT !.tag = "unknown"] ELSE env[i][x]]]
(* (a fault: constraints are not reported) *)
UnderUnknownSilent(exit) ==
    [exit EXCEPT !.env = MarkUnknown(@, exit.modified),
                 !.reports = @ \cup Report("UnreachableTags", "tags" \in exit.makes)
                               \cup Report("UnreachableSignals", "signals" \in exit.makes)]
UnderUnknown(exit) ==
    [exit EXCEPT !.env = MarkUnknown(@, exit.modified),
                 !.reports = @ \cup Report("UnreachableConstraints", "constraints" \in exit.makes)
                               \cup Report("UnreachableTags", "tags" \in exit.makes)
                               \cup Report("UnreachableSignals", "signals" \in exit.makes)]

\* check_modified, of the variables the body says it modifies: the worse of
\* the tags before and after it, and whether one of them became unknown.
InBoth(before, after, x) == HasVariable(before, x) /\ HasVariable(after, x)
GotWorse(before, after, xs) == \E x \in xs :
    /\ InBoth(before, after, x)
    /\ Get(before, x) # Get(after, x)
    /\ Get(after, x).tag = "unknown"
Weakened(before, after, xs) == [i \in DOMAIN after |-> [x \in DOMAIN after[i] |->
    IF x \in xs /\ InBoth(before, after, x) /\ i = InnermostWith(after, x)
    THEN WorstVariable(Get(before, x), after[i][x]) ELSE after[i][x]]]

RECURSIVE Analyze(_, _), AnalyzeAll(_, _, _), AnalyzeLoop(_, _)
AnalyzeAll(ss, i, exit) ==
    IF i > Len(ss) THEN exit
    ELSE LET next == Joined(exit, Analyze(ss[i], exit.env)) IN AnalyzeAll(ss, i + 1, next)

(* (a fault: the body is analysed once) *)
AnalyzeLoopOnce(body, env) ==
    LET exit == Analyze(body, env) IN [exit EXCEPT !.env = Weakened(env, @, exit.modified)]
AnalyzeLoop(body, env) ==
    LET exit == Analyze(body, env)
        weakened == [exit EXCEPT !.env = Weakened(env, @, exit.modified)]
    IN IF GotWorse(env, exit.env, exit.modified) THEN AnalyzeLoop(body, weakened.env) ELSE weakened

Analyze(s, env) ==
    CASE s.op = "declaration" -> AnalyzeDeclaration(s, env)
      [] s.op = "substitution" -> AnalyzeSubstitution(s, env)
      [] s.op = "underscore" ->
            [Exit(env) EXCEPT !.makes = IF s.how = "<==" THEN {"constraints"} ELSE {},
                              !.reports = Report("NonQuadratic", s.how = "<==" /\ UnknownIndex(s.arg, env))]
      [] s.op = "equality" ->
            [Exit(env) EXCEPT !.makes = {"constraints"},
                              !.reports = Report("NonQuadratic", UnknownIndex(s.lhe, env) \/ UnknownIndex(s.rhe, env))]
      [] s.op = "if" ->
            LET ift == Analyze(s.ift, env)
                iff == Analyze(s.iff, env)
                exit == [Joined(ift, iff) EXCEPT !.env = Merge(ift.env, iff.env)]
            IN IF TagOf(s.cond, env) = "unknown" THEN UnderUnknown(exit) ELSE exit
      [] s.op = "while" ->   \* what its body modifies is not handed on
            LET exit == AnalyzeLoop(s.body, env)
            IN [IF TagOf(s.cond, exit.env) = "unknown" THEN UnderUnknown(exit) ELSE exit EXCEPT !.modified = {}]
      [] s.op = "block" ->
            LET exit == AnalyzeAll(s.stmts, 1, Exit(AddBlock(env)))
            IN [exit EXCEPT !.env = RemoveBlock(@)]
      [] s.op = "init" -> AnalyzeAll(s.stmts, 1, Exit(env))
      [] OTHER -> Exit(env)
=============================================================================
