----------------------------- MODULE MCFrontEnd -----------------------------
(***************************************************************************)
(* The passes of the parser on small instances: the reading of a project   *)
(* (ProgramFiles), the blanking of the comments of a file (Comments) and   *)
(* the removal of the syntactic sugar (SugarMeaning).  parser::run_parser  *)
(* runs them one after the other in one thread; what one hands to the next *)
(* is a program, of which each module keeps what its pass looks at.  So a  *)
(* behaviour here is that of one pass, "running", on one of its instances, *)
(* and the variables of the others are off.                                *)
(***************************************************************************)
EXTENDS SugarMeaning

CONSTANTS Projects, Dirs, CanonicalDir, Given, Libraries, CompilerVersion,
          WithExtension,             \* of ProgramFiles
          Texts                      \* of Comments

VARIABLES running,
          project, stack, black, location, library, nodes, adjacency, gatesNodes,
          mains, definitions, warnings, includes, result, reported,
          text, read, state, pp, loc, block_start, blanked

-----------------------------------------------------------------------------
(* Bodies with one assignment, in every context (alone, in a branch, in a  *)
(* loop, in nested loops), pairs of them in nested loops, and statements   *)
(* where sugar may not stand.                                              *)
LibraryDef == [A |-> [inputs |-> <<"b", "a">>, sorted |-> <<"a", "b">>, outputs |-> <<"o">>],
               S |-> [inputs |-> <<"i">>, sorted |-> <<"i">>, outputs |-> <<"p", "q">>],
               Z |-> [inputs |-> <<"i">>, sorted |-> <<"i">>, outputs |-> << >>]]

V(name) == Var(<<name, << >>>>, << >>, "")
x == V("x")
y == V("y")
u == V("u")
v == V("v")
w == V("w")
Anon(t, params, inputs, names) ==
    [k |-> "anon", t |-> t, params |-> params, parts |-> inputs, names |-> names, par |-> FALSE, at |-> << >>]
Array(values) == [k |-> "array", parts |-> values]
A(b, a) == Anon("A", << >>, <<b, a>>, << >>)
S(i) == Anon("S", <<Num(3)>>, <<i>>, << >>)
Z(i) == Anon("Z", << >>, <<i>>, << >>)
Named(n, m, op) == Anon("A", <<V("x")>>, <<x, y>>, <<[name |-> n, op |-> "<=="], [name |-> m, op |-> op]>>)

\* Positions: the path of each node.
RECURSIVE LocatedE(_, _)
LocatedE(e, p) ==
    LET q == [e EXCEPT !.parts = [i \in DOMAIN @ |-> LocatedE(@[i], p \o <<i>>)]]
    IN  IF e.k = "anon" THEN [q EXCEPT !.at = p, !.params = [i \in DOMAIN @ |-> LocatedE(@[i], p \o <<100 + i>>)]] ELSE q
RECURSIVE Located(_, _)
Located(s, p) ==
    CASE s.k = "sub" -> [s EXCEPT !.rhe = LocatedE(@, p \o <<1>>), !.index = [i \in DOMAIN @ |-> LocatedE(@[i], p \o <<2, i>>)]]
      [] s.k = "mult" -> [s EXCEPT !.rhe = LocatedE(@, p \o <<1>>), !.lhe = LocatedE(@, p \o <<2>>)]
      [] s.k = "if" -> [s EXCEPT !.stmts = [i \in DOMAIN @ |-> Located(@[i], p \o <<i>>)], !.cond = LocatedE(@, p \o <<9>>)]
      [] s.k = "while" -> [s EXCEPT !.stmts = [i \in DOMAIN @ |-> Located(@[i], p \o <<i>>)], !.cond = LocatedE(@, p \o <<9>>), !.at = p]
      [] s.k \in {"block", "init"} -> [s EXCEPT !.stmts = [i \in DOMAIN @ |-> Located(@[i], p \o <<i>>)]]
      [] OTHER -> [s EXCEPT !.exps = [i \in DOMAIN @ |-> LocatedE(@[i], p \o <<i>>)]]

While(n, s) == [k |-> "while", cond |-> x, times |-> n, stmts |-> <<s>>, at |-> << >>]
If(taken, ss) == [k |-> "if", cond |-> x, taken |-> taken, stmts |-> ss]
Exps(k, es) == [k |-> k, exps |-> es]
Assign(name, op, e) == Sub(<<name, << >>>>, << >>, "", op, e)
Mult(l, op, r) == [k |-> "mult", lhe |-> l, op |-> op, rhe |-> r]

Simple == {Num(1), Plus(u, Num(1))}
Singles == {A(x, y), A(u, x), Named("a", "b", "<=="), Parallel(A(y, x)), A(A(x, y), Num(1)),
            A(Parallel(A(x, y)), A(y, y)), Array(<<A(x, y), x>>)}
Several == {S(x), Parallel(S(y)), Tuple(<<Num(1), A(x, y)>>), S(A(x, y)),
            Tuple(<<A(x, y), A(y, x)>>), Tuple(<<x, Plus(u, Num(1))>>)}
Nested == {Tuple(<<S(x), A(x, y)>>), Tuple(<<Num(1), Tuple(<<x, A(y, y)>>)>>), Tuple(<<Tuple(<<Num(1), Tuple(<<x, y>>)>>)>>),
           Tuple(<<Z(x), S(y), Num(2)>>)}
Wrong == {Plus(A(x, y), x), A(S(x), y), A(Z(x), y), Array(<<S(x)>>), CallOf("f", <<A(x, y)>>), Anon("A", << >>, <<x>>, << >>),
          Named("a", "a", "<=="), Named("a", "c", "<=="), Named("a", "b", "<--"), Anon("A", <<A(x, y)>>, <<x, y>>, << >>),
          Parallel(CallOf("f", <<A(x, y)>>)), Parallel(Plus(A(x, y), x)), A(Plus(A(x, y), x), y), Plus(Tuple(<<x, y>>), x), A(Tuple(<<x, y>>), x), Z(x)}

Ops == {"=", "<==", "<--"}
Targets == {Tuple(<<u, v>>), Tuple(<<V("_"), v>>), Tuple(<<Tuple(<<u, v>>), w>>), Tuple(<<u>>), Tuple(<<Num(1), v>>), u}
Basic == {Assign("u", op, e) : op \in Ops, e \in Simple \cup Singles}
         \cup {Assign("_", "<==", A(x, y)), Mult(Tuple(<< >>), "<==", Z(x))}
         \cup {Mult(l, op, e) : l \in Targets, op \in Ops, e \in Several \cup Nested}
Short == {Assign("u", "=", e) : e \in Singles} \cup {Mult(Tuple(<<u, v>>), "<==", e) : e \in Several}
Illegal == {Assign("u", "<==", e) : e \in Wrong \cup Several} \cup {Mult(Tuple(<<u, v>>), "=", e) : e \in Wrong \cup Singles}
           \cup {Mult(Tuple(<<u, A(x, y)>>), "=", S(x)), Sub(<<"u", << >>>>, <<A(x, y)>>, "", "=", x), Sub(<<"u", << >>>>, <<Tuple(<<x>>)>>, "", "=", x)}
           \cup {Exps(k, <<e>>) : k \in {"log", "eq", "assert", "return", "decl"}, e \in {A(x, y), Tuple(<<x, Tuple(<<y>>)>>), x}}
           \cup {[If(TRUE, <<Block(<< >>)>>) EXCEPT !.cond = e] : e \in {A(x, y), Tuple(<<x>>)}}
           \cup {[While(1, Block(<< >>)) EXCEPT !.cond = e] : e \in {A(x, y), Tuple(<<x>>)}}
Plains == {Assign("v", "=", A(v, x)), Assign("v", "<==", Plus(v, x))}

InContext(s) == {Block(<<s>>), Block(<<If(TRUE, <<Block(<<s>>)>>), s>>), Block(<<If(FALSE, <<s, s>>)>>), Block(<<While(2, Block(<<s>>))>>),
                 Block(<<While(2, While(2, Block(<<s>>)))>>)}
Loops(s, t) == Block(<<While(2, Block(<<s, While(2, Block(<<t, If(TRUE, <<s>>)>>)), t>>)), t>>)
Bodies == UNION {InContext(s) : s \in Basic \cup Illegal} \cup {Loops(s, t) : s \in Short \cup Plains, t \in Short \cup Plains}
          \cup {Block(<<[k |-> "init", stmts |-> <<Exps("decl", <<x>>), s>>], t>>) : s \in Short, t \in Plains}

Template(b) == [kind |-> "template", mainAnonymous |-> FALSE, body |-> Located(b, << >>)]
ProgramsDef == {Template(b) : b \in Bodies}
               \cup {[Template(Block(<<s>>)) EXCEPT !.kind = "function"] : s \in Basic}
               \cup {[Template(Block(<<s>>)) EXCEPT !.mainAnonymous = TRUE] : s \in Plains}

\* Tuples whose later elements are anonymous components that read what the
\* earlier elements assign.
OrderPrograms == {Template(Block(<<Mult(Tuple(<<u, v>>), "=", Tuple(<<Num(1), e>>))>>)) : e \in {Plus(u, x), A(u, x)}}

\* Anonymous components under parallel, with others inside.
ParallelPrograms == {Template(Block(<<Assign("u", "<==", Parallel(e))>>)) :
                        e \in {A(A(x, y), y), Anon("A", <<A(x, y)>>, <<x, y>>, << >>)}}

-----------------------------------------------------------------------------
(* Projects and texts.                                                     *)
Cases == INSTANCE MCProgramFiles

MCProjects == Cases!MCProjects
MCDirs == Cases!MCDirs
MCCanonicalDir == Cases!MCCanonicalDir
FullGiven == Cases!FullGiven
MCLibraries == Cases!MCLibraries
MCCompilerVersion == Cases!MCCompilerVersion
MCWithExtension == Cases!MCWithExtension

LengthBound == 6
MCTexts == UNION {[1..n -> {"slash", "star", "newline", "other", "wide"}] : n \in 0..LengthBound}

-----------------------------------------------------------------------------
(* One pass in each behaviour.                                             *)
Reading == INSTANCE ProgramFiles
Blanking == INSTANCE Comments WITH result <- blanked

ASSUME Reading!DirsAssumption

sugarVars == vars
readingVars == <<project, stack, black, location, library, nodes, adjacency, gatesNodes,
                 mains, definitions, warnings, includes, result, reported>>
blankingVars == <<text, read, state, pp, loc, block_start, blanked>>
frontVars == <<running, sugarVars, readingVars, blankingVars>>

Off == "off"
SugarOff == program = Off /\ phase = Off /\ body = Off
ReadingOff ==
    /\ project = Off /\ stack = Off /\ black = Off /\ location = Off /\ library = Off
    /\ nodes = Off /\ adjacency = Off /\ gatesNodes = Off /\ mains = Off
    /\ definitions = Off /\ warnings = Off /\ includes = Off /\ result = Off
    /\ reported = Off
BlankingOff ==
    /\ text = Off /\ read = Off /\ state = Off /\ pp = Off /\ loc = Off
    /\ block_start = Off /\ blanked = Off

FrontInit ==
    \/ running = "reading" /\ Reading!Init /\ SugarOff /\ BlankingOff
    \/ running = "blanking" /\ Blanking!Init /\ SugarOff /\ ReadingOff
    \/ running = "sugar" /\ Init /\ ReadingOff /\ BlankingOff

ReadingStep ==
    running = "reading" /\ Reading!Next /\ UNCHANGED <<running, sugarVars, blankingVars>>
BlankingStep ==
    running = "blanking" /\ Blanking!Next /\ UNCHANGED <<running, sugarVars, readingVars>>
SugarStep ==
    running = "sugar" /\ Next /\ UNCHANGED <<running, readingVars, blankingVars>>
Ended ==
    /\ running = "reading" => result # "running"
    /\ running = "blanking" => blanked # "running"
    /\ running # "sugar"
    /\ UNCHANGED frontVars

FrontNext == ReadingStep \/ BlankingStep \/ SugarStep \/ Ended

\* One thread runs the pass to its end.
FrontSpec == FrontInit /\ [][FrontNext]_frontVars /\ WF_frontVars(ReadingStep)

-----------------------------------------------------------------------------
\* run_parser: a file is read once, whatever files include it and in whatever
\* order; when the reading ends the files read are the ones the main file
\* reaches through includes; the files reported for the custom templates pragma
\* are exactly the ones that lack it; and a project is accepted exactly when its
\* includes, pragmas, names and its main component allow it.
FilesReadRight ==
    running = "reading" =>
        /\ Reading!TypeOK
        /\ Reading!ReadOnce
        /\ Reading!ReadsTheNeeded
        /\ Reading!ReportsTheLacking
        /\ Reading!AcceptedRight

\* The reading ends although files may include each other in a circle.
ReadingEnds == running = "reading" ~> result # "running"

\* preprocess: what the parser gets is the file with its comments blanked, byte
\* for byte, every place of the output is a place of the file at every step, and
\* a file is refused exactly when its last comment has no end.
CommentsBlanked ==
    running = "blanking" =>
        /\ Blanking!TypeOK
        /\ Blanking!SamePlaces
        /\ Blanking!CommentsBlanked
        /\ Blanking!RefusedRight

\* apply_syntactic_sugar: a body is accepted exactly when anonymous components
\* and tuples stand where they may and match their templates; an accepted body
\* has none of them left, executes the same assignments and logs with the same
\* values in the same order, and creates the same components with the same
\* inputs, one for each time an anonymous component is reached in any nesting of
\* loops.
SugarRemoved ==
    running = "sugar" => TypeOK /\ NothingLeft /\ AcceptedIffLegal /\ SameMeaning
=============================================================================
