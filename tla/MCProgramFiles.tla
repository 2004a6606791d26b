---------------------------- MODULE MCProgramFiles ----------------------------
(* Small projects for ProgramFiles: a main file and an "a" in src, another *)
(* "a" and a "b" in the library lib; "." is another way to write src.      *)
EXTENDS Naturals, Sequences, TLC

MCDirs == {"src", "lib", "."}
MCCanonicalDir == [d \in MCDirs |-> IF d = "." THEN "src" ELSE d]
FullGiven == <<"src", "main">>
RelativeGiven == <<".", "main">>
MCLibraries == <<"lib">>
MCCompilerVersion == <<2, 1, 3>>
MCWithExtension == [n \in {"main", "a", "b", "c", "b.circom"} |->
                       IF n = "b" THEN "b.circom" ELSE n]

main == <<"src", "main">>
near == <<"src", "a">>
far == <<"lib", "a">>
base == <<"lib", "b">>
All == {main, near, far, base}

GatesPragma == <<"custom_templates">>

Def(kind, name, custom) == [kind |-> kind, name |-> name, custom |-> custom]
Plain == [readable |-> TRUE, pragmas |-> <<<<2, 1, 0>>>>, includes |-> <<>>,
          definitions |-> <<>>, main |-> FALSE]
NameOf == main :> "M" @@ near :> "N" @@ far :> "F" @@ base :> "B"

\* what the files include: circles, diamonds, names in two directories
Followed == {<<>>, <<"b">>, <<"a", "b">>, <<"b", "a">>}
Graphs == [{main, near, base} -> Followed \cup {<<"main">>}]
Shape(g) == [f \in All |-> IF f = far THEN <<"b", "a">> ELSE g[f]]

WithPragma(f, pragmas) == IF f \in pragmas THEN <<<<2, 0, 6>>, GatesPragma>>
                          ELSE <<<<2, 1, 0>>>>
Gates ==
    {[f \in All |-> [Plain EXCEPT !.includes = Shape(g)[f],
                                  !.pragmas = WithPragma(f, pragmas),
                                  !.main = f = main,
                                  !.definitions = <<Def("template", NameOf[f], f \in declares)>>]] :
       g \in Graphs, pragmas \in SUBSET {main, near, base},
       declares \in {{}, {base}, {main, near}}}

\* one project in which two files have any of these contents
Contents ==
    {[Plain EXCEPT !.pragmas = p] :
        p \in {<<>>, <<GatesPragma>>, <<<<2, 1, 4>>>>, <<<<2, 1, 3>>>>, <<<<1, 9, 9>>>>,
               <<<<3, 0, 0>>>>, <<<<2, 0, 5>>, GatesPragma>>,
               <<<<2, 0, 6>>, GatesPragma>>, <<GatesPragma, GatesPragma>>,
               <<<<2, 0, 0>>, <<2, 0, 0>>>>}}
    \cup {[Plain EXCEPT !.definitions = d] :
            d \in {<<Def("template", "T", FALSE)>>, <<Def("function", "T", FALSE)>>,
                   <<Def("bus", "T", FALSE), Def("bus", "U", FALSE)>>,
                   <<Def("bus", "U", FALSE), Def("function", "U", FALSE)>>}}
    \cup {[Plain EXCEPT !.readable = FALSE], [Plain EXCEPT !.main = TRUE],
          [Plain EXCEPT !.includes = <<"c">>]}
Mixed ==
    {[f \in All |-> CASE f = main -> [one EXCEPT !.includes = @ \o <<"a", "b">>, !.main = ~@]
                      [] f = base -> other
                      [] OTHER -> Plain] : one, other \in Contents}

MCProjects == Gates \cup Mixed

\* the main file is included by a file it includes
Circle ==
    {[f \in All |-> CASE f = main -> [Plain EXCEPT !.includes = <<"a">>, !.main = TRUE]
                      [] f = near -> [Plain EXCEPT !.includes = <<"main">>]
                      [] OTHER -> Plain]}

\* an include without the extension of the file
NoExtension ==
    {[f \in {main, <<"src", "b.circom">>} |->
        IF f = main THEN [Plain EXCEPT !.includes = <<"b">>, !.main = TRUE] ELSE Plain]}
=============================================================================
