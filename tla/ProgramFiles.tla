----------------------------- MODULE ProgramFiles -----------------------------
(***************************************************************************)
(* How circom reads a project (run_parser): from the main file it follows  *)
(* the includes with a stack of paths, reads each file, checks its         *)
(* pragmas, remembers who includes whom, and at the end checks that there  *)
(* is one main component, that every file that reaches a custom template   *)
(* has the pragma for it, and that no name is defined twice.               *)
(*                                                                         *)
(* A path is a pair of a directory and a name.  A directory may be written *)
(* in more than one way ("." and its full name): CanonicalDir is the full  *)
(* one, which std::fs::canonicalize returns.                               *)
(***************************************************************************)
EXTENDS Naturals, FiniteSets, Sequences, SequencesExt

CONSTANTS Projects,        \* what can be on disk: files and their contents
          Dirs, CanonicalDir,
          Given,           \* the main file, as written on the command line
          Libraries,       \* the directories given with -l
          CompilerVersion,
          WithExtension    \* a name of an include, with the extension .circom

DirsAssumption ==
    /\ CanonicalDir \in [Dirs -> Dirs]
    /\ \A d \in Dirs : CanonicalDir[CanonicalDir[d]] = CanonicalDir[d]
    /\ Given[1] \in Dirs
    /\ \A i \in 1..Len(Libraries) : Libraries[i] \in Dirs

VARIABLES project,      \* the files on disk: a function from canonical paths
          stack, black, location,            \* FileStack
          library,                           \* the FileLibrary, as paths
          nodes, adjacency, gatesNodes,      \* IncludesGraph
          mains, definitions, warnings,
          includes,     \* the includes of the last file that are still to follow
          result,       \* "running", "accepted" or the error
          reported      \* the files reported as lacking the custom templates pragma

fileStack == <<stack, black, location>>
graph == <<nodes, adjacency, gatesNodes>>
vars == <<project, fileStack, library, graph, mains, definitions, warnings,
          includes, result, reported>>

Files == DOMAIN project
NoVersion == <<>>
GatesPragma == <<"custom_templates">>

-----------------------------------------------------------------------------
(* Paths on disk.                                                          *)
Canonical(path) == <<CanonicalDir[path[1]], path[2]>>
IsFile(path) == Canonical(path) \in Files
Content(path) == project[Canonical(path)]

-----------------------------------------------------------------------------
(* The pragmas of a file (AST::new).                                       *)
Versions(content) == SelectSeq(content.pragmas, LAMBDA p : p # GatesPragma)
HasGatesPragma(content) == Contains(content.pragmas, GatesPragma)
Version(content) ==
    IF Versions(content) = <<>> THEN NoVersion ELSE Head(Versions(content))
DeclaresGate(content) ==
    \E i \in 1..Len(content.definitions) : content.definitions[i].custom

\* a second pragma of one kind is an error of parse_file
MultiplePragma(content) ==
    \/ Len(Versions(content)) > 1
    \/ Len(SelectSeq(content.pragmas, LAMBDA p : p = GatesPragma)) > 1

\* (a fault: the order of all three numbers, as for other programs)
AnyMajor(required) ==
    \/ required[1] < CompilerVersion[1]
    \/ required[2] < CompilerVersion[2]
    \/ required[2] = CompilerVersion[2] /\ required[3] =< CompilerVersion[3]

\* check_number_version
CompilerFits(required) ==
    /\ required[1] = CompilerVersion[1]
    /\ \/ required[2] < CompilerVersion[2]
       \/ required[2] = CompilerVersion[2] /\ required[3] =< CompilerVersion[3]

\* check_custom_gates_version
CustomGatesVersion == <<2, 0, 6>>
TooOldForGates(v) ==
    \/ v[1] < CustomGatesVersion[1]
    \/ v[1] = CustomGatesVersion[1] /\ v[2] < CustomGatesVersion[2]
    \/ /\ v[1] = CustomGatesVersion[1]
       /\ v[2] = CustomGatesVersion[2]
       /\ v[3] < CustomGatesVersion[3]
GatesVersionFails(content) ==
    /\ HasGatesPragma(content)
    /\ TooOldForGates(IF Version(content) = NoVersion THEN CompilerVersion
                      ELSE Version(content))

-----------------------------------------------------------------------------
(* The graph of includes: adjacency leads from a path to the nodes of the  *)
(* files that include it.                                                  *)
EdgesOf(path) == IF path \in DOMAIN adjacency THEN ToSet(adjacency[path]) ELSE {}

\* The nodes at which the paths of traverse end: it follows every path that
\* takes no edge twice, so it comes to each node that can be reached.
Traverse(from) ==
    LET reached[n \in 0..Len(nodes)] ==
          IF n = 0 THEN {from}
          ELSE LET before == reached[n - 1]
               IN  before \cup UNION {EdgesOf(nodes[k].path) : k \in before}
    IN  reached[Len(nodes)]

\* (a fault: the includers of the first file that declares a custom template)
OnlyFirst == IF gatesNodes = <<>> THEN {} ELSE Traverse(Head(gatesNodes))

\* get_problematic_paths, by the last file of each path
Reached == UNION {Traverse(n) : n \in ToSet(gatesNodes)}
ProblematicPaths == {nodes[n].path : n \in {k \in Reached : ~nodes[k].pragma}}

-----------------------------------------------------------------------------
(* FileStack                                                               *)

\* (a fault: the libraries come before the directory of the including file)
LibrariesFirst(name) ==
    LET dirs == Libraries \o <<location>>
        found == {i \in 1..Len(dirs) : IsFile(<<dirs[i], name>>)}
    IN  IF found = {} THEN <<>>
        ELSE Canonical(<<dirs[CHOOSE i \in found : \A j \in found : i =< j], name>>)

\* the file add_include finds for a name: <<>> when there is none
Include(name) ==
    LET dirs == <<location>> \o Libraries
        found == {i \in 1..Len(dirs) : IsFile(<<dirs[i], name>>)}
    IN  IF found = {} THEN <<>>
        ELSE Canonical(<<dirs[CHOOSE i \in found : \A j \in found : i =< j], name>>)

\* what take_next leaves on the stack, with the path to read on top: it drops
\* the paths it already gave out
RECURSIVE DropBlack(_)
DropBlack(paths) ==
    IF paths # <<>> /\ Last(paths) \in black THEN DropBlack(Front(paths)) ELSE paths

\* (a fault: a path that is twice on the stack is read twice)
DropNothing == stack

\* (a fault: the includes of a file are looked for beside the main file)
DirOfMain(path) == Given[1]

\* (a fault: the directory is dropped from the path, and the name is left)
NameOnly(path) == path[2]

DirOf(path) == path[1]
Remaining == DropBlack(stack)

\* (a fault: a path that was already given out stays on the stack, and
\* take_next looks at it for ever)
StackEmpty == stack = <<>>

\* take_next gives None
NothingLeft == Remaining = <<>>

-----------------------------------------------------------------------------
Init ==
    /\ project \in Projects
    /\ stack = <<Given>> /\ black = {} /\ location = Given[1]
    /\ library = <<>>
    /\ nodes = <<>> /\ adjacency = <<>> /\ gatesNodes = <<>>
    /\ mains = <<>> /\ definitions = <<>> /\ warnings = <<>>
    /\ includes = <<>>
    /\ result = "running"
    /\ reported = {}

\* open_file fails, or parse_file reports errors
ReadFails(path) ==
    /\ result' = IF ~IsFile(path) \/ ~Content(path).readable THEN "FileOs"
                 ELSE "MultiplePragma"
    /\ UNCHANGED <<library, graph, mains, definitions, includes>>

ReadSucceeds(path) ==
    /\ library' = Append(library, path)
    /\ mains' = IF Content(path).main THEN Append(mains, Len(library)) ELSE mains
    /\ nodes' = Append(nodes, [path |-> path, pragma |-> HasGatesPragma(Content(path))])
    /\ gatesNodes' = IF DeclaresGate(Content(path)) THEN Append(gatesNodes, Len(nodes'))
                     ELSE gatesNodes
    /\ definitions' = Append(definitions, Content(path).definitions)
    /\ includes' = Content(path).includes
    /\ UNCHANGED <<adjacency, result>>

\* the checks that close the turn of a file, before the next path is taken
TurnEnds == includes = <<>> /\ (library = <<>> \/ Len(warnings) = Len(library))

\* take_next gives a path: it is read and parsed
TakeNext ==
    /\ result = "running" /\ TurnEnds
    /\ Remaining # <<>>
    /\ LET path == Last(Remaining)
           readable == IsFile(path) /\ Content(path).readable
       IN  /\ stack' = Front(Remaining)
           /\ location' = DirOf(path)
           /\ black' = black \cup {path}
           /\ IF readable /\ ~MultiplePragma(Content(path))
              THEN ReadSucceeds(path) ELSE ReadFails(path)
    /\ UNCHANGED <<project, warnings, reported>>

\* (a fault: the edge leads to the file that will be read next)
EdgeToNext(path) ==
    adjacency' = [p \in {path} \cup DOMAIN adjacency |->
        (IF p \in DOMAIN adjacency THEN adjacency[p] ELSE <<>>)
        \o (IF p = path THEN <<Len(nodes) - 1>> ELSE <<>>)]

AddEdge(path) ==
    adjacency' = [p \in {path} \cup DOMAIN adjacency |->
        (IF p \in DOMAIN adjacency THEN adjacency[p] ELSE <<>>)
        \o (IF p = path THEN <<Len(nodes)>> ELSE <<>>)]

\* one include of the file: add_include and add_edge
AddInclude ==
    /\ result = "running" /\ includes # <<>>
    /\ LET path == Include(Head(includes))
       IN  IF path = <<>>
           THEN result' = "IncludeNotFound" /\ UNCHANGED <<stack, adjacency, includes>>
           ELSE /\ stack' = IF path \in black THEN stack ELSE Append(stack, path)
                /\ AddEdge(path)
                /\ includes' = Tail(includes)
                /\ UNCHANGED result
    /\ UNCHANGED <<project, black, location, library, nodes, gatesNodes, mains,
                   definitions, warnings, reported>>

\* the versions the file asks for; a warning when it asks for none
CheckVersions ==
    /\ result = "running" /\ includes = <<>> /\ Len(warnings) < Len(library)
    /\ LET content == Content(Last(library))
       IN  IF Version(content) # NoVersion /\ ~CompilerFits(Version(content))
           THEN result' = "CompilerVersionError" /\ UNCHANGED warnings
           ELSE IF GatesVersionFails(content)
           THEN result' = "CustomGatesVersionError" /\ UNCHANGED warnings
           ELSE /\ warnings' = Append(warnings, Version(content) = NoVersion)
                /\ UNCHANGED result
    /\ UNCHANGED <<project, fileStack, library, graph, mains, definitions, includes,
                   reported>>

-----------------------------------------------------------------------------
(* The end: the main component, the graph of includes, and the definitions *)
(* (Merger::add_definitions, ProgramArchive::new).                         *)

\* one definition: its name may be in none of the three tables
AddDefinition(merger, definition) ==
    IF \E kind \in DOMAIN merger.info : definition.name \in merger.info[kind]
    THEN [merger EXCEPT !.duplicated = @ \cup {definition.name}]
    ELSE [merger EXCEPT !.info[definition.kind] = @ \cup {definition.name}]

NewMerger == [info |-> [kind \in {"function", "template", "bus"} |-> {}], duplicated |-> {}]

\* (a fault: functions, templates and buses have names of their own)
MergedByKind ==
    FoldLeft(LAMBDA merger, definition :
               IF definition.name \in merger.info[definition.kind]
               THEN [merger EXCEPT !.duplicated = @ \cup {definition.name}]
               ELSE [merger EXCEPT !.info[definition.kind] = @ \cup {definition.name}],
             NewMerger, FlattenSeq(definitions))

Merged == FoldLeft(AddDefinition, NewMerger, FlattenSeq(definitions))

Finish ==
    /\ result = "running" /\ TurnEnds /\ NothingLeft
    /\ stack' = <<>>
    /\ reported' = IF Len(mains) = 1 THEN ProblematicPaths ELSE {}
    /\ result' = IF Len(mains) = 0 THEN "NoMainFoundInProject"
                 ELSE IF Len(mains) > 1 THEN "MultipleMain"
                 ELSE IF reported' # {} THEN "CustomGatesPragmaError"
                 ELSE IF Merged.duplicated # {} THEN "SameSymbolDeclaredTwice"
                 ELSE "accepted"
    /\ UNCHANGED <<project, black, location, library, graph, mains, definitions,
                   warnings, includes>>

Next == TakeNext \/ AddInclude \/ CheckVersions \/ Finish

Spec == Init /\ [][Next]_vars /\ WF_vars(Next)

-----------------------------------------------------------------------------
Paths == Files \cup {Given}

\* Every variable has its type.
TypeOK ==
    /\ project \in Projects
    /\ ToSet(stack) \subseteq Paths /\ black \subseteq Paths /\ location \in Dirs
    /\ ToSet(library) \subseteq Paths
    /\ \A i \in 1..Len(nodes) : nodes[i].path \in Paths /\ nodes[i].pragma \in BOOLEAN
    /\ \A p \in DOMAIN adjacency :
          p \in Files /\ ToSet(adjacency[p]) \subseteq 1..Len(nodes)
    /\ ToSet(gatesNodes) \subseteq 1..Len(nodes)
    /\ ToSet(mains) \subseteq 0..Len(library)
    /\ result \in {"running", "accepted", "FileOs", "MultiplePragma", "IncludeNotFound",
          "CompilerVersionError", "CustomGatesVersionError", "NoMainFoundInProject",
          "MultipleMain", "CustomGatesPragmaError", "SameSymbolDeclaredTwice"}

\* What the files say of each other, without the stack: a file includes the
\* first that has the name, beside it and then in the libraries.
Included(file, name) ==
    LET dirs == SelectSeq(<<file[1]>> \o Libraries, LAMBDA d : <<CanonicalDir[d], name>> \in Files)
    IN  IF dirs = <<>> THEN {} ELSE {<<CanonicalDir[Head(dirs)], name>>}
IncludedBy(file) == UNION {Included(file, n) : n \in ToSet(project[file].includes)}
ReachedFrom(file) ==
    LET reached[n \in 0..Cardinality(Files)] ==
          IF n = 0 THEN {file}
          ELSE LET before == reached[n - 1]
               IN  before \cup UNION {IncludedBy(f) : f \in before}
    IN  reached[Cardinality(Files)]
Needed == ReachedFrom(Canonical(Given))

\* A file is read once, whatever files include it and in whatever order: the
\* program would otherwise define its templates and its main component twice
\* (black_paths of FileStack).
ReadOnce ==
    \A i, j \in 1..Len(library) :
        Canonical(library[i]) = Canonical(library[j]) => i = j

\* When the reading ends the files read are the ones the main file reaches
\* through includes, each looked for beside the file that includes it.
ReadsTheNeeded ==
    result \in {"accepted", "NoMainFoundInProject", "MultipleMain",
                "CustomGatesPragmaError", "SameSymbolDeclaredTwice"}
    => {Canonical(library[i]) : i \in 1..Len(library)} = Needed

\* A file lacks the custom templates pragma when it declares or reaches a
\* custom template and does not have it.
Lacking ==
    {f \in Needed : /\ GatesPragma \notin ToSet(project[f].pragmas)
                    /\ \E g \in ReachedFrom(f) : DeclaresGate(project[g])}

\* The files reported are the ones that lack the pragma: every one of them,
\* since the message tells the programmer where to write it.
ReportsTheLacking == result = "CustomGatesPragmaError" => reported = Lacking

\* v is not later than w.
NotLater(v, w) ==
    \/ v = w
    \/ \E i \in 1..3 : v[i] < w[i] /\ \A j \in 1..(i - 1) : v[j] = w[j]

\* A file whose pragmas let it be compiled.
WellFormed(content) ==
    LET asked == {p \in ToSet(content.pragmas) : p # GatesPragma}
    IN  /\ content.readable /\ IsInjective(content.pragmas) /\ Cardinality(asked) =< 1
        /\ \A v \in asked : v[1] = CompilerVersion[1] /\ NotLater(v, CompilerVersion)
        /\ HasGatesPragma(content) =>
              \A v \in (IF asked = {} THEN {CompilerVersion} ELSE asked) :
                  NotLater(CustomGatesVersion, v)

\* The names a set of files defines, with where.
Defined(files) ==
    UNION {{<<f, i>> : i \in 1..Len(project[f].definitions)} : f \in files}
NameAt(place) == project[place[1]].definitions[place[2]].name

\* A project is accepted exactly when its files can be: every include is
\* found, the pragmas fit the compiler, there is one main component, no file
\* lacks the custom templates pragma and no name is defined twice.
AcceptedRight ==
    result # "running" =>
    LET needed == Needed
    IN  result = "accepted" <=>
            /\ \A f \in needed : /\ WellFormed(project[f])
                                 /\ \A n \in ToSet(project[f].includes) : Included(f, n) # {}
            /\ Cardinality({f \in needed : project[f].main}) = 1
            /\ Lacking = {}
            /\ \A p, q \in Defined(needed) : NameAt(p) = NameAt(q) => p = q

\* "Multiple main components in the project structure" is said of a project
\* in which more than one file has a main component.
ManyMains ==
    result = "MultipleMain" => Cardinality({f \in Needed : project[f].main}) > 1

\* The reading ends although files may include each other in a circle.
Ends == <>(result # "running")

\* ".circom extension is the default" of an include: a file that is there
\* under the name with the extension is found.

DefaultExtension ==
    result = "IncludeNotFound" => ~IsFile(<<location, WithExtension[Head(includes)]>>)
=============================================================================
