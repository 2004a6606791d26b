------------------------- MODULE MCWitnessThreads -------------------------
(* Circuits for WitnessThreads.  c1 is the main component.                 *)
EXTENDS WitnessThreads, TLC

Do(op, c) == [op |-> op, cmp |-> c, out |-> 0]
Load(c, o) == [op |-> "load", cmp |-> c, out |-> o]
Out(o) == [op |-> "output", out |-> o]

\* c1 has two parallel subcomponents: c2, with two inputs and two outputs and a
\* parallel subcomponent c4 of its own, and c3; c5 is a plain subcomponent of c3.
FiveComps == 1..5
FiveFather == <<1, 1, 1, 2, 3>>
FiveParallel == <<FALSE, TRUE, TRUE, TRUE, FALSE>>
FiveOutputs == <<1, 2, 1, 1, 1>>
FiveBody ==
  << <<Do("create", 2), Do("create", 3), Do("input", 2), Do("input", 3), Do("input", 2),
       Load(3, 1), Load(2, 1), Load(2, 2), Out(1)>>,
     <<Do("create", 4), Out(1), Do("input", 4), Load(4, 1), Out(2)>>,
     <<Do("create", 5), Do("input", 5), Load(5, 1), Out(1)>>,
     <<Out(1)>>,
     <<Out(1)>> >>

\* The same circuit with a main component that is parallel.
FiveParallelMain == <<TRUE, TRUE, TRUE, TRUE, FALSE>>

\* c2 is parallel and has no input; a second instance of its template is not, so
\* that X_run exists.
SourceComps == 1..3
SourceFather == <<1, 1, 1>>
SourceParallel == <<FALSE, TRUE, FALSE>>
SourceOutputs == <<1, 1, 1>>
SourceBody ==
  << <<Do("create", 2), Do("create", 3), Load(3, 1), Load(2, 1), Out(1)>>,
     <<Out(1)>>, <<Out(1)>> >>

\* A chain: c2 starts c3, whose output it does not read (c3 only checks), and c3
\* reads the output of c4.
ChainComps == 1..4
ChainFather == <<1, 1, 2, 3>>
ChainParallel == <<FALSE, TRUE, TRUE, TRUE>>
ChainOutputs == <<1, 1, 0, 1>>
ChainBody ==
  << <<Do("create", 2), Do("input", 2), Load(2, 1), Out(1)>>,
     <<Do("create", 3), Do("input", 3), Out(1)>>,
     <<Do("create", 4), Do("input", 4), Load(4, 1)>>,
     <<Out(1)>> >>
=============================================================================
