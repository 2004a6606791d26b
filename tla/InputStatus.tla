---------------------------- MODULE InputStatus ----------------------------
(***************************************************************************)
(* When is a subcomponent run?  Its code reads all its inputs, so it must  *)
(* be run by the store that gives it the last one.  The compiler visits    *)
(* the code of a template from its end (build_inputs_info.rs) and marks    *)
(* every store to an input of a subcomponent with a status: Last (run),    *)
(* NoLast (do not run) or Unknown (run if inputCounter reaches zero), and  *)
(* with whether the counter must be decremented at all.  The C++ code      *)
(* obeys the marks; with the sanity checks of level 2 it also decrements   *)
(* always and asserts; the WASM code ignores them and counts.              *)
(*                                                                         *)
(* A template is a list of stores, branches and loops.  Loops and branches *)
(* on known values are not unrolled in the code, so one store may be       *)
(* executed any number of times: a run of the model picks an execution and *)
(* gives every component as many inputs as the execution stores, which is  *)
(* what the earlier phases guarantee.  A store writes an array of inputs,  *)
(* of a size that may be zero and, in an array of different components,    *)
(* depend on the component.                                                *)
(***************************************************************************)
EXTENDS Integers, Sequences, FiniteSets, SequencesExt

CONSTANTS
  Bodies,     \* the templates
  Positions,  \* Positions[n]: the subcomponents of the array named n
  MaxLoop     \* a loop is executed at most so often

VARIABLES
  phase,      \* "parsed", "analysed", "running"
  code,       \* the template, its stores marked once it is analysed
  trace,      \* the stores the execution still has to do
  total,      \* number_of_inputs of each subcomponent
  given,      \* how many inputs of each were stored
  counter,    \* inputCounter of each, per kind of code
  runs,       \* how often each was run, per kind of code
  early,      \* subcomponents run before all their inputs were stored
  failed      \* an assert of the sanity checks failed

vars == <<phase, code, trace, total, given, counter, runs, early, failed>>

Kinds == {"c", "checked", "wasm"}

\* A store to an input of subcomponent cmp (its number) of the array named name;
\* cmp is Unknown when the position is only known at execution.  An anonymous
\* component has a name of its own and is stored to in one place; in a loop it
\* stands for an array, one subcomponent cmp + k for the k-th round.  sizes[x] is
\* how many inputs of subcomponent x the store gives; source: the size of what is
\* stored, which may be Varies, or Called when a function writes it.
Unknown == 0
Varies == -1
Called == -2
Store(name, cmp, anonymous, sizes, source) ==
  [op |-> "store", name |-> name, cmp |-> cmp, anonymous |-> anonymous,
   sizes |-> sizes, source |-> source, status |-> "Unknown", decrement |-> TRUE]
\* What is stored has the size of the inputs of x.
Fits(s, x) == s.source \in {Varies, Called, s.sizes[x]}
\* SizeOption::Single(0): it is zero for all of them.
SingleZero(s) == \A x \in DOMAIN s.sizes : s.sizes[x] = 0
\* How many inputs an executed store gives its subcomponent.
Size(s) == s.sizes[s.cmp]
Branch(then, else) == [op |-> "branch", then |-> then, else |-> else]
Loop(body) == [op |-> "loop", body |-> body]

-----------------------------------------------------------------------------
(* The analysis.                                                           *)

\* What is known of the stores that come later: info[x] for a subcomponent (or
\* an anonymous array) is "none", "last" (the last store is found), "lastcounted"
\* (found, but earlier stores must decrement) or "open" (not found yet).
\* unknown: the arrays with a store to an unknown position; level: the
\* subcomponents with an open store later in the same list.
Fresh == [info |-> [x \in {} |-> "none"], unknown |-> {}, level |-> {}]

InfoOf(st, x) == IF x \in DOMAIN st.info THEN st.info[x] ELSE "none"
Learn(st, x, v) ==
  [st EXCEPT !.info = [y \in DOMAIN @ \cup {x} |-> IF y = x THEN v ELSE @[y]]]
Mark(s, status, dec, st) ==
  [code |-> [s EXCEPT !.status = status, !.decrement = dec], st |-> st]

\* A store to an anonymous component: all its inputs are stored together.
VisitAnonymous(s, st) ==
  IF InfoOf(st, s.cmp) # "none" THEN Mark(s, "NoLast", FALSE, st)
  ELSE Mark(s, "Last", FALSE, Learn(st, s.cmp, "last"))

\* (a fault: the last store of a list that may be skipped counts as the last one)
VisitFirstCertain(s, st, inside) ==
  IF s.name \notin st.unknown
  THEN Mark(s, "Last", FALSE, Learn(st, s.cmp, "last"))
  ELSE Mark(s, "Unknown", TRUE, Learn(st, s.cmp, IF inside THEN "open" ELSE "lastcounted"))

\* The last store in the code to a subcomponent whose position is known.
VisitFirst(s, st, inside) ==
  IF inside
  THEN Mark(s, "Unknown", TRUE, [Learn(st, s.cmp, "open") EXCEPT !.level = @ \cup {s.cmp}])
  ELSE IF s.name \in st.unknown
       THEN Mark(s, "Unknown", TRUE, Learn(st, s.cmp, "lastcounted"))
       ELSE Mark(s, "Last", FALSE, Learn(st, s.cmp, "last"))

\* (a fault: an earlier store at the same level may run the subcomponent too, and
\* the store that closes the search decrements without looking at the counter)
VisitEarlierClosed(s, st, inside) ==
  CASE InfoOf(st, s.cmp) = "last" -> Mark(s, "NoLast", FALSE, st)
    [] InfoOf(st, s.cmp) = "lastcounted" -> Mark(s, "NoLast", TRUE, st)
    [] OTHER -> IF inside THEN Mark(s, "Unknown", TRUE, st)
                ELSE Mark(s, "NoLast", TRUE, Learn(st, s.cmp, "lastcounted"))

\* A store to a subcomponent with a later one.  A store that is always executed
\* closes an open search, and those before it cannot be the last.
VisitEarlier(s, st, inside) ==
  CASE InfoOf(st, s.cmp) = "last" -> Mark(s, "NoLast", FALSE, st)
    [] InfoOf(st, s.cmp) = "lastcounted" -> Mark(s, "NoLast", TRUE, st)
    [] s.cmp \in st.level -> Mark(s, "NoLast", TRUE, st)
    [] inside /\ s.cmp \notin st.level ->
         Mark(s, "Unknown", TRUE, [st EXCEPT !.level = @ \cup {s.cmp}])
    [] OTHER -> Mark(s, "Unknown", TRUE, Learn(st, s.cmp, "lastcounted"))

\* A store to a position that is only known at execution.
VisitUnknown(s, st) == Mark(s, "Unknown", TRUE, [st EXCEPT !.unknown = @ \cup {s.name}])

VisitAddress(s, st, inside) ==
  CASE s.anonymous -> VisitAnonymous(s, st)
    [] s.cmp = Unknown -> VisitUnknown(s, st)
    [] InfoOf(st, s.cmp) = "none" -> VisitFirst(s, st, inside)
    [] OTHER -> VisitEarlier(s, st, inside)

\* A store, or a call that stores its result: one of size zero is passed over and
\* keeps the mark it was made with.
VisitStore(s, st, inside) ==
  IF SingleZero(s) THEN [code |-> s, st |-> st] ELSE VisitAddress(s, st, inside)

\* The instructions of a list, from the last to the first; every list has a level
\* of its own, and what a branch or a loop holds may be skipped.
RECURSIVE VisitList(_, _, _)
VisitInstruction(i, st, inside) ==
  CASE i.op = "store" -> VisitStore(i, st, inside)
    [] i.op = "branch" ->
         LET t == VisitList(i.then, [st EXCEPT !.level = {}], TRUE)
             e == VisitList(i.else, [t.st EXCEPT !.level = {}], TRUE)
         IN [code |-> Branch(t.code, e.code), st |-> [e.st EXCEPT !.level = st.level]]
    [] i.op = "loop" ->
         LET b == VisitList(i.body, [st EXCEPT !.level = {}], TRUE)
         IN [code |-> Loop(b.code), st |-> [b.st EXCEPT !.level = st.level]]

VisitList(list, st, inside) ==
  IF list = <<>> THEN [code |-> <<>>, st |-> st]
  ELSE LET last == VisitInstruction(list[Len(list)], st, inside)
           rest == VisitList(SubSeq(list, 1, Len(list) - 1), last.st, inside)
       IN [code |-> Append(rest.code, last.code), st |-> rest.st]

-----------------------------------------------------------------------------
(* The executions of a template: sequences of stores with their positions. *)

RECURSIVE Traces(_, _)
Concat(A, B) == {a \o b : a \in A, b \in B}

InstructionTraces(i, round) ==
  CASE i.op = "store" ->
         IF i.anonymous THEN {<<[i EXCEPT !.cmp = i.cmp + round]>>}
         ELSE {<<[i EXCEPT !.cmp = c]>> :
                 c \in {x \in IF i.cmp = Unknown THEN Positions[i.name] ELSE {i.cmp} : Fits(i, x)}}
    [] i.op = "branch" -> Traces(i.then, round) \cup Traces(i.else, round)
    [] i.op = "loop" ->
         LET once(k) == Traces(i.body, k)
             upto[n \in 0..MaxLoop] == IF n = 0 THEN {<<>>} ELSE Concat(upto[n - 1], once(n))
         IN UNION {upto[n] : n \in 0..MaxLoop}

Traces(list, round) ==
  IF list = <<>> THEN {<<>>}
  ELSE Concat(InstructionTraces(Head(list), round), Traces(Tail(list), round))

Stored(t, x) == FoldLeft(LAMBDA n, s : IF s.cmp = x THEN n + Size(s) ELSE n, 0, t)
Targets(t) == {t[k].cmp : k \in 1..Len(t)}

-----------------------------------------------------------------------------
(* The phases.                                                             *)

Init ==
  /\ phase = "parsed" /\ code \in Bodies /\ trace = <<>>
  /\ total = <<>> /\ given = <<>> /\ counter = <<>> /\ runs = <<>>
  /\ early = {} /\ failed = FALSE

Analyse ==
  /\ phase = "parsed" /\ phase' = "analysed"
  /\ code' = VisitList(code, Fresh, FALSE).code
  /\ UNCHANGED <<trace, total, given, counter, runs, early, failed>>

\* X_create sets inputCounter to the number of inputs of the template; a
\* subcomponent without inputs is run there by the C++ code.
Start ==
  /\ phase = "analysed" /\ phase' = "running"
  /\ \E t \in Traces(code, 0) :
       /\ trace' = t
       /\ total' = [x \in Targets(t) |-> Stored(t, x)]
       /\ given' = [x \in Targets(t) |-> 0]
       /\ counter' = [x \in Targets(t) |-> [k \in Kinds |-> Stored(t, x)]]
       /\ runs' = [x \in Targets(t) |-> [k \in Kinds |-> IF Stored(t, x) = 0 /\ k # "wasm" THEN 1 ELSE 0]]
  /\ UNCHANGED <<code, early, failed>>

\* What one store does to the counter n of its subcomponent.
Outcome(n, run, ok) == [counter |-> n, run |-> run, ok |-> ok]

\* The C++ code without the checks: only the marks are obeyed.
Plain(s, n) ==
  CASE s.status = "NoLast" -> Outcome(IF s.decrement THEN n - Size(s) ELSE n, FALSE, TRUE)
    [] s.status = "Unknown" -> Outcome(n - Size(s), n = Size(s), TRUE)
    [] s.status = "Last" -> Outcome(n, TRUE, TRUE)

\* (a fault: the checked code decrements only where the plain code does)
CheckedMarked(s, n) ==
  CASE s.status = "NoLast" -> Outcome(IF s.decrement THEN n - Size(s) ELSE n, FALSE, n > Size(s))
    [] s.status = "Unknown" -> Outcome(n - Size(s), n = Size(s), TRUE)
    [] s.status = "Last" -> Outcome(n - Size(s), TRUE, n = Size(s))

\* The C++ code with sanity_check_style 2: always decremented, and asserted.
Checked(s, n) ==
  CASE s.status = "NoLast" -> Outcome(n - Size(s), FALSE, n > Size(s))
    [] s.status = "Unknown" -> Outcome(n - Size(s), n = Size(s), TRUE)
    [] s.status = "Last" -> Outcome(n - Size(s), TRUE, n = Size(s))

\* (a fault: the size of the store is taken off twice)
WasmTwice(s, n) == Outcome(n - 2 * Size(s), n = 2 * Size(s), TRUE)

\* The WASM code: decrement, then run when zero is reached; a store that no
\* function writes has no code when either size is known to be zero.
Wasm(s, n) ==
  IF s.source # Called /\ (SingleZero(s) \/ s.source = 0) THEN Outcome(n, FALSE, TRUE)
  ELSE Outcome(n - Size(s), n = Size(s), TRUE)

OutcomeOf(kind, s, n) ==
  IF kind = "c" THEN Plain(s, n) ELSE IF kind = "checked" THEN Checked(s, n) ELSE Wasm(s, n)

Execute ==
  /\ phase = "running" /\ trace # <<>>
  /\ LET s == Head(trace)
         x == s.cmp
         out == [k \in Kinds |-> OutcomeOf(k, s, counter[x][k])]
     IN /\ given' = [given EXCEPT ![x] = @ + Size(s)]
        /\ counter' = [counter EXCEPT ![x] = [k \in Kinds |-> out[k].counter]]
        /\ runs' = [runs EXCEPT ![x] = [k \in Kinds |-> @[k] + IF out[k].run THEN 1 ELSE 0]]
        /\ early' = early \cup {k \in Kinds : out[k].run /\ given[x] + Size(s) < total[x]}
        /\ failed' = (failed \/ \E k \in Kinds : ~ out[k].ok)
  /\ trace' = Tail(trace)
  /\ UNCHANGED <<phase, code, total>>

Finished == phase = "running" /\ trace = <<>> /\ UNCHANGED vars

Next == Analyse \/ Start \/ Execute \/ Finished

Spec == Init /\ [][Next]_vars

-----------------------------------------------------------------------------
(* Properties.                                                             *)

\* The shape of the state; an inputCounter is unsigned and never wraps.
TypeOK ==
  /\ phase \in {"parsed", "analysed", "running"}
  /\ failed \in BOOLEAN /\ early \subseteq Kinds
  /\ \A x \in DOMAIN counter : \A k \in Kinds : counter[x][k] \in 0..total[x]

\* No subcomponent is run while one of its inputs has no value.
RunsWithAllInputs == early = {}

\* The template has a store that may go to x and gives it nothing.
RECURSIVE StoresOf(_)
StoresOf(list) ==
  UNION {LET i == list[k] IN
           CASE i.op = "store" -> {i}
             [] i.op = "branch" -> StoresOf(i.then) \cup StoresOf(i.else)
             [] i.op = "loop" -> StoresOf(i.body) : k \in 1..Len(list)}
Reaches(s, x) == x \in DOMAIN s.sizes /\ (s.cmp \in {Unknown, x} \/ s.anonymous)
ZeroStored(x) == \E s \in StoresOf(code) : Reaches(s, x) /\ s.sizes[x] = 0

\* The store of the last input runs the subcomponent, and no store runs it again:
\* the next statement may already load an output.  Of a subcomponent with a store
\* of size zero this cannot be said.
RunsAtLastInput ==
  \A x \in DOMAIN total : given[x] = total[x] /\ ~ ZeroStored(x) => \A k \in Kinds : runs[x][k] = 1

\* The asserts the checked code makes on the counters hold, also the one at the
\* end of the template that every counter is zero; those of a store only when no
\* store has size zero.
AssertsHold ==
  /\ failed => \E x \in DOMAIN total : ZeroStored(x)
  /\ phase = "running" /\ trace = <<>> =>
       \A x \in DOMAIN counter : counter[x]["checked"] = 0

\* What the code does not keep: no store runs a subcomponent again, and the
\* asserts hold, whatever the sizes of the stores.
RunsOnce == \A x \in DOMAIN total : total[x] > 0 => runs[x]["c"] <= 1
NoAssertFails == ~ failed
=============================================================================
