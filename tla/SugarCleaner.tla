---------------------------- MODULE SugarCleaner ----------------------------
(***************************************************************************)
(* The last rewriting before translation (clean_sugar): nested calls,      *)
(* conditional expressions and inline arrays become assignments to fresh   *)
(* variables put before the statement that holds them, initialization      *)
(* blocks are dissolved, and what is assigned, constrained or returned     *)
(* becomes conditional statements and one assignment per element.          *)
(*                                                                         *)
(* An expression is [k, parts, dims]: a number (n), a variable (name;      *)
(* parts: its indexes), an operation (op), a call (f; parts: arguments), a  *)
(* conditional expression (parts: condition, two arms), an array, a        *)
(* uniform array (parts: value, dimension).  dims are the concrete         *)
(* dimensions of its value.  A user's name is <<"x", 0>>, a fresh one       *)
(* <<"auto", id>> or, for what is returned, <<"return", id>>.              *)
(***************************************************************************)
EXTENDS Integers, Sequences, FiniteSets, TLC, SequencesExt

CONSTANTS
    Programs,    \* sequences of bodies: those of the templates, then of the functions
    Mixed        \* the names of components whose instances are of several templates

VARIABLES program, done, body, fresh_id

vars == <<program, done, body, fresh_id>>

-----------------------------------------------------------------------------
Num(n) == [k |-> "num", n |-> n, parts |-> << >>, dims |-> << >>]
Var(name, index, dims) == [k |-> "var", name |-> name, parts |-> index, dims |-> dims]
Infix(op, a, b) == [k |-> "op", op |-> op, parts |-> <<a, b>>, dims |-> << >>]
Uniform(value, n, dims) == [k |-> "uniform", parts |-> <<value, Num(n)>>, dims |-> dims]

Sub(name, index, e) == [k |-> "sub", name |-> name, index |-> index, exps |-> <<e>>]
Decl(name, dims) == [k |-> "decl", name |-> name, dims |-> dims, exps |-> << >>]
Block(stmts) == [k |-> "block", stmts |-> stmts]
If(cond, stmts) == [k |-> "if", exps |-> <<cond>>, stmts |-> stmts]
Equal(l, r) == [k |-> "eq", exps |-> <<l, r>>]

Fresh(id) == <<"auto", id>>
ReturnName(id) == <<"return", id>>

\* Calls, conditional expressions and arrays are moved out of what holds them.
IsSugar(e) == e.k \in {"call", "switch", "array", "uniform"}

\* A result: what is left (parts or a statement), the assignments to put
\* before it, and the next fresh id.
Extracted(acc, e) ==
    IF ~ IsSugar(e) THEN [acc EXCEPT !.parts = Append(@, e)]
    ELSE [parts |-> Append(acc.parts, Var(Fresh(acc.id), << >>, e.dims)),
          inits |-> acc.inits \o <<Decl(Fresh(acc.id), e.dims), Sub(Fresh(acc.id), << >>, e)>>,
          id |-> acc.id + 1]

\* (a fault: conditional expressions stay where they are)
FilterCalls(r) ==
    FoldLeft(LAMBDA acc, e : IF e.k = "switch" THEN [acc EXCEPT !.parts = Append(@, e)] ELSE Extracted(acc, e),
             [r EXCEPT !.parts = << >>], r.parts)
Filter(r) == FoldLeft(Extracted, [r EXCEPT !.parts = << >>], r.parts)

\* The elements of an array take the dimensions of the largest of them.
Resized(dims, e) == IF IsSugar(e) THEN [e EXCEPT !.dims = dims] ELSE e
\* (a fault: an element shorter than the others is not filled up)
ZerosOfNothing(dims) == Num(0)
RECURSIVE Zeros(_)
Zeros(dims) == IF dims = << >> THEN Num(0) ELSE Uniform(Zeros(Tail(dims)), Head(dims), dims)

RECURSIVE Extend(_, _, _)

\* Each of es extended, then all of them filtered; or each filtered in turn.
Taken(acc, r) == [parts |-> Append(acc.parts, r.e), inits |-> acc.inits \o r.inits, id |-> r.id]
Joined(acc, r) == [parts |-> acc.parts \o r.parts, inits |-> acc.inits \o r.inits, id |-> r.id]
NoParts(id) == [parts |-> << >>, inits |-> << >>, id |-> id]

ExtendAll(es, id, inside) ==
    FoldLeft(LAMBDA acc, e : Taken(acc, Extend(e, acc.id, inside)), NoParts(id), es)
ExtendIndexes(es, id, inside) ==
    FoldLeft(LAMBDA acc, e : Joined(acc, Filter(Taken(NoParts(id), Extend(e, acc.id, inside)))), NoParts(id), es)

Whole(e, r) == [e |-> [e EXCEPT !.parts = r.parts], inits |-> r.inits, id |-> r.id]

\* The WASM back end cannot raise a variable or a number to itself.
Same(l, r) == \/ l.k = "var" /\ r.k = "var" /\ l.name = r.name
              \/ l.k = "num" /\ r.k = "num" /\ l.n = r.n
PowerFixed(e) ==
    IF e.op = "**" /\ Same(e.parts[1], e.parts[2]) THEN [e EXCEPT !.parts[2] = Infix("+", Num(0), @)] ELSE e
Operation(r) == IF Len(r.e.parts) = 2 THEN [r EXCEPT !.e = PowerFixed(@)] ELSE r

ExtendOperation(e, id, inside) == Operation(Whole(e, Filter(ExtendAll(e.parts, id, inside))))

\* An array shorter than its dimensions is filled up with one array of zeros.
WithZeros(parts, zeros, needed) ==
    [parts |-> parts.parts \o [i \in 1 .. needed |-> zeros.e], inits |-> parts.inits \o zeros.inits, id |-> zeros.id]
FilledUp(e, parts, inside) ==
    IF Len(e.parts) >= e.dims[1] THEN parts
    ELSE WithZeros(parts, Extend(Zeros(Tail(e.dims)), parts.id, inside), e.dims[1] - Len(e.parts))

ExtendArray(e, id, inside) ==
    Whole(e, Filter(FilledUp(e, ExtendAll([i \in DOMAIN e.parts |-> Resized(Tail(e.dims), e.parts[i])], id, inside), inside)))

\* A variable of a mixed component inside the index of another is moved out.
MovedOut(r) ==
    [e |-> Var(Fresh(r.id), << >>, r.e.dims),
     inits |-> r.inits \o <<Decl(Fresh(r.id), r.e.dims), Sub(Fresh(r.id), << >>, r.e)>>, id |-> r.id + 1]

ExtendVariable(e, id, inside) ==
    IF e.name \notin Mixed THEN Whole(e, ExtendIndexes(e.parts, id, inside))
    ELSE IF inside THEN MovedOut(Whole(e, ExtendIndexes(e.parts, id, TRUE)))
    ELSE Whole(e, ExtendIndexes(e.parts, id, TRUE))

\* The condition of a conditional expression is not looked at.
ExtendSwitch(e, id, inside) ==
    Whole(e, Joined([NoParts(id) EXCEPT !.parts = <<e.parts[1]>>], Filter(ExtendAll(Tail(e.parts), id, inside))))

Extend(e, id, inside) ==
    CASE e.k = "num" -> [e |-> e, inits |-> << >>, id |-> id]
      [] e.k = "var" -> ExtendVariable(e, id, inside)
      [] e.k = "array" -> ExtendArray(e, id, inside)
      [] e.k = "switch" -> ExtendSwitch(e, id, inside)
      [] e.k = "op" -> ExtendOperation(e, id, inside)
      [] OTHER -> Whole(e, Filter(ExtendAll(e.parts, id, inside)))

-----------------------------------------------------------------------------
(* What the statements of a block become when their expressions are done.    *)

AtIndex(index, i) == Append(index, Num(i - 1))

\* One assignment for each element of an array.
\* (a fault: the elements are assigned from the first place on, whatever the
\* array they are part of)
ElementAssignmentsFlat(s) ==
    LET e == s.exps[1]
    IN  IF e.k = "array"
        THEN [i \in DOMAIN e.parts |-> Sub(s.name, IF s.index = << >> THEN <<Num(i - 1)>> ELSE <<Num(0), Num(i - 1)>>, e.parts[i])]
        ELSE [i \in 1 .. e.parts[2].n |-> Sub(s.name, AtIndex(s.index, i), e.parts[1])]
ElementAssignments(s) ==
    LET e == s.exps[1]
    IN  IF e.k = "array" THEN [i \in DOMAIN e.parts |-> Sub(s.name, AtIndex(s.index, i), e.parts[i])]
        ELSE [i \in 1 .. e.parts[2].n |-> Sub(s.name, AtIndex(s.index, i), e.parts[1])]

\* A conditional expression becomes a conditional statement.
SingleSubstitution(s) ==
    LET e == s.exps[1]
    IN  CASE e.k = "switch" -> <<If(e.parts[1], [b \in 1 .. 2 |-> Block(<<Sub(s.name, s.index, e.parts[b + 1])>>)])>>
          [] e.k \in {"array", "uniform"} -> ElementAssignments(s)
          [] OTHER -> <<s>>

\* An equality with an array becomes one for each element; nothing is left of
\* an equality of an array with anything but an array or a variable.
SingleEquality(s) ==
    LET arrayLeft == s.exps[1].k \in {"array", "uniform"}
        l == IF arrayLeft THEN s.exps[1] ELSE s.exps[2]
        r == IF arrayLeft THEN s.exps[2] ELSE s.exps[1]
    IN  CASE l.k = "array" /\ r.k = "array" -> [i \in DOMAIN l.parts |-> Equal(l.parts[i], r.parts[i])]
          [] l.k = "array" /\ r.k = "uniform" -> [i \in DOMAIN l.parts |-> Equal(l.parts[i], r.parts[1])]
          [] l.k = "array" /\ r.k = "var" ->
                [i \in DOMAIN l.parts |-> Equal(l.parts[i], [r EXCEPT !.parts = AtIndex(@, i), !.dims = Tail(@)])]
          [] l.k = "array" /\ r.k \notin {"array", "uniform", "var"} -> << >>
          [] OTHER -> <<s>>

\* (a fault: a call is returned as it was, after its value was assigned)
SplitReturnTwice(acc, s) ==
    IF s.k # "return" THEN [acc EXCEPT !.stmts = Append(@, s)]
    ELSE IF ~ IsSugar(s.exps[1]) THEN [acc EXCEPT !.stmts = Append(@, s)]
    ELSE [stmts |-> acc.stmts \o <<Decl(ReturnName(acc.id), s.exps[1].dims)>>
                    \o SingleSubstitution(Sub(ReturnName(acc.id), << >>, s.exps[1]))
                    \o <<IF s.exps[1].k = "call" THEN s ELSE [s EXCEPT !.exps = <<Var(ReturnName(acc.id), << >>, s.exps[1].dims)>>]>>,
          id |-> acc.id + 1]

SplitReturn(acc, s) ==
    IF s.k # "return" THEN [acc EXCEPT !.stmts = Append(@, s)]
    ELSE IF ~ IsSugar(s.exps[1]) THEN [acc EXCEPT !.stmts = Append(@, s)]
    ELSE [stmts |-> acc.stmts \o <<Decl(ReturnName(acc.id), s.exps[1].dims)>>
                    \o SingleSubstitution(Sub(ReturnName(acc.id), << >>, s.exps[1]))
                    \o <<[s EXCEPT !.exps = <<Var(ReturnName(acc.id), << >>, s.exps[1].dims)>>]>>,
          id |-> acc.id + 1]

Single(kind, s) == IF s.k # kind THEN <<s>> ELSE IF kind = "eq" THEN SingleEquality(s) ELSE SingleSubstitution(s)
Mapped(kind, stmts) == FlattenSeq([i \in DOMAIN stmts |-> Single(kind, stmts[i])])

-----------------------------------------------------------------------------
RECURSIVE ExtendStatement(_, _)

Flattened(stmts) == FlattenSeq([i \in DOMAIN stmts |-> IF stmts[i].k = "init" THEN stmts[i].stmts ELSE <<stmts[i]>>])

\* Before each statement goes what was moved out of it; inside a conditional or
\* a loop it is put aside.
InTurn(acc, r) == [stmts |-> acc.stmts \o r.inits \o <<r.s>>, id |-> r.id]
Aside(acc, r) == [stmts |-> Append(acc.stmts, r.s), inits |-> acc.inits \o r.inits, id |-> r.id]

ExtendInTurn(stmts, id) ==
    FoldLeft(LAMBDA acc, t : InTurn(acc, ExtendStatement(t, acc.id)), [stmts |-> << >>, id |-> id], stmts)
ExtendAside(stmts, id) ==
    FoldLeft(LAMBDA acc, t : Aside(acc, ExtendStatement(t, acc.id)), [stmts |-> << >>, inits |-> << >>, id |-> id], stmts)

\* The three rewritings of the statements of a block.
Rewritten(extended) ==
    FoldLeft(SplitReturn, [stmts |-> << >>, id |-> extended.id],
             Mapped("eq", Mapped("sub", extended.stmts)))
Closed(r, id) == [s |-> Block(r.stmts), inits |-> << >>, id |-> id]

\* (a fault: the fresh ids of a block are not given back)
StillOpen(r) == Closed(r, r.id)
ExtendBlockKeeps(s, id) == StillOpen(Rewritten(ExtendInTurn(Flattened(s.stmts), id)))
\* A block keeps what its statements put before themselves, and gives back the
\* fresh ids it used.
ExtendBlock(s, id) == Closed(Rewritten(ExtendInTurn(Flattened(s.stmts), id)), id)

\* The statements inside a conditional or a loop are extended first; what they
\* and the condition put before themselves goes before the whole.
WithCondition(s, inner, cond) ==
    [s |-> [s EXCEPT !.stmts = inner.stmts, !.exps = cond.parts], inits |-> inner.inits \o cond.inits, id |-> cond.id]
AroundInner(s, inner) == WithCondition(s, inner, ExtendIndexes(s.exps, inner.id, FALSE))
ExtendControl(s, id) == AroundInner(s, ExtendAside(s.stmts, id))

WithIndex(s, rhe, index) ==
    [s |-> [s EXCEPT !.exps = rhe.parts, !.index = index.parts], inits |-> rhe.inits \o index.inits, id |-> index.id]
WithValue(s, rhe) == WithIndex(s, rhe, ExtendIndexes(s.index, rhe.id, FALSE))
ExtendSubstitution(s, id) == WithValue(s, ExtendAll(s.exps, id, FALSE))

\* Of an equality, a return, a log and an assert, the expressions are extended
\* and stay where they are.
InPlace(s, r) == [s |-> [s EXCEPT !.exps = r.parts], inits |-> r.inits, id |-> r.id]
ExtendExpressions(s, id) == InPlace(s, ExtendAll(s.exps, id, FALSE))

ExtendStatement(s, id) ==
    CASE s.k = "block" -> ExtendBlock(s, id)
      [] s.k \in {"if", "while"} -> ExtendControl(s, id)
      [] s.k = "sub" -> ExtendSubstitution(s, id)
      [] s.k = "decl" -> [s |-> s, inits |-> << >>, id |-> id]
      [] OTHER -> ExtendExpressions(s, id)

-----------------------------------------------------------------------------
Init == program \in Programs /\ done = 0 /\ body = << >> /\ fresh_id = 0

\* The bodies in turn, with one counter of fresh ids for all.
CleanNext ==
    LET r == ExtendStatement(program[done + 1], fresh_id)
    IN  /\ done < Len(program)
        /\ body' = Append(body, r.s)
        /\ fresh_id' = r.id
        /\ done' = done + 1
        /\ UNCHANGED program

Next == CleanNext
Spec == Init /\ [][Next]_vars
=============================================================================
