---------------------------- MODULE SyntaxTree -----------------------------
(* The abstract syntax of a template as the analyses, the execution and the  *)
(* filters see it (ast.rs): after the sugar is removed, with the type every  *)
(* symbol reduces to, and with the number (elem_id) that fill gives to every *)
(* node. Arrays have one dimension and calls one argument.                   *)
EXTENDS Naturals, Sequences, SequencesExt

Number(n) == [op |-> "number", n |-> n]
Variable(x) == [op |-> "variable", x |-> x]
SignalRead(s) == [op |-> "signal", x |-> s]
Element(x, i) == [op |-> "element", x |-> x, index |-> i]
Infix(f, l, r) == [op |-> "infix", f |-> f, lhe |-> l, rhe |-> r]
Switch(c, t, e) == [op |-> "switch", cond |-> c, ift |-> t, iff |-> e]
Call(f, arg) == [op |-> "call", f |-> f, arg |-> arg]

\* Declarations; "dims" holds the dimension of an array and is empty otherwise.
Declare(xtype, x, dims) == [op |-> "declaration", xtype |-> xtype, x |-> x, dims |-> dims]
\* Substitutions; "to" is the type the left side reduces to, "access" its index.
Assign(to, x, access, how, e) ==
    [op |-> "substitution", to |-> to, x |-> x, access |-> access, how |-> how, rhe |-> e]
Set(x, e) == Assign("variable", x, << >>, "=", e)
Equality(l, r) == [op |-> "equality", lhe |-> l, rhe |-> r]
If(c, a, b) == [op |-> "if", cond |-> c, ift |-> a, iff |-> b]
While(c, b) == [op |-> "while", cond |-> c, body |-> b]
Block(ss) == [op |-> "block", stmts |-> ss]
Initialize(ss) == [op |-> "init", stmts |-> ss]
Return(e) == [op |-> "return", arg |-> e]
Log(e) == [op |-> "log", arg |-> e]
Check(e) == [op |-> "assert", arg |-> e]
Underscore(how, e) == [op |-> "underscore", how |-> how, arg |-> e]
Nothing == Block(<< >>)

Lists == {"dims", "access", "stmts"}
Children == {"index", "lhe", "rhe", "cond", "ift", "iff", "arg", "body"}
Place == <<"index", "lhe", "rhe", "cond", "ift", "iff", "arg", "body", "dims", "access", "stmts">>
PlaceOf(field) == CHOOSE i \in DOMAIN Place : Place[i] = field

(* fill: every node of the tree gets a number of its own; here it is the     *)
(* path that leads to it.                                                    *)
RECURSIVE Fill(_, _)
Fill(node, at) ==
    [field \in DOMAIN node \cup {"id"} |->
        CASE field = "id" -> at
          [] field \in Children -> Fill(node[field], at \o <<PlaceOf(field)>>)
          [] field \in Lists ->
                [i \in DOMAIN node[field] |-> Fill(node[field][i], at \o <<PlaceOf(field), i>>)]
          [] OTHER -> node[field]]
=============================================================================
