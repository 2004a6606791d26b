---------------------------- MODULE Expressions ----------------------------
(* The values the executed circuit computes with (ArithmeticExpression and   *)
(* modular_arithmetic): numbers of the field, signals, linear and quadratic  *)
(* expressions over signals, or NonQuadratic when an operation leaves these  *)
(* shapes. The program is a sequence of operators applied to one expression; *)
(* beside it runs the value the documented operators give at one point.      *)
EXTENDS Algebra, Bitwise

CONSTANTS Points,       \* assignments of the signals at which values are compared
          Operands,     \* the other operand of an operator
          AmountRange,  \* the numbers that fit a usize are those below it
          MaxDepth      \* bound: operators applied

VARIABLES point, expr, value, depth
vars == <<point, expr, value, depth>>

Number(v) == [kind |-> "number", v |-> v]
Signal(s) == [kind |-> "signal", s |-> s]
LinearOf(e) == [kind |-> "linear", c |-> e]
Quadratic(a, b, c) == [kind |-> "quadratic", a |-> a, b |-> b, c |-> c]
NonQuadratic == [kind |-> "nonquadratic"]
Failed(why) == [kind |-> why]

IsNumber(x) == x.kind = "number"
IsLinearExpr(x) == x.kind \in {"number", "signal", "linear"}
Terms(x) == CASE x.kind = "number" -> (0 :> x.v)
              [] x.kind = "signal" -> ((0 :> 0) @@ (x.s :> 1))
              [] x.kind = "linear" -> x.c

-----------------------------------------------------------------------------
(* The arithmetic of the field *)
ComparableElement(v) == IF P \div 2 + 1 <= v % P THEN (v % P) - P ELSE v % P
Normalize(v) == IF ComparableElement(v) = 0 THEN 0 ELSE 1
Truth(b) == IF b THEN 1 ELSE 0

BoolAnd(l, r) == Normalize(l) * Normalize(r)
BoolOr(l, r) == (Normalize(l) + Normalize(r) + BoolAnd(l, r)) % 2
BoolNot(v) == (Normalize(v) + 1) % 2
Equal(l, r) == Truth(l % P = r % P)
Lesser(l, r) == Truth(ComparableElement(l) < ComparableElement(r))
LesserEq(l, r) == BoolOr(Lesser(l, r), Equal(l, r))
Greater(l, r) == BoolNot(LesserEq(l, r))
GreaterEq(l, r) == BoolOr(Greater(l, r), Equal(l, r))

Bits == CHOOSE b \in 1 .. P : 2^(b - 1) <= P /\ P < 2^b
Mask == 2^Bits - 1
Top == P \div 2
ShiftLeft(l, k) == (((l * 2^k) & Mask)) % P
ShiftRight(l, k) == l \div 2^k
\* to_usize: an amount that does not fit is reported as a division by zero.
Counted(amount, shifted) == IF amount < AmountRange THEN Number(shifted) ELSE Failed("division by zero")
ShiftL(l, r) == IF r <= Top THEN Counted(r, ShiftLeft(l, r)) ELSE Counted(P - r, ShiftRight(l, P - r))
ShiftR(l, r) == IF r <= Top THEN Counted(r, ShiftRight(l, r)) ELSE Counted(P - r, ShiftLeft(l, P - r))
(* (a fault: the complement is not reduced) *)
ComplementWide(v) == Mask - v
Complement(v) == (Mask - v) % P

RECURSIVE Power(_, _)
Power(b, e) == IF e = 0 THEN 1 % P ELSE (b * Power(b, e - 1)) % P

-----------------------------------------------------------------------------
(* add, mul, sub, div and pow of expressions *)
Add(l, r) ==
    CASE l.kind = "nonquadratic" \/ r.kind = "nonquadratic" -> NonQuadratic
      [] l.kind = "quadratic" /\ r.kind = "quadratic" -> NonQuadratic
      [] IsNumber(l) /\ IsNumber(r) -> Number((l.v + r.v) % P)
      [] l.kind = "quadratic" -> Quadratic(l.a, l.b, Sum2(Terms(r), l.c))
      [] r.kind = "quadratic" -> Quadratic(r.a, r.b, Sum2(Terms(l), r.c))
      [] OTHER -> LinearOf(Sum2(Terms(l), Terms(r)))

(* (a fault: both factors of a product scaled) *)
ScaleExprBoth(k, x) ==
    CASE IsNumber(x) -> Number((k * x.v) % P)
      [] x.kind = "quadratic" -> Quadratic(Scaled(k, x.a), Scaled(k, x.b), Scaled(k, x.c))
      [] OTHER -> LinearOf(Scaled(k, Terms(x)))
ScaleExpr(k, x) ==
    CASE IsNumber(x) -> Number((k * x.v) % P)
      [] x.kind = "quadratic" -> Quadratic(Scaled(k, x.a), x.b, Scaled(k, x.c))
      [] OTHER -> LinearOf(Scaled(k, Terms(x)))

Mul(l, r) ==
    CASE l.kind = "nonquadratic" \/ r.kind = "nonquadratic" -> NonQuadratic
      [] IsNumber(l) -> ScaleExpr(l.v, r)
      [] IsNumber(r) -> ScaleExpr(r.v, l)
      [] IsLinearExpr(l) /\ IsLinearExpr(r) -> Quadratic(Terms(l), Terms(r), (0 :> 0))
      [] OTHER -> NonQuadratic

Sub(l, r) == Add(l, Mul(Number(P - 1), r))

(* (a fault: a quotient by zero is zero) *)
DivSilent(l, r) ==
    CASE ~IsNumber(r) \/ l.kind = "nonquadratic" -> NonQuadratic
      [] r.v = 0 -> Number(0)
      [] OTHER -> ScaleExpr(FieldInverse(r.v), l)
Div(l, r) ==
    CASE ~IsNumber(r) \/ l.kind = "nonquadratic" -> NonQuadratic
      [] r.v = 0 -> Failed("division by zero")
      [] OTHER -> ScaleExpr(FieldInverse(r.v), l)

Pow(l, r) ==
    CASE IsNumber(l) /\ IsNumber(r) -> Number(Power(l.v, r.v))
      [] IsNumber(r) /\ r = Number(2) /\ l.kind \in {"signal", "linear"} -> Mul(l, l)
      [] OTHER -> NonQuadratic

(* Every other operator computes with numbers only. *)
Divided(op, l, r) ==
    CASE op = "idiv" -> IF r = 0 THEN Failed("division by zero") ELSE Number(l \div r)
      [] op = "mod" -> IF r = 0 THEN Failed("panic") ELSE Number(l % r)

OnBits(op, l, r) ==
    CASE op = "shift_l" -> ShiftL(l, r)
      [] op = "shift_r" -> ShiftR(l, r)
      [] op = "bit_or" -> Number((l | r) % P)
      [] op = "bit_and" -> Number((l & r) % P)
      [] op = "bit_xor" -> Number((l ^^ r) % P)

Decided(op, l, r) ==
    CASE op = "bool_or" -> Number(BoolOr(l, r))
      [] op = "bool_and" -> Number(BoolAnd(l, r))
      [] op = "eq" -> Number(Equal(l, r))
      [] op = "not_eq" -> Number(BoolNot(Equal(l, r)))
      [] op = "lesser" -> Number(Lesser(l, r))
      [] op = "lesser_eq" -> Number(LesserEq(l, r))
      [] op = "greater" -> Number(Greater(l, r))
      [] op = "greater_eq" -> Number(GreaterEq(l, r))

DividingOps == {"idiv", "mod"}
BitOps == {"shift_l", "shift_r", "bit_or", "bit_and", "bit_xor"}
DecidingOps == {"bool_or", "bool_and", "eq", "not_eq", "lesser", "lesser_eq", "greater",
                "greater_eq"}
NumberOps == DividingOps \cup BitOps \cup DecidingOps
InfixOps == NumberOps \cup {"add", "sub", "mul", "div", "pow"}

Infix(op, l, r) ==
    CASE op = "add" -> Add(l, r)
      [] op = "sub" -> Sub(l, r)
      [] op = "mul" -> Mul(l, r)
      [] op = "div" -> Div(l, r)
      [] op = "pow" -> Pow(l, r)
      [] OTHER -> IF ~IsNumber(l) \/ ~IsNumber(r) THEN NonQuadratic
                  ELSE IF op \in DividingOps THEN Divided(op, l.v, r.v)
                  ELSE IF op \in BitOps THEN OnBits(op, l.v, r.v)
                  ELSE Decided(op, l.v, r.v)

Prefix(op, x) ==
    CASE op = "neg" -> Mul(x, Number(P - 1))
      [] op = "not" -> IF IsNumber(x) THEN Number(BoolNot(x.v)) ELSE NonQuadratic
      [] op = "complement" -> IF IsNumber(x) THEN Number(Complement(x.v)) ELSE NonQuadratic

-----------------------------------------------------------------------------
(* The operators as basic-operators.md defines them, on field elements. Two  *)
(* results are told apart because the code has its own answer for them: the  *)
(* remainder by zero, and a shift by more than a usize counts.               *)
Val(z) == IF P \div 2 + 1 <= z /\ z < P THEN z - P ELSE z
Undefined == -1
UndefinedRemainder == -2
Uncountable == -3
Amount(y) == IF y <= P \div 2 THEN y ELSE P - y
Documented(op, x, y) ==
    CASE op = "add" -> (x + y) % P
      [] op = "sub" -> (x - y) % P
      [] op = "mul" -> (x * y) % P
      [] op = "pow" -> IF y = 0 THEN 1 ELSE x^y % P
      [] op = "div" -> IF y = 0 THEN Undefined ELSE CHOOSE q \in Field : (q * y) % P = x
      [] op = "idiv" -> IF y = 0 THEN Undefined ELSE x \div y
      [] op = "mod" -> IF y = 0 THEN UndefinedRemainder ELSE x - y * (x \div y)
      [] op = "shift_r" -> IF y <= P \div 2 THEN x \div 2^y ELSE ((x * 2^(P - y)) % 2^Bits) % P
      [] op = "shift_l" -> IF y <= P \div 2 THEN ((x * 2^y) % 2^Bits) % P ELSE x \div 2^(P - y)
      [] op = "bit_or" -> (x | y) % P
      [] op = "bit_and" -> (x + y - (x | y)) % P
      [] op = "bit_xor" -> (2 * (x | y) - x - y) % P
      [] op = "bool_or" -> Truth(x # 0 \/ y # 0)
      [] op = "bool_and" -> Truth(x # 0 /\ y # 0)
      [] op = "eq" -> Truth(x = y)
      [] op = "not_eq" -> Truth(x # y)
      [] op = "lesser" -> Truth(Val(x) < Val(y))
      [] op = "lesser_eq" -> Truth(Val(x) <= Val(y))
      [] op = "greater" -> Truth(Val(x) > Val(y))
      [] op = "greater_eq" -> Truth(Val(x) >= Val(y))
Expected(op, x, y) ==
    IF op \in {"shift_l", "shift_r"} /\ Amount(y) >= AmountRange THEN Uncountable ELSE Documented(op, x, y)
DocumentedPrefix(op, x) ==
    CASE op = "neg" -> (0 - x) % P
      [] op = "not" -> Truth(x = 0)
      [] op = "complement" -> (2^Bits - 1 - x) % P

AtPoint(x, at) ==
    CASE x.kind = "quadratic" -> (ValueAt(x.a, at) * ValueAt(x.b, at) + ValueAt(x.c, at)) % P
      [] IsLinearExpr(x) -> ValueAt(Terms(x), at)

-----------------------------------------------------------------------------
Init == /\ point \in Points
        /\ expr \in Operands
        /\ value = AtPoint(expr, point)
        /\ depth = 0

Running == depth < MaxDepth /\ expr.kind \in {"number", "signal", "linear", "quadratic"}

ApplyInfix(op, other, onTheLeft) ==
    /\ Running
    /\ LET l == IF onTheLeft THEN other ELSE expr
           r == IF onTheLeft THEN expr ELSE other
       IN  /\ expr' = Infix(op, l, r)
           /\ value' = Expected(op, AtPoint(l, point), AtPoint(r, point))
    /\ depth' = depth + 1
    /\ UNCHANGED point

ApplyPrefix(op) ==
    /\ Running
    /\ expr' = Prefix(op, expr)
    /\ value' = DocumentedPrefix(op, AtPoint(expr, point))
    /\ depth' = depth + 1
    /\ UNCHANGED point

Next == \/ \E op \in InfixOps, other \in Operands, onTheLeft \in BOOLEAN : ApplyInfix(op, other, onTheLeft)
        \/ \E op \in {"neg", "not", "complement"} : ApplyPrefix(op)
Spec == Init /\ [][Next]_vars

-----------------------------------------------------------------------------
(* Numbers are field elements and so is every coefficient (the operations    *)
(* never reduce their operands: modular_arithmetic.rs:29).                   *)
IsTerms(e) == 0 \in DOMAIN e /\ \A s \in DOMAIN e : e[s] \in Field
TypeOK == CASE expr.kind = "number" -> expr.v \in Field
            [] expr.kind = "linear" -> IsTerms(expr.c)
            [] expr.kind = "quadratic" -> IsTerms(expr.a) /\ IsTerms(expr.b) /\ IsTerms(expr.c)
            [] OTHER -> TRUE

(* Whatever shape an expression has, it has the value its operators are      *)
(* documented to have: the constraint written for it says what the program   *)
(* says (the comparisons through the signed reading of the field, the shifts *)
(* through the negative reading of large amounts).                           *)
MeaningKept ==
    expr.kind \in {"number", "signal", "linear", "quadratic"} => value = AtPoint(expr, point)

(* Of numbers, a division by zero is reported exactly for the quotients by   *)
(* zero and for the shifts by amounts beyond a usize, and the compiler stops *)
(* exactly at a remainder by zero: no constant is invented for any of them,  *)
(* and nothing else ends the compilation.                                    *)
ErrorsForUndefined ==
    expr.kind # "nonquadratic" =>
        /\ expr.kind = "division by zero" <=> value \in {Undefined, Uncountable}
        /\ expr.kind = "panic" <=> value = UndefinedRemainder

(* What basic-operators.md says, and the code does not do: a shift has a     *)
(* value for every amount up to p/2.                                         *)
ShiftsDefined == expr.kind = "division by zero" => value # Uncountable

(* No operator stops the compiler: mod_op answers with a Result, as the      *)
(* quotients do, but never with its error.                                   *)
NeverPanics == expr.kind # "panic"
=============================================================================
