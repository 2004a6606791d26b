------------------------------ MODULE Algebra ------------------------------
(* Linear expressions and constraints of circom_algebra: a linear expression *)
(* is the map of its coefficients by signal (a HashMap: a signal that is not *)
(* a key has none), key 0 holding its constant; a constraint is A*B - C = 0. *)
EXTENDS Integers, FiniteSets, Sequences, TLC

CONSTANT P              \* the prime of the field (257 in the unit tests)

Field == 0 .. P - 1

(* mod_inverse, of a value other than 0 *)
FieldInverse(v) == CHOOSE w \in Field : (v * w) % P = 1

Coef(e, s) == IF s \in DOMAIN e THEN e[s] ELSE 0
NoTerms == [s \in {} |-> 0]
Initialized(e) == [s \in DOMAIN e \cup {0} |-> Coef(e, s)]
ScaledWide(k, e) == [s \in DOMAIN e |-> k * e[s]]   \* (a fault: not reduced)
Scaled(k, e) == [s \in DOMAIN e |-> (k * e[s]) % P]
Sum2(e, f) == [s \in DOMAIN e \cup DOMAIN f |-> (Coef(e, s) + Coef(f, s)) % P]
Clean(e) == [s \in {x \in DOMAIN e : e[x] # 0} |-> e[s]]
IsConstant(e) == DOMAIN e = {0}

(* A substitution replaces one signal by a linear expression. *)
RawSubstitution(e, sub) ==
    LET start == Initialized(e)
        rest == [s \in DOMAIN start \ {sub.from} |-> start[s]]
    IN  IF sub.from \in DOMAIN start
        THEN Sum2(Scaled(start[sub.from], Initialized(sub.to)), rest)
        ELSE start

Linear(c) == [a |-> NoTerms, b |-> NoTerms, c |-> c]
Empty == Linear(NoTerms)
IsLinear(k) == DOMAIN k.a = {} /\ DOMAIN k.b = {}
Signals(k) == (DOMAIN k.a \cup DOMAIN k.b \cup DOMAIN k.c) \ {0}

IsEquality(k) ==
    /\ IsLinear(k)
    /\ 0 \notin DOMAIN k.c
    /\ \E s, t \in DOMAIN k.c : /\ s # t
                                /\ DOMAIN k.c = {s, t}
                                /\ (k.c[s] + k.c[t]) % P = 0
IsConstantEquality(k) == IsLinear(k) /\ Cardinality(DOMAIN k.c \ {0}) = 1

(* What constant_linear_linear_reduction does when the factor `k` is a number *)
Reduced(k, e, c) == Linear(Clean(Sum2(Scaled(P - k, Initialized(e)), Initialized(c))))

Fix(k) ==
    LET a == Clean(k.a)  b == Clean(k.b)  c == Clean(k.c)
    IN  IF DOMAIN a = {} \/ DOMAIN b = {} THEN Linear(c)
        ELSE IF IsConstant(a) THEN Reduced(a[0], b, c)
        ELSE IF IsConstant(b) THEN Reduced(b[0], a, c)
        ELSE [a |-> a, b |-> b, c |-> c]

ApplySubstitution(k, sub) ==
    [a |-> RawSubstitution(k.a, sub), b |-> RawSubstitution(k.b, sub), c |-> RawSubstitution(k.c, sub)]

(* A linear constraint solved for the signal `s`: coefficient and right-hand *)
(* side not yet divided by it, or the right-hand side divided.               *)
NotNormalized(k, s) == [coef |-> (P - k.c[s]) % P,
                        to |-> Initialized([t \in DOMAIN k.c \ {s} |-> k.c[t]])]
ClearSignal(k, s) ==
    LET n == NotNormalized(k, s)
    IN  [from |-> s, to |-> Clean(Scaled(FieldInverse(n.coef), n.to))]

(* multi_inv: one inversion for all the values, through the partial products *)
MultiInv(values) ==
    LET n == Len(values)
        partial[i \in 0 .. n] == IF i = 0 THEN 1 ELSE (partial[i - 1] * values[i]) % P
        inverse[i \in 0 .. n] == IF i = n THEN FieldInverse(partial[n])
                                 ELSE (inverse[i + 1] * values[i + 1]) % P
    IN  [i \in 1 .. n |-> (partial[i - 1] * inverse[i]) % P]

(* The value of an expression and the truth of a constraint at a point that  *)
(* gives every signal a value (the point gives 1 to key 0).                  *)
ValueAt(e, point) ==
    LET add[S \in SUBSET DOMAIN e] ==
          IF S = {} THEN 0
          ELSE LET s == CHOOSE x \in S : TRUE IN (e[s] * point[s] + add[S \ {s}]) % P
    IN  add[DOMAIN e]
HoldsAt(k, point) ==
    (ValueAt(k.a, point) * ValueAt(k.b, point) - ValueAt(k.c, point)) % P = 0
=============================================================================
