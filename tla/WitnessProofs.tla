---------------------------- MODULE WitnessProofs ----------------------------
(***************************************************************************)
(* In the C++ witness calculator no load reads an output before its value *)
(* is stored, whatever the circuit, the number of slots and the order in   *)
(* which the threads run (WitnessThreads!ReadsSeeValues).                  *)
(*                                                                         *)
(* The property is not inductive.  WitnessInv says of every call on the    *)
(* stack of every thread what the statements before the one it is at have  *)
(* done (FrameOK), and that an output is set only when its value is there. *)
(***************************************************************************)
EXTENDS WitnessThreads, SequenceTheorems, FiniteSetTheorems, TLAPS

Steps == {"run", "start", "lock", "slot", "set", "outputs", "release"}
FrameType == [cmp : Comps, at : Nat \ {0}, step : Steps, par : BOOLEAN, out : Nat]

\* Every output of d has its value, according to w.
Complete(d, w) == \A o \in 1..Outputs[d] : o \in w[d]

\* What is so of a call f: above is the component of the call it has made and that
\* has not returned (None at the top), w and s are the values and the flags stored.
FrameOK(f, above, w, s) ==
  /\ \A j \in 1..Len(Body[f.cmp]) :
       j < f.at /\ Body[f.cmp][j].op = "output" => Body[f.cmp][j].out \in w[f.cmp]
  /\ \A j \in 1..Len(Body[f.cmp]) :
       j < f.at /\ Calls(f.cmp, j) =>
         \/ Complete(Body[f.cmp][j].cmp, w)
         \/ j = f.at - 1 /\ above = Body[f.cmp][j].cmp
  /\ f.step = "set" => /\ f.at \in 1..Len(Body[f.cmp])
                       /\ Body[f.cmp][f.at].op = "output"
                       /\ Body[f.cmp][f.at].out \in w[f.cmp]
  /\ f.step = "start" => /\ f.at \in 1..Len(Body[f.cmp])
                         /\ Body[f.cmp][f.at].op = "input"
                         /\ ~ Calls(f.cmp, f.at)
  /\ f.step \in {"lock", "slot"} => /\ f.at \in 1..Len(Body[f.cmp])
                                    /\ Body[f.cmp][f.at].op = "load"
  /\ f.step = "slot" => Body[f.cmp][f.at].out \in s[Body[f.cmp][f.at].cmp]
  /\ f.step \in {"outputs", "release"} => f.at > Len(Body[f.cmp])

Above(q, k) == IF k < Len(q) THEN q[k + 1].cmp ELSE None
StackOK(q, w, s) == \A k \in 1..Len(q) : FrameOK(q[k], Above(q, k), w, s)

Grows(f, g) == \A c \in Comps : f[c] \subseteq g[c]
SetsType == [Comps -> SUBSET Nat]

WitnessInv ==
  /\ stack \in [Comps -> Seq(FrameType)]
  /\ written \in SetsType /\ isSet \in SetsType
  /\ Grows(isSet, written)
  /\ \A t \in Comps : StackOK(stack[t], written, isSet)
  /\ misread = {}

-----------------------------------------------------------------------------
(* Facts about statements and stacks.                                      *)

LEMMA StatementType ==
  ASSUME NEW c \in Comps, NEW k \in 1..Len(Body[c])
  PROVE  /\ Body[c][k].op \in {"create", "input", "load", "output"}
         /\ Body[c][k].op # "output" => Body[c][k].cmp \in Comps
         /\ Body[c][k].out \in Nat
<1>1. Body[c] \in Seq(Statement)
  BY CircuitAssumption
<1>2. Body[c][k] \in Statement
  BY <1>1
<1> QED
  BY <1>2 DEF Statement

LEMMA LenBody == ASSUME NEW c \in Comps PROVE Len(Body[c]) \in Nat
  BY CircuitAssumption

\* What is so of a call stays so while values and flags are added.
LEMMA FrameKept ==
  ASSUME NEW f \in FrameType, NEW a, NEW w \in SetsType, NEW s \in SetsType,
         NEW w1 \in SetsType, NEW s1 \in SetsType,
         Grows(w, w1), Grows(s, s1), FrameOK(f, a, w, s)
  PROVE  FrameOK(f, a, w1, s1)
<1> DEFINE c == f.cmp
<1>1. c \in Comps /\ f.at \in Nat
  BY DEF FrameType
<1>2. \A d \in Comps : w[d] \subseteq w1[d] /\ s[d] \subseteq s1[d]
  BY DEF Grows
<1>3. ASSUME NEW j \in 1..Len(Body[c]), j < f.at, Calls(c, j)
      PROVE  \/ Complete(Body[c][j].cmp, w1)
             \/ j = f.at - 1 /\ a = Body[c][j].cmp
  <2>1. Body[c][j].cmp \in Comps
    BY <1>1, <1>3, StatementType DEF Calls
  <2>2. Complete(Body[c][j].cmp, w) \/ (j = f.at - 1 /\ a = Body[c][j].cmp)
    BY <1>3 DEF FrameOK
  <2> QED
    BY <2>1, <2>2, <1>2 DEF Complete
<1>4. f.step = "slot" => Body[c][f.at].out \in s1[Body[c][f.at].cmp]
  <2>1. SUFFICES ASSUME f.step = "slot" PROVE Body[c][f.at].out \in s1[Body[c][f.at].cmp]
    OBVIOUS
  <2>2. f.at \in 1..Len(Body[c]) /\ Body[c][f.at].op = "load"
    BY <2>1 DEF FrameOK
  <2>3. Body[c][f.at].cmp \in Comps
    BY <1>1, <2>2, StatementType
  <2>4. Body[c][f.at].out \in s[Body[c][f.at].cmp]
    BY <2>1 DEF FrameOK
  <2> QED
    BY <1>2, <2>3, <2>4
<1>5. \A j \in 1..Len(Body[c]) :
        j < f.at /\ Body[c][j].op = "output" => Body[c][j].out \in w1[c]
  BY <1>1, <1>2 DEF FrameOK
<1>6. f.step = "set" => /\ f.at \in 1..Len(Body[c])
                        /\ Body[c][f.at].op = "output"
                        /\ Body[c][f.at].out \in w1[c]
  BY <1>1, <1>2 DEF FrameOK
<1>7. /\ f.step = "start" => /\ f.at \in 1..Len(Body[c])
                             /\ Body[c][f.at].op = "input"
                             /\ ~ Calls(c, f.at)
      /\ f.step \in {"lock", "slot"} => f.at \in 1..Len(Body[c]) /\ Body[c][f.at].op = "load"
      /\ f.step \in {"outputs", "release"} => f.at > Len(Body[c])
  BY DEF FrameOK
<1> HIDE DEF c
<1> QED
  BY <1>3, <1>4, <1>5, <1>6, <1>7 DEF FrameOK, c

\* ... and of all the calls of a thread.
LEMMA StackKept ==
  ASSUME NEW q \in Seq(FrameType), NEW w \in SetsType, NEW s \in SetsType,
         NEW w1 \in SetsType, NEW s1 \in SetsType,
         Grows(w, w1), Grows(s, s1), StackOK(q, w, s)
  PROVE  StackOK(q, w1, s1)
<1>1. \A k \in 1..Len(q) : q[k] \in FrameType
  OBVIOUS
<1> QED
  BY <1>1, FrameKept DEF StackOK

\* The call at the top has gone on and is still of the same component.
LEMMA TopChanged ==
  ASSUME NEW q \in Seq(FrameType), q # <<>>, NEW g \in FrameType, g.cmp = q[Len(q)].cmp,
         NEW w \in SetsType, NEW s \in SetsType,
         StackOK(q, w, s), FrameOK(g, None, w, s)
  PROVE  LET r == ReplaceTop(q, g)
         IN  r \in Seq(FrameType) /\ StackOK(r, w, s) /\ Len(r) = Len(q) /\ r[Len(r)] = g
<1> DEFINE r == ReplaceTop(q, g)
<1>1. Len(q) \in Nat /\ Len(q) > 0 /\ \A k \in 1..Len(q) : q[k] \in FrameType
  OBVIOUS
<1>2. \A k \in 1..Len(q) : r[k] = IF k = Len(q) THEN g ELSE q[k]
  BY DEF ReplaceTop
<1>3. r \in Seq(FrameType) /\ Len(r) = Len(q)
  BY <1>1 DEF ReplaceTop
<1> HIDE DEF r
<1>4. ASSUME NEW k \in 1..Len(r) PROVE FrameOK(r[k], Above(r, k), w, s)
  <2>1. CASE k = Len(q)
    BY <2>1, <1>1, <1>2, <1>3 DEF Above
  <2>2. CASE k # Len(q)
    <3>1. k \in 1..Len(q) /\ k < Len(q) /\ k + 1 \in 1..Len(q)
      BY <1>1, <1>3, <2>2
    <3>2. r[k] = q[k] /\ r[k + 1].cmp = q[k + 1].cmp
      BY <3>1, <1>1, <1>2
    <3>3. Above(r, k) = Above(q, k)
      BY <3>1, <3>2, <1>3 DEF Above
    <3> QED
      BY <3>1, <3>2, <3>3 DEF StackOK
  <2> QED
    BY <2>1, <2>2
<1> QED
  BY <1>1, <1>2, <1>3, <1>4 DEF StackOK, r

\* A call has been made at the top: h is the call, of a component g waits for.
LEMMA Pushed ==
  ASSUME NEW q \in Seq(FrameType), q # <<>>, NEW g \in FrameType, g.cmp = q[Len(q)].cmp,
         NEW h \in FrameType, NEW w \in SetsType, NEW s \in SetsType,
         StackOK(q, w, s), FrameOK(g, h.cmp, w, s), FrameOK(h, None, w, s)
  PROVE  LET r == Append(ReplaceTop(q, g), h)
         IN  r \in Seq(FrameType) /\ StackOK(r, w, s)
<1> DEFINE p == ReplaceTop(q, g)
           r == Append(p, h)
<1>1. Len(q) \in Nat /\ Len(q) > 0 /\ \A k \in 1..Len(q) : q[k] \in FrameType
  OBVIOUS
<1>2. \A k \in 1..Len(q) : p[k] = IF k = Len(q) THEN g ELSE q[k]
  BY DEF ReplaceTop
<1>3. p \in Seq(FrameType) /\ Len(p) = Len(q)
  BY <1>1 DEF ReplaceTop
<1> HIDE DEF p
<1>4. /\ r \in Seq(FrameType) /\ Len(r) = Len(q) + 1
      /\ r[Len(q) + 1] = h
      /\ \A k \in 1..Len(q) : r[k] = p[k]
  BY <1>1, <1>3
<1> HIDE DEF r
<1>5. ASSUME NEW k \in 1..Len(r) PROVE FrameOK(r[k], Above(r, k), w, s)
  <2>1. CASE k = Len(q) + 1
    BY <2>1, <1>1, <1>4 DEF Above
  <2>2. CASE k = Len(q)
    BY <2>2, <1>1, <1>2, <1>4 DEF Above
  <2>3. CASE k \in 1..Len(q) /\ k # Len(q)
    <3>1. k < Len(q) /\ k + 1 \in 1..Len(q) /\ k < Len(r)
      BY <1>1, <1>4, <2>3
    <3>2. r[k] = q[k] /\ r[k + 1].cmp = q[k + 1].cmp
      BY <3>1, <2>3, <1>1, <1>2, <1>4
    <3>3. Above(r, k) = Above(q, k)
      BY <3>1, <3>2 DEF Above
    <3> QED
      BY <2>3, <3>2, <3>3 DEF StackOK
  <2> QED
    BY <1>1, <1>4, <2>1, <2>2, <2>3
<1> QED
  BY <1>4, <1>5 DEF StackOK, r, p

\* The call at the top returns: all outputs of its component have their values, so
\* the statement that made it is complete.
LEMMA Popped ==
  ASSUME NEW q \in Seq(FrameType), q # <<>>, NEW w \in SetsType, NEW s \in SetsType,
         StackOK(q, w, s), Complete(q[Len(q)].cmp, w)
  PROVE  LET r == SubSeq(q, 1, Len(q) - 1)
         IN  r \in Seq(FrameType) /\ StackOK(r, w, s)
<1> DEFINE r == SubSeq(q, 1, Len(q) - 1)
<1>1. Len(q) \in Nat /\ Len(q) > 0 /\ \A k \in 1..Len(q) : q[k] \in FrameType
  OBVIOUS
<1>2. /\ r \in Seq(FrameType) /\ Len(r) = Len(q) - 1
      /\ \A k \in 1..(Len(q) - 1) : r[k] = q[k]
  <2>1. \A k \in 1..(Len(q) - 1) : q[k] \in FrameType
    BY <1>1
  <2>2. 1 \in Int /\ Len(q) - 1 \in Int
    BY <1>1
  <2> DEFINE n == Len(q) - 1
  <2>3. /\ SubSeq(q, 1, n) \in Seq(FrameType)
        /\ Len(SubSeq(q, 1, n)) = IF 1 <= n THEN n - 1 + 1 ELSE 0
        /\ \A i \in 1..(n - 1 + 1) : SubSeq(q, 1, n)[i] = q[1 + i - 1]
    <3> HIDE DEF n
    <3> QED
      BY <2>1, <2>2, SubSeqProperties DEF n
  <2>4. \A k \in 1..n : k \in 1..(n - 1 + 1) /\ 1 + k - 1 = k
    BY <2>2
  <2>5. \A k \in 1..n : SubSeq(q, 1, n)[k] = q[k]
    <3> HIDE DEF n
    <3> QED
      BY <2>3, <2>4
  <2>6. n \in Nat
    BY <1>1
  <2> HIDE DEF n
  <2>7. r = SubSeq(q, 1, n)
    BY DEF n
  <2> HIDE DEF r
  <2>8. Len(r) = n
    <3>1. CASE 1 <= n
      BY <2>3, <2>6, <2>7, <3>1
    <3>2. CASE n = 0
      BY <2>3, <2>6, <2>7, <3>2
    <3> QED
      BY <2>6, <3>1, <3>2
  <2> QED
    BY <2>3, <2>5, <2>7, <2>8 DEF n
<1> HIDE DEF r
<1>3. ASSUME NEW k \in 1..Len(r) PROVE FrameOK(r[k], Above(r, k), w, s)
  <2>1. k \in 1..Len(q) /\ k < Len(q) /\ r[k] = q[k]
    BY <1>1, <1>2
  <2>2. FrameOK(q[k], q[k + 1].cmp, w, s)
    BY <2>1 DEF StackOK, Above
  <2>3. CASE k < Len(r)
    <3>1. Above(r, k) = q[k + 1].cmp
      BY <2>3, <1>1, <1>2 DEF Above
    <3> QED
      BY <2>1, <2>2, <3>1
  <2>4. CASE k = Len(r)
    <3>1. q[k + 1].cmp = q[Len(q)].cmp
      BY <2>4, <1>1, <1>2
    <3>2. Complete(q[k + 1].cmp, w)
      BY <3>1
    <3> QED
      BY <2>1, <2>2, <3>2 DEF FrameOK
  <2> QED
    BY <1>1, <1>2, <2>3, <2>4
<1> QED
  BY <1>2, <1>3 DEF StackOK, r

LEMMA NewFrame ==
  ASSUME NEW c \in Comps, NEW p \in BOOLEAN, NEW w \in SetsType, NEW s \in SetsType
  PROVE  Frame(c, p) \in FrameType /\ Frame(c, p).cmp = c /\ FrameOK(Frame(c, p), None, w, s)
<1>1. Len(Body[c]) \in Nat
  BY LenBody
<1> QED
  BY <1>1 DEF Frame, FrameType, Steps, FrameOK

\* A thread that has just started.
LEMMA OneCall ==
  ASSUME NEW h \in FrameType, NEW w \in SetsType, NEW s \in SetsType, FrameOK(h, None, w, s)
  PROVE  <<h>> \in Seq(FrameType) /\ StackOK(<<h>>, w, s)
<1>1. Len(<<h>>) = 1 /\ <<h>>[1] = h /\ 1..1 = {1}
  OBVIOUS
<1>2. <<h>> \in Seq(FrameType)
  OBVIOUS
<1>3. \A k \in 1..Len(<<h>>) : k = 1
  BY <1>1
<1>4. Above(<<h>>, 1) = None
  BY <1>1 DEF Above
<1> QED
  BY <1>1, <1>2, <1>3, <1>4 DEF StackOK

\* The call goes on to the next statement.
LEMMA Advanced ==
  ASSUME NEW f \in FrameType, NEW a, NEW w \in SetsType, NEW s \in SetsType,
         FrameOK(f, None, w, s), f.at \in 1..Len(Body[f.cmp]),
         Body[f.cmp][f.at].op = "output" => Body[f.cmp][f.at].out \in w[f.cmp],
         Calls(f.cmp, f.at) => a = Body[f.cmp][f.at].cmp
  PROVE  LET g == [f EXCEPT !.at = @ + 1, !.step = "run"]
         IN  g \in FrameType /\ g.cmp = f.cmp /\ FrameOK(g, a, w, s)
<1> DEFINE g == [f EXCEPT !.at = @ + 1, !.step = "run"]
           c == f.cmp
<1>1. /\ g \in FrameType /\ g.cmp = c /\ g.at = f.at + 1 /\ g.step = "run"
      /\ c \in Comps /\ f.at \in Nat
  <2>1. f \in [cmp : Comps, at : Nat \ {0}, step : Steps, par : BOOLEAN, out : Nat]
    BY DEF FrameType
  <2>2. f.at + 1 \in Nat \ {0} /\ "run" \in Steps
    BY <2>1 DEF Steps
  <2>3. g \in FrameType
    BY <2>1, <2>2 DEF FrameType
  <2> QED
    BY <2>1, <2>3
<1>2. Len(Body[c]) \in Nat
  BY <1>1, LenBody
<1> HIDE DEF g
<1>3. ASSUME NEW j \in 1..Len(Body[c]), j < f.at + 1, Body[c][j].op = "output"
      PROVE  Body[c][j].out \in w[c]
  <2>1. CASE j = f.at
    BY <2>1, <1>3
  <2>2. CASE j < f.at
    BY <2>2, <1>3 DEF FrameOK
  <2> QED
    BY <1>1, <1>3, <2>1, <2>2
<1>4. ASSUME NEW j \in 1..Len(Body[c]), j < f.at + 1, Calls(c, j)
      PROVE  Complete(Body[c][j].cmp, w) \/ (j = f.at /\ a = Body[c][j].cmp)
  <2>1. CASE j = f.at
    BY <2>1, <1>4
  <2>2. CASE j < f.at
    <3>1. Body[c][j].cmp # None
      BY <1>1, <1>4, StatementType, CircuitAssumption DEF Calls
    <3>2. \/ Complete(Body[c][j].cmp, w)
          \/ j = f.at - 1 /\ None = Body[c][j].cmp
      BY <2>2, <1>4 DEF FrameOK
    <3> QED
      BY <3>1, <3>2
  <2> QED
    BY <1>1, <1>4, <2>1, <2>2
<1>5. FrameOK(g, a, w, s)
  BY <1>1, <1>2, <1>3, <1>4 DEF FrameOK
<1> QED
  BY <1>1, <1>5 DEF g

\* The call goes on inside the statement it is at, or at its end.
LEMMA Stepped ==
  ASSUME NEW f \in FrameType, NEW x \in Steps, NEW w \in SetsType, NEW s \in SetsType,
         FrameOK(f, None, w, s),
         x = "set" => /\ f.at \in 1..Len(Body[f.cmp])
                      /\ Body[f.cmp][f.at].op = "output"
                      /\ Body[f.cmp][f.at].out \in w[f.cmp],
         x = "start" => /\ f.at \in 1..Len(Body[f.cmp])
                        /\ Body[f.cmp][f.at].op = "input"
                        /\ ~ Calls(f.cmp, f.at),
         x \in {"lock", "slot"} => /\ f.at \in 1..Len(Body[f.cmp])
                                   /\ Body[f.cmp][f.at].op = "load",
         x = "slot" => Body[f.cmp][f.at].out \in s[Body[f.cmp][f.at].cmp],
         x \in {"outputs", "release"} => f.at > Len(Body[f.cmp])
  PROVE  LET g == [f EXCEPT !.step = x]
         IN  g \in FrameType /\ g.cmp = f.cmp /\ FrameOK(g, None, w, s)
<1> DEFINE g == [f EXCEPT !.step = x]
<1>1. g \in FrameType /\ g.cmp = f.cmp /\ g.at = f.at /\ g.step = x
  BY DEF FrameType
<1> HIDE DEF g
<1>2. FrameOK(g, None, w, s)
  BY <1>1 DEF FrameOK
<1> QED
  BY <1>1, <1>2 DEF g

-----------------------------------------------------------------------------
(* The steps.                                                              *)

\* What a step has to show that changes the stack of one thread.
LEMMA OneStack ==
  ASSUME WitnessInv, NEW t \in Comps, NEW q \in Seq(FrameType),
         stack' = [stack EXCEPT ![t] = q],
         written' \in SetsType, isSet' \in SetsType,
         Grows(written, written'), Grows(isSet, isSet'), Grows(isSet', written'),
         StackOK(q, written', isSet'), misread' = {}
  PROVE  WitnessInv'
<1>1. stack' \in [Comps -> Seq(FrameType)]
  BY DEF WitnessInv
<1>2. ASSUME NEW u \in Comps PROVE StackOK(stack'[u], written', isSet')
  <2>1. CASE u = t
    BY <2>1 DEF WitnessInv
  <2>2. CASE u # t
    <3>1. stack'[u] = stack[u] /\ stack[u] \in Seq(FrameType)
      BY <2>2 DEF WitnessInv
    <3>2. StackOK(stack[u], written, isSet)
      BY DEF WitnessInv
    <3>3. StackOK(stack[u], written', isSet')
      BY <3>1, <3>2, StackKept DEF WitnessInv
    <3> QED
      BY <3>1, <3>3
  <2> QED
    BY <2>1, <2>2
<1> QED
  BY <1>1, <1>2 DEF WitnessInv

\* The call at the top of a running thread.
LEMMA TopType ==
  ASSUME WitnessInv, NEW t \in Comps, Running(t)
  PROVE  /\ stack[t] \in Seq(FrameType) /\ stack[t] # <<>>
         /\ StackOK(stack[t], written, isSet)
         /\ Top(t) = stack[t][Len(stack[t])] /\ Top(t) \in FrameType
         /\ Top(t).cmp \in Comps /\ Top(t).at \in Nat \ {0}
         /\ Len(Body[Top(t).cmp]) \in Nat
         /\ AtStatement(t) => Top(t).at \in 1..Len(Body[Top(t).cmp])
         /\ FrameOK(Top(t), None, written, isSet)
<1>1. stack[t] \in Seq(FrameType) /\ stack[t] # <<>> /\ StackOK(stack[t], written, isSet)
  BY DEF WitnessInv, Running
<1>2. Len(stack[t]) \in 1..Len(stack[t]) /\ Top(t) = stack[t][Len(stack[t])]
  BY <1>1 DEF Top
<1>3. Top(t) \in FrameType
  BY <1>1, <1>2
<1>4. Top(t).cmp \in Comps /\ Top(t).at \in Nat \ {0}
  BY <1>3 DEF FrameType
<1>5. Len(Body[Top(t).cmp]) \in Nat
  BY <1>4, LenBody
<1>6. FrameOK(Top(t), None, written, isSet)
  BY <1>1, <1>2 DEF StackOK, Above
<1>7. AtStatement(t) => Top(t).at \in 1..Len(Body[Top(t).cmp])
  BY <1>4, <1>5 DEF AtStatement
<1> QED
  BY <1>1, <1>2, <1>3, <1>4, <1>5, <1>6, <1>7

\* A step that only puts the top of one thread in the place of another call.
LEMMA TopStep ==
  ASSUME WitnessInv, NEW t \in Comps, Running(t), NEW g \in FrameType,
         g.cmp = Top(t).cmp, stack' = WithTop(t, g),
         written' \in SetsType, isSet' \in SetsType,
         Grows(written, written'), Grows(isSet, isSet'), Grows(isSet', written'),
         FrameOK(g, None, written', isSet'), misread' = {}
  PROVE  WitnessInv'
<1>1. StackOK(stack[t], written', isSet')
  BY TopType, StackKept DEF WitnessInv
<1>2. /\ ReplaceTop(stack[t], g) \in Seq(FrameType)
      /\ StackOK(ReplaceTop(stack[t], g), written', isSet')
  BY <1>1, TopType, TopChanged
<1>3. stack' = [stack EXCEPT ![t] = ReplaceTop(stack[t], g)]
  BY DEF WithTop
<1> QED
  BY <1>2, <1>3, OneStack

LEMMA Same == WitnessInv => Grows(written, written) /\ Grows(isSet, isSet) /\ Grows(isSet, written)
  BY DEF WitnessInv, Grows

\* A step that gives back or takes a slot, or sleeps, and moves no call.
LEMMA StaysStep ==
  ASSUME WitnessInv, stack' = stack, written' = written, isSet' = isSet, misread' = misread
  PROVE  WitnessInv'
  BY DEF WitnessInv, Grows

\* The step ends the statement, which calls nothing.
LEMMA AdvanceStep ==
  ASSUME WitnessInv, NEW t \in Comps, AtStatement(t), stack' = Advance(t),
         Current(t).op = "output" => Current(t).out \in written[Top(t).cmp],
         ~ Calls(Top(t).cmp, Top(t).at),
         written' \in SetsType, isSet' \in SetsType,
         Grows(written, written'), Grows(isSet, isSet'), Grows(isSet', written'),
         misread' = {}
  PROVE  WitnessInv'
<1> DEFINE g == [Top(t) EXCEPT !.at = @ + 1, !.step = "run"]
<1>1. Running(t)
  BY DEF AtStatement
<1>2. g \in FrameType /\ g.cmp = Top(t).cmp /\ FrameOK(g, None, written, isSet)
  BY <1>1, TopType, Advanced DEF WitnessInv, Current
<1> HIDE DEF g
<1>3. FrameOK(g, None, written', isSet')
  BY <1>2, FrameKept DEF WitnessInv
<1>4. stack' = WithTop(t, g)
  BY DEF Advance, g
<1> QED
  BY <1>1, <1>2, <1>3, <1>4, TopStep

LEMMA OutputCallsNothing ==
  ASSUME NEW c, NEW k, Body[c][k].op \in {"load", "output"}
  PROVE  ~ Calls(c, k)
  BY DEF Calls

LEMMA StepWaitSlot == ASSUME WitnessInv, NEW t \in Comps, WaitSlot(t) PROVE WitnessInv'
  BY StaysStep DEF WaitSlot

LEMMA StepTakeStartSlot ==
  ASSUME WitnessInv, NEW t \in Comps, TakeStartSlot(t) PROVE WitnessInv'
<1>1. Running(t) /\ Top(t).step = "start"
  BY DEF TakeStartSlot
<1>2. /\ Top(t).at \in 1..Len(Body[Top(t).cmp]) /\ Current(t).op = "input"
      /\ ~ Calls(Top(t).cmp, Top(t).at)
  BY <1>1, TopType DEF FrameOK, Current
<1>3. AtStatement(t)
  BY <1>1, <1>2 DEF AtStatement
<1> QED
  BY <1>2, <1>3, AdvanceStep, Same DEF TakeStartSlot, WitnessInv

LEMMA StepCreate == ASSUME WitnessInv, NEW t \in Comps, Create(t) PROVE WitnessInv'
<1> DEFINE d == Current(t).cmp
           g == [Top(t) EXCEPT !.at = @ + 1, !.step = "run"]
<1>1. Running(t) /\ AtStatement(t) /\ Current(t).op = "create"
  BY DEF Create, AtStatement
<1>2. /\ Top(t).at \in 1..Len(Body[Top(t).cmp]) /\ Top(t).cmp \in Comps
      /\ Current(t) = Body[Top(t).cmp][Top(t).at] /\ d \in Comps
  BY <1>1, TopType, StatementType DEF Current
<1>3. UNCHANGED <<written, isSet, misread>> /\ written' \in SetsType /\ isSet' \in SetsType
      /\ misread' = {}
  BY DEF Create, WitnessInv
<1>4. Grows(written, written') /\ Grows(isSet, isSet') /\ Grows(isSet', written')
  BY <1>3, Same
<1>5. CASE Inputs(d) = 0
  <2>1. Calls(Top(t).cmp, Top(t).at)
    BY <1>1, <1>2, <1>5 DEF Calls
  <2>2. g \in FrameType /\ g.cmp = Top(t).cmp /\ FrameOK(g, d, written, isSet)
    BY <1>1, <1>2, TopType, Advanced DEF WitnessInv
  <2>3. /\ Frame(d, FALSE) \in FrameType /\ Frame(d, FALSE).cmp = d
        /\ FrameOK(Frame(d, FALSE), None, written, isSet)
    BY <1>2, NewFrame DEF WitnessInv
  <2> DEFINE q == Append(ReplaceTop(stack[t], g), Frame(d, FALSE))
  <2>4. stack' = [stack EXCEPT ![t] = q]
    BY <1>5 DEF Create, Advance, WithTop, WitnessInv
  <2> HIDE DEF g
  <2>5. q \in Seq(FrameType) /\ StackOK(q, written, isSet)
    BY <1>1, <2>2, <2>3, TopType, Pushed DEF WitnessInv
  <2> HIDE DEF q
  <2> QED
    BY <1>3, <1>4, <2>4, <2>5, OneStack
<1>6. CASE Inputs(d) # 0
  <2>1. ~ Calls(Top(t).cmp, Top(t).at)
    BY <1>1, <1>2, <1>6 DEF Calls
  <2>2. stack' = Advance(t)
    BY <1>6 DEF Create, Advance, WithTop, WitnessInv
  <2> QED
    BY <1>1, <1>3, <1>4, <2>1, <2>2, AdvanceStep
<1> QED
  BY <1>5, <1>6

LEMMA StepLoadPlain == ASSUME WitnessInv, NEW t \in Comps, LoadPlain(t) PROVE WitnessInv'
<1> DEFINE c == Top(t).cmp
           k == Top(t).at
<1>1. Running(t) /\ AtStatement(t) /\ Current(t).op = "load" /\ ~ Parallel[Current(t).cmp]
  BY DEF LoadPlain, AtStatement
<1>2. c \in Comps /\ k \in 1..Len(Body[c]) /\ Current(t) = Body[c][k]
  BY <1>1, TopType DEF Current
<1>3. PICK j \in 1..(k - 1) : Calls(c, j) /\ Body[c][j].cmp = Body[c][k].cmp
  BY <1>1, <1>2, OutputsAssumption
<1>4. Body[c][k].out \in 1..Outputs[Body[c][k].cmp]
  BY <1>1, <1>2, OutputsAssumption
<1>5. FrameOK(Top(t), None, written, isSet) /\ Len(Body[c]) \in Nat
  BY <1>1, TopType
<1>6. j \in 1..Len(Body[c]) /\ j < k
  BY <1>2, <1>3, <1>5
<1>7. Body[c][j].cmp # None
  BY <1>2, <1>3, <1>6, StatementType, CircuitAssumption DEF Calls
<1>8. Complete(Body[c][j].cmp, written)
  BY <1>3, <1>5, <1>6, <1>7 DEF FrameOK
<1>9. Current(t).out \in written[Current(t).cmp]
  BY <1>2, <1>3, <1>4, <1>8 DEF Complete
<1>10. misread' = {} /\ stack' = Advance(t) /\ UNCHANGED <<written, isSet>>
  BY <1>9 DEF LoadPlain, Read, WitnessInv
<1>11. ~ Calls(c, k)
  BY <1>1, <1>2, OutputCallsNothing
<1> QED
  BY <1>1, <1>10, <1>11, AdvanceStep, Same DEF WitnessInv

LEMMA StepLoadGivesSlot == ASSUME WitnessInv, NEW t \in Comps, LoadGivesSlot(t) PROVE WitnessInv'
<1> DEFINE g == [Top(t) EXCEPT !.step = "lock"]
<1>1. Running(t) /\ AtStatement(t) /\ Current(t).op = "load"
  BY DEF LoadGivesSlot, AtStatement
<1>2. g \in FrameType /\ g.cmp = Top(t).cmp /\ FrameOK(g, None, written, isSet)
  BY <1>1, TopType, Stepped DEF WitnessInv, Current, Steps
<1> HIDE DEF g
<1>3. stack' = WithTop(t, g) /\ UNCHANGED <<written, isSet, misread>>
  BY DEF LoadGivesSlot, AtStep, g
<1> QED
  BY <1>1, <1>2, <1>3, TopStep, Same DEF WitnessInv

LEMMA StepLoadLocks == ASSUME WitnessInv, NEW t \in Comps, LoadLocks(t) PROVE WitnessInv'
<1> DEFINE d == Current(t).cmp
           o == Current(t).out
           g == [Top(t) EXCEPT !.step = "slot"]
<1>1. Running(t) /\ AtStatement(t) /\ Top(t).step = "lock"
      /\ UNCHANGED <<written, isSet, misread>>
  BY DEF LoadLocks, AtStatement
<1>2. CASE o \in isSet[d] /\ stack' = AtStep(t, "slot")
  <2>1. Current(t).op = "load"
    BY <1>1, TopType DEF FrameOK, Current
  <2>2. g \in FrameType /\ g.cmp = Top(t).cmp /\ FrameOK(g, None, written, isSet)
    BY <1>1, <1>2, <2>1, TopType, Stepped DEF WitnessInv, Current, Steps
  <2> HIDE DEF g
  <2>3. stack' = WithTop(t, g)
    BY <1>2 DEF AtStep, g
  <2> QED
    BY <1>1, <2>2, <2>3, TopStep, Same DEF WitnessInv
<1>3. CASE UNCHANGED stack
  BY <1>1, <1>3, StaysStep
<1> QED
  BY <1>2, <1>3 DEF LoadLocks

LEMMA StepLoadReads == ASSUME WitnessInv, NEW t \in Comps, LoadReads(t) PROVE WitnessInv'
<1> DEFINE d == Current(t).cmp
           o == Current(t).out
<1>1. Running(t) /\ AtStatement(t) /\ Top(t).step = "slot"
  BY DEF LoadReads, AtStatement
<1>2. Current(t).op = "load" /\ o \in isSet[d] /\ Top(t).cmp \in Comps
      /\ Top(t).at \in 1..Len(Body[Top(t).cmp])
  BY <1>1, TopType DEF FrameOK, Current
<1>3. d \in Comps
  BY <1>2, StatementType DEF Current
<1>4. o \in written[d]
  BY <1>2, <1>3 DEF WitnessInv, Grows
<1>5. misread' = {} /\ stack' = Advance(t) /\ UNCHANGED <<written, isSet>>
  BY <1>4 DEF LoadReads, Read, WitnessInv
<1>6. ~ Calls(Top(t).cmp, Top(t).at)
  BY <1>2, OutputCallsNothing DEF Current
<1> QED
  BY <1>1, <1>2, <1>5, <1>6, AdvanceStep, Same DEF WitnessInv

LEMMA StepStoreInput == ASSUME WitnessInv, NEW t \in Comps, StoreInput(t) PROVE WitnessInv'
<1> DEFINE c == Top(t).cmp
           k == Top(t).at
           d == Current(t).cmp
           g == [Top(t) EXCEPT !.at = @ + 1, !.step = "run"]
           h == [Top(t) EXCEPT !.step = "start"]
<1>1. Running(t) /\ AtStatement(t) /\ Current(t).op = "input"
      /\ UNCHANGED <<written, isSet, misread>>
  BY DEF StoreInput, AtStatement
<1>2. /\ k \in 1..Len(Body[c]) /\ c \in Comps /\ Current(t) = Body[c][k] /\ d \in Comps
  BY <1>1, TopType, StatementType DEF Current
<1>3. /\ written' \in SetsType /\ isSet' \in SetsType /\ misread' = {}
      /\ Grows(written, written') /\ Grows(isSet, isSet') /\ Grows(isSet', written')
  BY <1>1, Same DEF WitnessInv
<1>4. CASE ~ IsLast(c, k) /\ stack' = Advance(t)
  <2>1. ~ Calls(c, k)
    BY <1>1, <1>2, <1>4 DEF Calls
  <2> QED
    BY <1>1, <1>3, <1>4, <2>1, AdvanceStep
<1>5. CASE IsLast(c, k) /\ Parallel[d] /\ stack' = [AtStep(t, "start") EXCEPT ![d] = <<Frame(d, TRUE)>>]
  <2>1. ~ Calls(c, k)
    BY <1>1, <1>2, <1>5 DEF Calls
  <2>2. h \in FrameType /\ h.cmp = Top(t).cmp /\ FrameOK(h, None, written, isSet)
    BY <1>1, <1>2, <2>1, TopType, Stepped DEF WitnessInv, Steps
  <2> DEFINE q == ReplaceTop(stack[t], h)
             r == <<Frame(d, TRUE)>>
  <2>3. stack' = [[stack EXCEPT ![t] = q] EXCEPT ![d] = r]
    BY <1>5 DEF AtStep, WithTop
  <2> HIDE DEF h
  <2>4. q \in Seq(FrameType) /\ StackOK(q, written, isSet)
    BY <1>1, <2>2, TopType, TopChanged DEF WitnessInv
  <2>5. /\ Frame(d, TRUE) \in FrameType /\ FrameOK(Frame(d, TRUE), None, written, isSet)
    BY <1>2, NewFrame DEF WitnessInv
  <2>6. r \in Seq(FrameType) /\ StackOK(r, written, isSet)
    BY <2>5, OneCall DEF WitnessInv
  <2> HIDE DEF q, r
  <2>7. stack' \in [Comps -> Seq(FrameType)]
    BY <1>2, <2>3, <2>4, <2>6 DEF WitnessInv
  <2>8. \A u \in Comps : StackOK(stack'[u], written, isSet)
    BY <1>2, <2>3, <2>4, <2>6 DEF WitnessInv
  <2> QED
    BY <1>1, <1>3, <2>7, <2>8 DEF WitnessInv
<1>6. CASE /\ IsLast(c, k) /\ ~ Parallel[d]
           /\ stack' = [Advance(t) EXCEPT ![t] = Append(@, Frame(d, FALSE))]
  <2>1. g \in FrameType /\ g.cmp = Top(t).cmp /\ FrameOK(g, d, written, isSet)
    BY <1>1, <1>2, TopType, Advanced DEF WitnessInv
  <2>2. /\ Frame(d, FALSE) \in FrameType /\ Frame(d, FALSE).cmp = d
        /\ FrameOK(Frame(d, FALSE), None, written, isSet)
    BY <1>2, NewFrame DEF WitnessInv
  <2> DEFINE q == Append(ReplaceTop(stack[t], g), Frame(d, FALSE))
  <2>3. stack' = [stack EXCEPT ![t] = q]
    BY <1>6 DEF Advance, WithTop, WitnessInv
  <2> HIDE DEF g
  <2>4. q \in Seq(FrameType) /\ StackOK(q, written, isSet)
    BY <1>1, <2>1, <2>2, TopType, Pushed DEF WitnessInv
  <2> HIDE DEF q
  <2> QED
    BY <1>3, <1>1, <2>3, <2>4, OneStack
<1> QED
  BY <1>4, <1>5, <1>6 DEF StoreInput

\* A value is stored: more is written.
LEMMA StepStoreOutput == ASSUME WitnessInv, NEW t \in Comps, StoreOutput(t) PROVE WitnessInv'
<1> DEFINE c == Top(t).cmp
           o == Current(t).out
           g == [Top(t) EXCEPT !.step = "set"]
<1>1. Running(t) /\ AtStatement(t) /\ Current(t).op = "output" /\ UNCHANGED <<isSet, misread>>
      /\ written' = [written EXCEPT ![c] = @ \cup {o}]
  BY DEF StoreOutput, AtStatement
<1>2. /\ Top(t).at \in 1..Len(Body[c]) /\ c \in Comps /\ Current(t) = Body[c][Top(t).at]
      /\ o \in Nat
  BY <1>1, TopType, StatementType DEF Current
<1>3. /\ written' \in SetsType /\ isSet' \in SetsType /\ misread' = {} /\ o \in written'[c]
      /\ Grows(written, written')
  BY <1>1, <1>2 DEF WitnessInv, SetsType, Grows
<1>4. Grows(isSet, isSet') /\ Grows(isSet', written')
  BY <1>1, <1>3 DEF WitnessInv, Grows
<1>5. CASE stack' = Advance(t)
  <2>1. ~ Calls(c, Top(t).at)
    BY <1>1, <1>2, OutputCallsNothing
  <2>2. g \in FrameType
    BY <1>1, TopType DEF FrameType, Steps
  <2> DEFINE f == [Top(t) EXCEPT !.at = @ + 1, !.step = "run"]
  <2>3. FrameOK(Top(t), None, written', isSet')
    BY <1>1, <1>3, <1>4, TopType, FrameKept DEF WitnessInv
  <2>4. f \in FrameType /\ f.cmp = c /\ FrameOK(f, None, written', isSet')
    BY <1>1, <1>2, <1>3, <2>1, <2>3, TopType, Advanced
  <2> HIDE DEF f
  <2>5. stack' = WithTop(t, f)
    BY <1>5 DEF Advance, f
  <2> QED
    BY <1>1, <1>3, <1>4, <2>4, <2>5, TopStep
<1>6. CASE stack' = AtStep(t, "set")
  <2>1. FrameOK(Top(t), None, written', isSet')
    BY <1>1, <1>3, <1>4, TopType, FrameKept DEF WitnessInv
  <2>2. g \in FrameType /\ g.cmp = c /\ FrameOK(g, None, written', isSet')
    BY <1>1, <1>2, <1>3, <2>1, TopType, Stepped DEF Steps
  <2> HIDE DEF g
  <2>3. stack' = WithTop(t, g)
    BY <1>6 DEF AtStep, g
  <2> QED
    BY <1>1, <1>3, <1>4, <2>2, <2>3, TopStep
<1> QED
  BY <1>5, <1>6 DEF StoreOutput

\* An output is set: its value is there.
LEMMA SetKeeps ==
  ASSUME WitnessInv, NEW c \in Comps, NEW o \in Nat, SetOutput(c, o), o \in written[c],
         UNCHANGED written
  PROVE  /\ written' \in SetsType /\ isSet' \in SetsType
         /\ Grows(written, written') /\ Grows(isSet, isSet') /\ Grows(isSet', written')
  BY DEF SetOutput, WitnessInv, SetsType, Grows

LEMMA StepNotifyOutput == ASSUME WitnessInv, NEW t \in Comps, NotifyOutput(t) PROVE WitnessInv'
<1> DEFINE c == Top(t).cmp
           o == Current(t).out
<1>1. Running(t) /\ AtStatement(t) /\ Top(t).step = "set" /\ UNCHANGED <<written, misread>>
      /\ stack' = Advance(t) /\ SetOutput(c, o)
  BY DEF NotifyOutput, AtStatement
<1>2. /\ Top(t).at \in 1..Len(Body[c]) /\ c \in Comps /\ Current(t) = Body[c][Top(t).at]
      /\ o \in Nat /\ Current(t).op = "output" /\ o \in written[c]
  BY <1>1, TopType, StatementType DEF Current, FrameOK
<1>3. /\ written' \in SetsType /\ isSet' \in SetsType
      /\ Grows(written, written') /\ Grows(isSet, isSet') /\ Grows(isSet', written')
  BY <1>1, <1>2, SetKeeps
<1>4. ~ Calls(c, Top(t).at)
  BY <1>2, OutputCallsNothing
<1>5. misread' = {}
  BY <1>1 DEF WitnessInv
<1> QED
  BY <1>1, <1>2, <1>3, <1>4, <1>5, AdvanceStep

LEMMA StepJoin == ASSUME WitnessInv, NEW t \in Comps, Join(t) PROVE WitnessInv'
<1> DEFINE x == IF Top(t).par THEN "outputs" ELSE "release"
           g == [Top(t) EXCEPT !.step = x]
<1>1. Running(t) /\ Top(t).at > Len(Body[Top(t).cmp]) /\ UNCHANGED <<written, isSet, misread>>
      /\ x \in {"outputs", "release"} /\ stack' = AtStep(t, x)
  BY DEF Join, AtEnd
<1> HIDE DEF x
<1>2. x \in Steps /\ x \notin {"set", "start", "lock", "slot"}
  BY <1>1 DEF Steps
<1>3. g \in FrameType /\ g.cmp = Top(t).cmp /\ FrameOK(g, None, written, isSet)
  BY <1>1, <1>2, TopType, Stepped DEF WitnessInv
<1> HIDE DEF g
<1>4. stack' = WithTop(t, g)
  BY <1>1 DEF AtStep, g
<1> QED
  BY <1>1, <1>3, <1>4, TopStep, Same DEF WitnessInv

\* A component at its end has stored all its outputs.
LEMMA EndComplete ==
  ASSUME NEW f \in FrameType, NEW a, NEW w, NEW s, FrameOK(f, a, w, s),
         f.at > Len(Body[f.cmp])
  PROVE  Complete(f.cmp, w)
<1>1. f.cmp \in Comps /\ f.at \in Nat /\ Len(Body[f.cmp]) \in Nat
  BY LenBody DEF FrameType
<1>2. ASSUME NEW o \in 1..Outputs[f.cmp] PROVE o \in w[f.cmp]
  <2>1. PICK k \in 1..Len(Body[f.cmp]) : Body[f.cmp][k].op = "output" /\ Body[f.cmp][k].out = o
    BY <1>1, OutputsAssumption
  <2> QED
    BY <1>1, <2>1 DEF FrameOK
<1> QED
  BY <1>2 DEF Complete

LEMMA StepSetAllOutputs == ASSUME WitnessInv, NEW t \in Comps, SetAllOutputs(t) PROVE WitnessInv'
<1> DEFINE c == Top(t).cmp
           o == Top(t).out + 1
           g == [Top(t) EXCEPT !.out = @ + 1]
<1>1. /\ Running(t) /\ Top(t).at > Len(Body[c]) /\ Top(t).step = "outputs"
      /\ Top(t).out < Outputs[c] /\ SetOutput(c, o) /\ UNCHANGED <<written, misread>>
      /\ stack' = WithTop(t, g)
  BY DEF SetAllOutputs, AtEnd
<1>2. c \in Comps /\ Top(t) \in FrameType /\ Top(t).out \in Nat /\ Outputs[c] \in Nat
  BY <1>1, TopType, CircuitAssumption DEF FrameType
<1>3. o \in written[c] /\ o \in Nat
  <2>1. Complete(c, written)
    BY <1>1, <1>2, TopType, EndComplete
  <2> QED
    BY <1>1, <1>2, <2>1 DEF Complete
<1>4. /\ written' \in SetsType /\ isSet' \in SetsType
      /\ Grows(written, written') /\ Grows(isSet, isSet') /\ Grows(isSet', written')
  BY <1>1, <1>2, <1>3, SetKeeps
<1>5. FrameOK(Top(t), None, written', isSet')
  BY <1>1, <1>4, TopType, FrameKept DEF WitnessInv
<1>6. /\ g \in FrameType /\ g.cmp = c /\ g.at = Top(t).at /\ g.step = "outputs"
  BY <1>1, <1>2 DEF FrameType
<1> HIDE DEF g
<1>7. FrameOK(g, None, written', isSet')
  BY <1>1, <1>5, <1>6 DEF FrameOK
<1>8. misread' = {}
  BY <1>1 DEF WitnessInv
<1> QED
  BY <1>1, <1>4, <1>6, <1>7, <1>8, TopStep

LEMMA StepEndGivesSlot == ASSUME WitnessInv, NEW t \in Comps, EndGivesSlot(t) PROVE WitnessInv'
<1> DEFINE g == [Top(t) EXCEPT !.step = "release"]
<1>1. Running(t) /\ Top(t).at > Len(Body[Top(t).cmp]) /\ UNCHANGED <<written, isSet, misread>>
      /\ stack' = WithTop(t, g)
  BY DEF EndGivesSlot, AtEnd, AtStep
<1>2. g \in FrameType /\ g.cmp = Top(t).cmp /\ FrameOK(g, None, written, isSet)
  BY <1>1, TopType, Stepped DEF WitnessInv, Steps
<1> HIDE DEF g
<1> QED
  BY <1>1, <1>2, TopStep, Same DEF WitnessInv

LEMMA StepRelease == ASSUME WitnessInv, NEW t \in Comps, Release(t) PROVE WitnessInv'
<1> DEFINE q == SubSeq(stack[t], 1, Len(stack[t]) - 1)
<1>1. Running(t) /\ Top(t).at > Len(Body[Top(t).cmp]) /\ UNCHANGED <<written, isSet, misread>>
      /\ stack' = [stack EXCEPT ![t] = q]
  BY DEF Release, AtEnd
<1>2. Complete(Top(t).cmp, written)
  BY <1>1, TopType, EndComplete
<1>3. q \in Seq(FrameType) /\ StackOK(q, written, isSet)
  BY <1>1, <1>2, TopType, Popped DEF WitnessInv
<1> HIDE DEF q
<1> QED
  BY <1>1, <1>3, OneStack, Same DEF WitnessInv

-----------------------------------------------------------------------------
LEMMA InitWitness == Init => WitnessInv
<1> SUFFICES ASSUME Init PROVE WitnessInv
  OBVIOUS
<1>1. written \in SetsType /\ isSet \in SetsType /\ misread = {} /\ Grows(isSet, written)
  BY DEF Init, SetsType, Grows
<1>2. /\ Frame(Main, Parallel[Main]) \in FrameType
      /\ FrameOK(Frame(Main, Parallel[Main]), None, written, isSet)
  BY <1>1, NewFrame, CircuitAssumption
<1>3. ASSUME NEW t \in Comps
      PROVE  stack[t] \in Seq(FrameType) /\ StackOK(stack[t], written, isSet)
  <2>1. CASE t = Main
    <3>1. stack[t] = <<Frame(Main, Parallel[Main])>>
      BY <2>1 DEF Init
    <3> QED
      BY <1>2, <3>1 DEF StackOK, Above
  <2>2. CASE t # Main
    <3>1. stack[t] = <<>>
      BY <2>2 DEF Init
    <3> QED
      BY <3>1 DEF StackOK
  <2> QED
    BY <2>1, <2>2
<1>4. stack \in [Comps -> Seq(FrameType)]
  BY <1>3 DEF Init
<1> QED
  BY <1>1, <1>3, <1>4 DEF WitnessInv

LEMMA NextWitness == WitnessInv /\ [Next]_vars => WitnessInv'
<1> SUFFICES ASSUME WitnessInv, [Next]_vars PROVE WitnessInv'
  OBVIOUS
<1>1. ASSUME NEW t \in Comps, Step(t) PROVE WitnessInv'
  BY <1>1, StepWaitSlot, StepTakeStartSlot, StepCreate, StepStoreInput, StepLoadPlain,
     StepStoreOutput, StepNotifyOutput, StepLoadGivesSlot, StepLoadLocks, StepLoadReads,
     StepJoin, StepSetAllOutputs, StepEndGivesSlot, StepRelease DEF Step
<1>2. CASE UNCHANGED vars
  BY <1>2, StaysStep DEF vars
<1> QED
  BY <1>1, <1>2 DEF Next, Done

\* No load of the generated calculator, by whatever thread and whenever it runs,
\* reads an output of a component before the value is in signalValues.
THEOREM ReadsAreWritten == Spec => []ReadsSeeValues
<1>1. WitnessInv => ReadsSeeValues
  BY DEF WitnessInv, ReadsSeeValues
<1> QED
  BY <1>1, InitWitness, NextWitness, PTL DEF Spec

-----------------------------------------------------------------------------
(***************************************************************************)
(* The order of the runs of the C++ witness calculator: a component is run *)
(* once, when all its inputs are stored, and its memory is released when   *)
(* nothing of it runs any more (WitnessThreads!RunsWithInputs and          *)
(* NoUseAfterRelease).                                                     *)
(*                                                                         *)
(* RunInv is the inductive invariant.  It relates the call of a component  *)
(* on some stack to what the component has done to the components it       *)
(* declares: how many of their inputs are stored, which are created.       *)
(***************************************************************************)

\* The statements of a call that are done are those before Past.
Past(f) == IF f.step = "start" THEN f.at + 1 ELSE f.at

\* The inputs of d among the first n - 1 statements of its father.
Fed(d, n) == Cardinality({k \in Stores(Father[d], d) : k < n})
CreatedIn(d, n) ==
  \E j \in 1..Len(Body[Father[d]]) :
    j < n /\ Body[Father[d]][j].op = "create" /\ Body[Father[d]][j].cmp = d

Subs == Comps \ {Main}

\* The run of d has begun, and may have ended.
Begun(d) == d = Main \/ (d \in created /\ stored[d] = Inputs(d))
OnStack(d) == \E t \in Comps : \E k \in 1..Len(stack[t]) : stack[t][k].cmp = d

AllBegun ==
  /\ \A t \in Comps : \A k \in 1..Len(stack[t]) : Begun(stack[t][k].cmp)
  /\ \A t \in started : Begun(t)
RunOnce ==
  \A t, u \in Comps : \A k \in 1..Len(stack[t]), l \in 1..Len(stack[u]) :
    stack[t][k].cmp = stack[u][l].cmp => t = u /\ k = l
Untouched == \A d \in Subs : ~ Begun(Father[d]) => d \notin created /\ stored[d] = 0
Progress ==
  \A t \in Comps : \A k \in 1..Len(stack[t]) : \A d \in Children(stack[t][k].cmp) :
    /\ stored[d] = Fed(d, Past(stack[t][k]))
    /\ d \in created <=> CreatedIn(d, Past(stack[t][k]))
Nested ==
  \A t \in Comps :
    /\ stack[t] # <<>> => stack[t][1].cmp = t
    /\ \A k \in 2..Len(stack[t]) : stack[t][k].cmp \in Children(stack[t][k - 1].cmp)
Threads ==
  /\ Main \in started /\ finished \subseteq started
  /\ started \subseteq created /\ created \subseteq Comps
  /\ \A t \in Comps : stack[t] # <<>> <=> t \in started \ finished
Joined ==
  \A t \in Comps : \A k \in 1..Len(stack[t]) :
    stack[t][k].step \in {"outputs", "release"} =>
      Children(stack[t][k].cmp) \cap started \subseteq finished
FathersRun == \A d \in Subs : OnStack(d) => OnStack(Father[d])
ReleasedEnded == \A d \in released : d \in Subs /\ Begun(Father[d]) /\ ~ OnStack(Father[d])

RunInv ==
  /\ stored \in [Comps -> Nat]
  /\ AllBegun /\ RunOnce /\ Untouched /\ Progress /\ Nested
  /\ Threads /\ Joined /\ FathersRun /\ ReleasedEnded

-----------------------------------------------------------------------------
(* Facts about the stores to the inputs of a component.                    *)

LEMMA FatherType == ASSUME NEW d \in Subs PROVE Father[d] \in Comps /\ d \in Children(Father[d])
  BY CreationAssumption DEF Subs, Children

LEMMA ChildType ==
  ASSUME NEW c \in Comps, NEW d \in Children(c) PROVE d \in Subs /\ Father[d] = c /\ d \in Comps
  BY DEF Subs, Children

\* The component that a statement names is declared by the body it is in.
LEMMA TargetType ==
  ASSUME NEW c \in Comps, NEW k \in 1..Len(Body[c]), Body[c][k].op # "output"
  PROVE  Body[c][k].cmp \in Children(c)
  BY CreationAssumption

LEMMA StoresFinite ==
  ASSUME NEW d \in Subs, NEW n \in Nat
  PROVE  /\ IsFiniteSet(Stores(Father[d], d)) /\ Inputs(d) \in Nat
         /\ IsFiniteSet({k \in Stores(Father[d], d) : k < n})
         /\ Fed(d, n) \in Nat /\ Fed(d, n) <= Inputs(d)
<1> DEFINE S == Stores(Father[d], d)
           T == {k \in S : k < n}
<1>1. Len(Body[Father[d]]) \in Nat
  BY FatherType, LenBody
<1>2. IsFiniteSet(1..Len(Body[Father[d]]))
  BY <1>1, FS_Interval
<1>3. S \subseteq 1..Len(Body[Father[d]]) /\ T \subseteq S
  BY DEF Stores
<1> HIDE DEF S, T
<1>4. IsFiniteSet(S) /\ IsFiniteSet(T) /\ Cardinality(T) <= Cardinality(S)
  BY <1>2, <1>3, FS_Subset
<1>5. Cardinality(S) \in Nat /\ Cardinality(T) \in Nat
  BY <1>4, FS_CardinalityType
<1> QED
  BY <1>4, <1>5 DEF Fed, Inputs, S, T

LEMMA FedFirst == ASSUME NEW d \in Subs PROVE Fed(d, 1) = 0 /\ ~ CreatedIn(d, 1)
<1>1. Len(Body[Father[d]]) \in Nat
  BY FatherType, LenBody
<1>2. {k \in Stores(Father[d], d) : k < 1} = {}
  BY <1>1 DEF Stores
<1>3. Fed(d, 1) = 0
  BY <1>2, FS_EmptySet DEF Fed
<1>4. ~ CreatedIn(d, 1)
  BY <1>1 DEF CreatedIn
<1> QED
  BY <1>3, <1>4

\* One more statement: it adds to the inputs when it stores one.
LEMMA FedNext ==
  ASSUME NEW d \in Subs, NEW n \in 1..Len(Body[Father[d]])
  PROVE  Fed(d, n + 1) = IF n \in Stores(Father[d], d) THEN Fed(d, n) + 1 ELSE Fed(d, n)
<1> DEFINE S == Stores(Father[d], d)
           T == {k \in S : k < n}
           U == {k \in S : k < n + 1}
<1>a. Len(Body[Father[d]]) \in Nat /\ n \in Nat
  BY FatherType, LenBody
<1>b. IsFiniteSet(T)
  BY <1>a, StoresFinite
<1>1. S \subseteq Nat /\ n \in Nat /\ IsFiniteSet(T)
  BY <1>a, <1>b DEF Stores
<1>2. n \notin T
  BY <1>1
<1>3. CASE n \in S
  <2>1. U = T \cup {n}
    BY <1>1, <1>3
  <2> HIDE DEF S, T, U
  <2>2. Cardinality(U) = Cardinality(T) + 1
    BY <1>1, <1>2, <2>1, FS_AddElement
  <2> QED
    BY <1>3, <2>2 DEF Fed, S, T, U
<1>4. CASE n \notin S
  <2>1. U = T
    BY <1>1, <1>4
  <2> QED
    BY <1>4, <2>1 DEF Fed
<1> QED
  BY <1>3, <1>4

\* While a store is still to come not all inputs are stored ...
LEMMA FedBefore ==
  ASSUME NEW d \in Subs, NEW n \in Nat, NEW k \in Stores(Father[d], d), k >= n
  PROVE  Fed(d, n) < Inputs(d)
<1> DEFINE S == Stores(Father[d], d)
           T == {j \in S : j < n}
<1>1. IsFiniteSet(S) /\ T \in SUBSET S /\ Fed(d, n) \in Nat /\ Inputs(d) \in Nat
      /\ Fed(d, n) <= Inputs(d)
  BY StoresFinite
<1>2. k \in Nat /\ k \in S /\ k \notin T
  BY LenBody, FatherType DEF Stores
<1>3. Fed(d, n) = Cardinality(T) /\ Inputs(d) = Cardinality(S)
  BY DEF Fed, Inputs
<1> HIDE DEF S, T
<1>4. Cardinality(T) # Cardinality(S)
  BY <1>1, <1>2, FS_Subset
<1> QED
  BY <1>1, <1>3, <1>4

\* ... and after the last one they are.
LEMMA FedAll ==
  ASSUME NEW d \in Subs, NEW n \in Nat, \A k \in Stores(Father[d], d) : k < n
  PROVE  Fed(d, n) = Inputs(d)
<1>1. {k \in Stores(Father[d], d) : k < n} = Stores(Father[d], d)
  OBVIOUS
<1> QED
  BY <1>1 DEF Fed, Inputs

\* A store is in the body of the father only, after the one creation of the component.
LEMMA CreatedNext ==
  ASSUME NEW d \in Subs, NEW n \in 1..Len(Body[Father[d]])
  PROVE  CreatedIn(d, n + 1) <=>
           CreatedIn(d, n) \/ (Body[Father[d]][n].op = "create" /\ Body[Father[d]][n].cmp = d)
<1>1. Len(Body[Father[d]]) \in Nat
  BY FatherType, LenBody
<1> QED
  BY <1>1 DEF CreatedIn

-----------------------------------------------------------------------------
(* What a step does to the stacks.                                         *)

LEMMA StackType ==
  ASSUME WitnessInv, NEW u \in Comps
  PROVE  /\ stack[u] \in Seq(FrameType) /\ Len(stack[u]) \in Nat
         /\ stack[u] # <<>> <=> Len(stack[u]) > 0
         /\ \A k \in 1..Len(stack[u]) : stack[u][k] \in FrameType /\ stack[u][k].cmp \in Comps
                                         /\ stack[u][k].at \in Nat
<1>1. stack[u] \in Seq(FrameType)
  BY DEF WitnessInv
<1>2. \A k \in 1..Len(stack[u]) : stack[u][k] \in FrameType
  BY <1>1
<1> QED
  BY <1>1, <1>2 DEF FrameType

\* The top of t is now g; nothing else has changed.
Moved(t, g) ==
  /\ \A u \in Comps : Len(stack'[u]) = Len(stack[u])
  /\ \A u \in Comps : \A k \in 1..Len(stack[u]) :
       stack'[u][k] = IF u = t /\ k = Len(stack[t]) THEN g ELSE stack[u][k]

LEMMA TopMoved ==
  ASSUME WitnessInv, NEW t \in Comps, stack[t] # <<>>, NEW g, stack' = WithTop(t, g)
  PROVE  Moved(t, g)
<1>1. stack \in [Comps -> Seq(FrameType)]
  BY DEF WitnessInv
<1>2. \A u \in Comps : stack'[u] = IF u = t THEN ReplaceTop(stack[t], g) ELSE stack[u]
  BY <1>1 DEF WithTop
<1>3. Len(stack[t]) \in Nat
  BY StackType
<1>4. Len(ReplaceTop(stack[t], g)) = Len(stack[t])
  BY <1>3 DEF ReplaceTop
<1>5. \A k \in 1..Len(stack[t]) :
        ReplaceTop(stack[t], g)[k] = IF k = Len(stack[t]) THEN g ELSE stack[t][k]
  BY DEF ReplaceTop
<1> QED
  BY <1>2, <1>4, <1>5 DEF Moved

LEMMA TopPlace ==
  ASSUME WitnessInv, NEW t \in Comps, stack[t] # <<>>
  PROVE  /\ Len(stack[t]) \in 1..Len(stack[t]) /\ Top(t) = stack[t][Len(stack[t])]
         /\ Top(t) \in FrameType /\ Top(t).cmp \in Comps /\ OnStack(Top(t).cmp)
<1>1. Len(stack[t]) \in 1..Len(stack[t])
  BY StackType
<1>2. Top(t) = stack[t][Len(stack[t])]
  BY DEF Top
<1> QED
  BY <1>1, <1>2, StackType DEF OnStack

\* No new call: a component is still run once.
LEMMA RunOnceKept ==
  ASSUME RunInv,
         \A u \in Comps : \A l \in 1..Len(stack'[u]) :
           l \in 1..Len(stack[u]) /\ stack'[u][l].cmp = stack[u][l].cmp
  PROVE  RunOnce'
<1>1. SUFFICES ASSUME NEW u \in Comps, NEW v \in Comps,
                      NEW k \in 1..Len(stack'[u]), NEW l \in 1..Len(stack'[v]),
                      stack'[u][k].cmp = stack'[v][l].cmp
               PROVE  u = v /\ k = l
  BY Zenon DEF RunOnce
<1>2. /\ k \in 1..Len(stack[u]) /\ stack'[u][k].cmp = stack[u][k].cmp
      /\ l \in 1..Len(stack[v]) /\ stack'[v][l].cmp = stack[v][l].cmp
  BY Zenon
<1>3. stack[u][k].cmp = stack[v][l].cmp
  BY <1>1, <1>2
<1>4. RunOnce
  BY DEF RunInv
<1> QED
  BY <1>2, <1>3, <1>4 DEF RunOnce

-----------------------------------------------------------------------------
(* A call goes on without creating or feeding a component.                 *)

Untaken == UNCHANGED <<stored, created, started, finished, released>>

LEMMA RunMove ==
  ASSUME WitnessInv, RunInv, NEW t \in Comps, stack[t] # <<>>, NEW g,
         g.cmp = Top(t).cmp, stack' = WithTop(t, g), Untaken,
         \/ Past(g) = Past(Top(t))
         \/ /\ Past(g) = Past(Top(t)) + 1
            /\ Past(Top(t)) \in 1..Len(Body[g.cmp])
            /\ Body[g.cmp][Past(Top(t))].op \notin {"create", "input"},
         g.step \in {"outputs", "release"} =>
           \/ Top(t).step \in {"outputs", "release"}
           \/ Children(g.cmp) \cap started \subseteq finished
  PROVE  RunInv'
<1>1. Moved(t, g)
  BY TopMoved
<1>2. /\ Len(stack[t]) \in 1..Len(stack[t]) /\ Top(t) = stack[t][Len(stack[t])]
      /\ Top(t).cmp \in Comps
  BY TopPlace
<1>3. \A u \in Comps : Len(stack'[u]) = Len(stack[u])
  BY <1>1 DEF Moved
<1>4. \A u \in Comps : \A k \in 1..Len(stack[u]) : stack'[u][k].cmp = stack[u][k].cmp
  BY <1>1, <1>2 DEF Moved
<1>5. ASSUME NEW d PROVE OnStack(d)' <=> OnStack(d)
  <2>1. \A u \in Comps : (\E k \in 1..Len(stack'[u]) : stack'[u][k].cmp = d)
                         <=> (\E k \in 1..Len(stack[u]) : stack[u][k].cmp = d)
    BY <1>3, <1>4
  <2> QED
    BY <2>1 DEF OnStack
<1>6. \A d : Begun(d)' <=> Begun(d)
  BY DEF Begun, Untaken
<1>7. AllBegun' /\ RunOnce' /\ Untouched'
  <2>1. AllBegun'
    BY <1>3, <1>4, <1>6 DEF RunInv, AllBegun, Untaken
  <2>2. RunOnce'
    BY <1>3, <1>4, RunOnceKept
  <2>3. Untouched'
    BY <1>6 DEF RunInv, Untouched, Untaken
  <2> QED
    BY <2>1, <2>2, <2>3
<1>8. Nested'
  <2>1. ASSUME NEW u \in Comps PROVE stack'[u] # <<>> => stack'[u][1].cmp = u
    <3>1. SUFFICES ASSUME stack'[u] # <<>> PROVE stack'[u][1].cmp = u
      OBVIOUS
    <3>2. stack[u] # <<>>
      <4>1. CASE u = t
        BY <4>1
      <4>2. CASE u # t
        BY <3>1, <4>2 DEF WithTop, WitnessInv
      <4> QED
        BY <4>1, <4>2
    <3>3. 1 \in 1..Len(stack[u])
      BY <3>2, StackType
    <3> QED
      BY <3>2, <3>3, <1>4 DEF RunInv, Nested
  <2>2. ASSUME NEW u \in Comps, NEW k \in 2..Len(stack'[u])
        PROVE  stack'[u][k].cmp \in Children(stack'[u][k - 1].cmp)
    <3>1. k \in 2..Len(stack[u]) /\ k \in 1..Len(stack[u]) /\ k - 1 \in 1..Len(stack[u])
      BY <1>3, StackType
    <3> QED
      BY <3>1, <1>4 DEF RunInv, Nested
  <2> QED
    BY <2>1, <2>2 DEF Nested
<1>9. Threads'
  <2>1. \A u \in Comps : stack'[u] # <<>> <=> stack[u] # <<>>
    <3>1. stack' \in [Comps -> {stack'[u] : u \in Comps}] /\ Len(ReplaceTop(stack[t], g)) > 0
      BY <1>2, <1>3, StackType DEF WithTop, WitnessInv, ReplaceTop
    <3>2. ReplaceTop(stack[t], g) # <<>>
      BY <3>1
    <3> QED
      BY <3>2 DEF WithTop, WitnessInv
  <2> QED
    BY <2>1 DEF RunInv, Threads, Untaken
<1>10. FathersRun' /\ ReleasedEnded' /\ stored' \in [Comps -> Nat]
  BY <1>5, <1>6 DEF RunInv, FathersRun, ReleasedEnded, Untaken
<1>11. Progress'
  <2>1. SUFFICES ASSUME NEW u \in Comps, NEW k \in 1..Len(stack'[u]),
                        NEW d \in Children(stack'[u][k].cmp)
                 PROVE  /\ stored[d] = Fed(d, Past(stack'[u][k]))
                        /\ d \in created <=> CreatedIn(d, Past(stack'[u][k]))
    BY DEF Progress, Untaken
  <2>5. k \in 1..Len(stack[u]) /\ d \in Children(stack[u][k].cmp)
    BY <1>3, <1>4
  <2>2. /\ stored[d] = Fed(d, Past(stack[u][k]))
        /\ d \in created <=> CreatedIn(d, Past(stack[u][k]))
    BY <2>5 DEF RunInv, Progress
  <2>3. CASE stack'[u][k] = stack[u][k]
    BY <2>2, <2>3
  <2>4. CASE u = t /\ k = Len(stack[t])
    <3>1. stack'[u][k] = g /\ stack[u][k] = Top(t) /\ d \in Subs /\ Father[d] = g.cmp
      BY <1>1, <1>2, <2>4, <2>5, ChildType DEF Moved
    <3>2. CASE Past(g) = Past(Top(t))
      BY <2>2, <3>1, <3>2
    <3>3. CASE /\ Past(g) = Past(Top(t)) + 1
               /\ Past(Top(t)) \in 1..Len(Body[g.cmp])
               /\ Body[g.cmp][Past(Top(t))].op \notin {"create", "input"}
      <4>1. Past(Top(t)) \notin Stores(Father[d], d)
        BY <3>1, <3>3 DEF Stores
      <4> QED
        BY <2>2, <3>1, <3>3, <4>1, FedNext, CreatedNext
    <3> QED
      BY <3>2, <3>3
  <2> QED
    BY <1>1, <2>3, <2>4, <2>5 DEF Moved
<1>12. Joined'
  <2>1. SUFFICES ASSUME NEW u \in Comps, NEW k \in 1..Len(stack[u]),
                        stack'[u][k].step \in {"outputs", "release"}
                 PROVE  Children(stack[u][k].cmp) \cap started \subseteq finished
    BY <1>3, <1>4 DEF Joined, Untaken, Children
  <2>2. stack[u][k].step \in {"outputs", "release"} =>
          Children(stack[u][k].cmp) \cap started \subseteq finished
    BY DEF RunInv, Joined
  <2>3. CASE stack'[u][k] = stack[u][k]
    BY <2>1, <2>2, <2>3
  <2>4. CASE u = t /\ k = Len(stack[t])
    <3>1. stack'[u][k] = g /\ stack[u][k] = Top(t)
      BY <1>1, <1>2, <2>4 DEF Moved
    <3> QED
      BY <2>1, <2>2, <3>1
  <2> QED
    BY <1>1, <2>3, <2>4 DEF Moved
<1> QED
  BY <1>7, <1>8, <1>9, <1>10, <1>11, <1>12 DEF RunInv

-----------------------------------------------------------------------------
(* A component is created, or one of its inputs is stored.                 *)

Feeds(t, d) ==
  /\ AtStatement(t) /\ Top(t).step = "run" /\ Current(t).cmp = d
  /\ \/ Current(t).op = "create" /\ created' = created \cup {d} /\ stored' = stored
     \/ Current(t).op = "input" /\ stored' = [stored EXCEPT ![d] = @ + 1] /\ created' = created

\* The statement of t is the one that begins the run of d.
Begins(t, d) == IF Current(t).op = "create" THEN Inputs(d) = 0 ELSE IsLast(Top(t).cmp, Top(t).at)

LEMMA FedComponent ==
  ASSUME WitnessInv, RunInv, NEW t \in Comps, NEW d, Feeds(t, d)
  PROVE  /\ stack[t] # <<>> /\ Top(t).at \in 1..Len(Body[Top(t).cmp])
         /\ Current(t) = Body[Top(t).cmp][Top(t).at]
         /\ d \in Children(Top(t).cmp) /\ d \in Subs /\ Father[d] = Top(t).cmp
         /\ stored[d] = Fed(d, Top(t).at)
         /\ d \in created <=> CreatedIn(d, Top(t).at)
<1>1. stack[t] # <<>> /\ Running(t)
  BY DEF Feeds, AtStatement, Running
<1>2. /\ Len(stack[t]) \in 1..Len(stack[t]) /\ Top(t) = stack[t][Len(stack[t])]
      /\ Top(t).cmp \in Comps
  BY <1>1, TopPlace
<1>3. Top(t).at \in 1..Len(Body[Top(t).cmp])
  BY <1>1, TopType DEF Feeds
<1>4. Current(t) = Body[Top(t).cmp][Top(t).at] /\ Current(t).op # "output" /\ Current(t).cmp = d
  BY DEF Feeds, Current
<1>5. d \in Children(Top(t).cmp)
  BY <1>2, <1>3, <1>4, TargetType
<1>6. Past(Top(t)) = Top(t).at
  BY DEF Feeds, Past
<1>7. /\ stored[d] = Fed(d, Top(t).at)
      /\ d \in created <=> CreatedIn(d, Top(t).at)
  BY <1>2, <1>5, <1>6 DEF RunInv, Progress
<1> QED
  BY <1>1, <1>2, <1>3, <1>4, <1>5, <1>7, ChildType

LEMMA FedNotBegun ==
  ASSUME WitnessInv, RunInv, NEW t \in Comps, NEW d, Feeds(t, d)
  PROVE  /\ ~ Begun(d) /\ ~ OnStack(d) /\ d \notin started /\ stack[d] = <<>>
         /\ \A e \in Children(d) : e \notin created /\ stored[e] = 0
<1> DEFINE c == Top(t).cmp
           k == Top(t).at
<1>1. /\ k \in 1..Len(Body[c]) /\ Current(t) = Body[c][k] /\ d \in Subs /\ Father[d] = c
      /\ stored[d] = Fed(d, k) /\ (d \in created <=> CreatedIn(d, k)) /\ d \in Children(c)
  BY FedComponent
<1>2. c \in Comps /\ Len(Body[c]) \in Nat /\ k \in Nat /\ d # Main /\ d \in Comps
  BY <1>1, FatherType, LenBody DEF Subs
<1> HIDE DEF c, k
<1>3. ~ Begun(d)
  <2>1. CASE Body[c][k].op = "create"
    <3>1. ~ CreatedIn(d, k)
      BY <1>1, <1>2, <2>1, CreationAssumption DEF CreatedIn, Feeds, k
    <3> QED
      BY <1>1, <1>2, <3>1 DEF Begun
  <2>2. CASE Body[c][k].op = "input"
    <3>1. k \in Stores(Father[d], d)
      BY <1>1, <2>2 DEF Stores, Feeds, k
    <3>2. Inputs(d) \in Nat /\ Fed(d, k) \in Nat
      BY <1>1, <1>2, StoresFinite
    <3>3. k >= k
      BY <1>2
    <3>4. Fed(d, k) < Inputs(d)
      BY <1>1, <1>2, <3>1, <3>3, FedBefore
    <3> QED
      BY <1>1, <1>2, <3>2, <3>4 DEF Begun
  <2> QED
    BY <1>1, <2>1, <2>2 DEF Feeds
<1>4. ~ OnStack(d) /\ d \notin started
  BY <1>3 DEF RunInv, AllBegun, OnStack
<1>5. stack[d] = <<>>
  BY <1>2, <1>4 DEF RunInv, Threads
<1>6. ASSUME NEW e \in Children(d) PROVE e \notin created /\ stored[e] = 0
  <2>1. e \in Subs /\ Father[e] = d
    BY <1>2, ChildType
  <2> QED
    BY <1>3, <2>1 DEF RunInv, Untouched
<1> QED
  BY <1>3, <1>4, <1>5, <1>6

LEMMA FedState ==
  ASSUME WitnessInv, RunInv, NEW t \in Comps, NEW d, Feeds(t, d)
  PROVE  /\ stored' \in [Comps -> Nat]
         /\ \A x \in Comps : x # d => stored'[x] = stored[x] /\ (x \in created' <=> x \in created)
         /\ stored'[d] = Fed(d, Top(t).at + 1)
         /\ d \in created' /\ CreatedIn(d, Top(t).at + 1)
         /\ Begun(d)' <=> Begins(t, d)
<1> DEFINE c == Top(t).cmp
           k == Top(t).at
<1>1. /\ k \in 1..Len(Body[c]) /\ Current(t) = Body[c][k] /\ d \in Subs /\ Father[d] = c
      /\ stored[d] = Fed(d, k) /\ (d \in created <=> CreatedIn(d, k)) /\ d \in Children(c)
  BY FedComponent
<1>2. c \in Comps /\ Len(Body[c]) \in Nat /\ k \in Nat /\ d # Main /\ d \in Comps
  BY <1>1, FatherType, LenBody DEF Subs
<1>3. stored \in [Comps -> Nat] /\ Body[c][k].cmp = d /\ Inputs(d) \in Nat /\ Fed(d, k) \in Nat
      /\ Fed(d, k + 1) \in Nat /\ Fed(d, k) <= Inputs(d)
  <2>1. stored \in [Comps -> Nat] /\ Body[c][k].cmp = d
    BY <1>1 DEF RunInv, Feeds
  <2> HIDE DEF c, k
  <2>2. Inputs(d) \in Nat /\ Fed(d, k) \in Nat /\ Fed(d, k) <= Inputs(d)
    BY <1>1, <1>2, StoresFinite
  <2>3. k + 1 \in Nat
    BY <1>2
  <2>4. Fed(d, k + 1) \in Nat
    BY <1>1, <2>3, StoresFinite
  <2> QED
    BY <2>1, <2>2, <2>4
<1>4. /\ stored' \in [Comps -> Nat]
      /\ \A x \in Comps : x # d => stored'[x] = stored[x] /\ (x \in created' <=> x \in created)
  BY <1>2, <1>3 DEF Feeds
<1> HIDE DEF c, k
<1>5. CASE Body[c][k].op = "create"
  <2>1. created' = created \cup {d} /\ stored' = stored
    BY <1>1, <1>5 DEF Feeds, k
  <2>2. k \notin Stores(Father[d], d)
    BY <1>1, <1>5 DEF Stores
  <2>3. Fed(d, k + 1) = Fed(d, k) /\ CreatedIn(d, k + 1)
    BY <1>1, <1>3, <1>5, <2>2, FedNext, CreatedNext
  <2>4. Begun(d)' <=> Fed(d, k) = Inputs(d)
    BY <1>1, <1>2, <2>1 DEF Begun
  <2>5. Fed(d, k) = Inputs(d) <=> Inputs(d) = 0
    <3>1. CASE Stores(Father[d], d) = {}
      <4>1. Inputs(d) = 0
        BY <3>1, FS_EmptySet DEF Inputs
      <4> QED
        BY <1>3, <4>1
    <3>2. CASE Stores(Father[d], d) # {}
      <4>1. PICK j \in Stores(Father[d], d) : TRUE
        BY <3>2
      <4>2. j \in 1..Len(Body[c]) /\ Body[c][j].op = "input" /\ Body[c][j].cmp = d
        BY <1>1, <4>1 DEF Stores
      <4>3. PICK i \in 1..(j - 1) : Body[c][i].op = "create" /\ Body[c][i].cmp = Body[c][j].cmp
        BY <1>2, <4>2, CreationAssumption
      <4>4. i \in 1..Len(Body[c]) /\ i < j
        BY <1>2, <4>2, <4>3
      <4>5. i = k
        <5>1. Body[c][i].op = "create" /\ Body[c][i].cmp = Body[c][k].cmp
          BY <1>3, <4>2, <4>3
        <5> QED
          BY <1>1, <1>2, <1>5, <4>4, <5>1, CreationAssumption
      <4>6. j >= k
        BY <1>2, <4>2, <4>4, <4>5
      <4>7. Fed(d, k) < Inputs(d)
        BY <1>1, <1>2, <4>1, <4>6, FedBefore
      <4> QED
        BY <1>3, <4>7
    <3> QED
      BY <3>1, <3>2
  <2>6. Begins(t, d) <=> Inputs(d) = 0
    BY <1>1, <1>5 DEF Begins, k
  <2>7. stored'[d] = Fed(d, k + 1)
    BY <1>1, <2>1, <2>3
  <2> QED
    BY <1>4, <2>1, <2>3, <2>4, <2>5, <2>6, <2>7 DEF k
<1>6. CASE Body[c][k].op = "input"
  <2>1. created' = created /\ stored' = [stored EXCEPT ![d] = @ + 1]
    BY <1>1, <1>6 DEF Feeds, k
  <2>2. k \in Stores(Father[d], d)
    BY <1>1, <1>3, <1>6 DEF Stores
  <2>3. Fed(d, k + 1) = Fed(d, k) + 1
    BY <1>1, <2>2, FedNext
  <2>4. stored'[d] = Fed(d, k + 1)
    BY <1>1, <1>2, <1>3, <2>1, <2>3
  <2>5. CreatedIn(d, k) /\ CreatedIn(d, k + 1)
    <3>1. PICK i \in 1..(k - 1) : Body[c][i].op = "create" /\ Body[c][i].cmp = Body[c][k].cmp
      BY <1>1, <1>2, <1>6, CreationAssumption
    <3>2. i \in 1..Len(Body[Father[d]]) /\ i < k /\ i < k + 1
      BY <1>1, <1>2
    <3>3. Body[Father[d]][i].op = "create" /\ Body[Father[d]][i].cmp = d
      BY <1>1, <1>3, <3>1
    <3> QED
      BY <3>2, <3>3, Zenon DEF CreatedIn
  <2>6. d \in created'
    BY <1>1, <2>1, <2>5
  <2>7. Begun(d)' <=> Fed(d, k + 1) = Inputs(d)
    BY <1>2, <2>4, <2>6 DEF Begun
  <2>8. Begins(t, d) <=> IsLast(c, k)
    BY <1>1, <1>6 DEF Begins, k, c
  <2>9. IsLast(c, k) <=> \A j \in Stores(Father[d], d) : j < k + 1
    BY <1>1, <1>2, <1>3 DEF IsLast, Stores
  <2>10. (\A j \in Stores(Father[d], d) : j < k + 1) <=> Fed(d, k + 1) = Inputs(d)
    <3>1. CASE \A j \in Stores(Father[d], d) : j < k + 1
      BY <1>1, <1>2, <3>1, FedAll
    <3>2. CASE \E j \in Stores(Father[d], d) : ~ (j < k + 1)
      <4>1. PICK j \in Stores(Father[d], d) : ~ (j < k + 1)
        BY <3>2
      <4>2. j \in Nat /\ j >= k + 1 /\ k + 1 \in Nat
        BY <1>2, <4>1 DEF Stores
      <4>3. Fed(d, k + 1) < Inputs(d)
        BY <1>1, <4>1, <4>2, FedBefore
      <4> QED
        BY <1>3, <4>1, <4>3
    <3> QED
      BY <3>1, <3>2
  <2> QED
    BY <1>4, <2>4, <2>5, <2>6, <2>7, <2>8, <2>9, <2>10 DEF k
<1> QED
  BY <1>1, <1>5, <1>6 DEF Feeds

\* The call at the top of t goes on to g; when the run of d begins, its call h is
\* place m of thread w: on top of g, or the first of the thread of d.
Goes(t, d, g, w, m, h) ==
  /\ \A u \in Comps : \A l \in 1..Len(stack[u]) :
       /\ l \in 1..Len(stack'[u])
       /\ stack'[u][l] = IF u = t /\ l = Len(stack[t]) THEN g ELSE stack[u][l]
  /\ \A u \in Comps : \A l \in 1..Len(stack'[u]) :
       l \in 1..Len(stack[u]) \/ (Begins(t, d) /\ u = w /\ l = m)
  /\ Begins(t, d) => /\ m \in 1..Len(stack'[w]) /\ m \notin 1..Len(stack[w])
                     /\ stack'[w][m] = h
                     /\ (w = d /\ m = 1) \/ (w = t /\ m = Len(stack[t]) + 1)
  /\ started' = IF Begins(t, d) /\ w # t THEN started \cup {d} ELSE started

LEMMA RunFeed ==
  ASSUME WitnessInv, WitnessInv', RunInv, NEW t \in Comps, NEW d, Feeds(t, d),
         NEW g, g.cmp = Top(t).cmp, Past(g) = Top(t).at + 1, g.step \in {"run", "start"},
         NEW w \in Comps, NEW m \in Nat, NEW h, h.cmp = d, h.at = 1, h.step = "run",
         Goes(t, d, g, w, m, h), UNCHANGED <<finished, released>>
  PROVE  RunInv'
<1> DEFINE c == Top(t).cmp
           n == Len(stack[t])
           b == Begins(t, d)
<1>1. /\ stack[t] # <<>> /\ d \in Children(c) /\ d \in Subs /\ Father[d] = c
      /\ stored[d] = Fed(d, Top(t).at) /\ (d \in created <=> CreatedIn(d, Top(t).at))
  BY FedComponent
<1>2. /\ ~ Begun(d) /\ ~ OnStack(d) /\ d \notin started /\ stack[d] = <<>>
      /\ \A e \in Children(d) : e \notin created /\ stored[e] = 0
  BY FedNotBegun
<1>3. /\ stored' \in [Comps -> Nat]
      /\ \A x \in Comps : x # d => stored'[x] = stored[x] /\ (x \in created' <=> x \in created)
      /\ stored'[d] = Fed(d, Top(t).at + 1)
      /\ d \in created' /\ CreatedIn(d, Top(t).at + 1)
      /\ Begun(d)' <=> b
  BY FedState
<1>4. /\ n \in 1..n /\ Top(t) = stack[t][n] /\ c \in Comps /\ OnStack(c)
      /\ d \in Comps /\ d # Main /\ c # d /\ n \in Nat /\ stack[t][n].cmp = c
  BY <1>1, <1>2, TopPlace, StackType DEF Subs
<1>5. /\ \A u \in Comps : \A l \in 1..Len(stack[u]) :
           /\ l \in 1..Len(stack'[u])
           /\ stack'[u][l] = IF u = t /\ l = n THEN g ELSE stack[u][l]
           /\ stack'[u][l].cmp = stack[u][l].cmp
      /\ \A u \in Comps : \A l \in 1..Len(stack'[u]) :
           l \in 1..Len(stack[u]) \/ (b /\ u = w /\ l = m)
      /\ b => /\ m \in 1..Len(stack'[w]) /\ m \notin 1..Len(stack[w])
              /\ stack'[w][m] = h
              /\ (w = d /\ m = 1) \/ (w = t /\ m = n + 1)
      /\ started' = IF b /\ w # t THEN started \cup {d} ELSE started
  BY <1>4 DEF Goes
<1>6. \A u \in Comps : /\ Len(stack'[u]) \in Nat /\ (stack'[u] # <<>> <=> Len(stack'[u]) > 0)
                       /\ Len(stack[u]) \in Nat /\ (stack[u] # <<>> <=> Len(stack[u]) > 0)
  BY DEF WitnessInv
<1>7. \A x \in Comps : x # d => (Begun(x)' <=> Begun(x))
  BY <1>3 DEF Begun
<1> HIDE DEF c, n, b
<1>8. ASSUME NEW u \in Comps, NEW l \in 1..Len(stack[u]), stack[u][l].cmp = c
      PROVE  u = t /\ l = n
  <2>1. n \in 1..Len(stack[t]) /\ stack[t][n].cmp = c
    BY <1>4 DEF n
  <2>2. stack[u][l].cmp = stack[t][n].cmp
    BY <1>8, <2>1
  <2>3. RunOnce
    BY DEF RunInv
  <2> QED
    BY <2>1, <2>2, <2>3 DEF RunOnce
<1>9. ASSUME NEW x PROVE OnStack(x)' <=> OnStack(x) \/ (b /\ x = d)
  <2>1. ASSUME OnStack(x) PROVE OnStack(x)'
    <3>1. PICK u \in Comps : \E l \in 1..Len(stack[u]) : stack[u][l].cmp = x
      BY <2>1 DEF OnStack
    <3>2. PICK l \in 1..Len(stack[u]) : stack[u][l].cmp = x
      BY <3>1
    <3>3. l \in 1..Len(stack'[u]) /\ stack'[u][l].cmp = x
      BY <1>5, <3>2
    <3> QED
      BY <3>3 DEF OnStack
  <2>2. ASSUME b, x = d PROVE OnStack(x)'
    <3>1. m \in 1..Len(stack'[w]) /\ stack'[w][m].cmp = x
      BY <1>5, <2>2
    <3> QED
      BY <3>1 DEF OnStack
  <2>3. ASSUME OnStack(x)' PROVE OnStack(x) \/ (b /\ x = d)
    <3>1. PICK u \in Comps : \E l \in 1..Len(stack'[u]) : stack'[u][l].cmp = x
      BY <2>3 DEF OnStack
    <3>2. PICK l \in 1..Len(stack'[u]) : stack'[u][l].cmp = x
      BY <3>1
    <3>3. CASE l \in 1..Len(stack[u])
      <4>1. stack[u][l].cmp = x
        BY <1>5, <3>2, <3>3
      <4> QED
        BY <3>3, <4>1 DEF OnStack
    <3>4. CASE b /\ u = w /\ l = m
      BY <1>5, <3>2, <3>4
    <3> QED
      BY <1>5, <3>3, <3>4
  <2> QED
    BY <2>1, <2>2, <2>3
<1>10. AllBegun'
  <2>1. ASSUME NEW u \in Comps, NEW l \in 1..Len(stack'[u]) PROVE Begun(stack[u][l].cmp)'
    <3>1. CASE l \in 1..Len(stack[u])
      <4>1. Begun(stack[u][l].cmp) /\ stack[u][l].cmp \in Comps
        BY <3>1, StackType DEF RunInv, AllBegun
      <4>2. stack'[u][l].cmp = stack[u][l].cmp
        BY <3>1, <1>5
      <4> QED
        BY <4>1, <4>2, <1>2, <1>7
    <3>2. CASE b /\ u = w /\ l = m
      BY <3>2, <1>3, <1>5
    <3> QED
      BY <3>1, <3>2, <1>5
  <2>2. \A u \in started' : Begun(u)'
    <3>1. \A u \in started : Begun(u)'
      BY <1>2, <1>7 DEF RunInv, AllBegun, Threads
    <3> QED
      BY <3>1, <1>3, <1>5
  <2> QED
    BY <2>1, <2>2 DEF AllBegun
<1>11. RunOnce'
  <2>1. SUFFICES ASSUME NEW u \in Comps, NEW v \in Comps,
                        NEW k \in 1..Len(stack'[u]), NEW l \in 1..Len(stack'[v]),
                        stack'[u][k].cmp = stack'[v][l].cmp
                 PROVE  u = v /\ k = l
    BY DEF RunOnce
  <2>2. \A x \in Comps : \A i \in 1..Len(stack'[x]) :
          \/ i \in 1..Len(stack[x]) /\ stack'[x][i].cmp = stack[x][i].cmp
             /\ stack'[x][i].cmp # d
          \/ x = w /\ i = m /\ stack'[x][i].cmp = d
    <3>1. \A x \in Comps : \A i \in 1..Len(stack[x]) : stack[x][i].cmp # d
      BY <1>2 DEF OnStack
    <3> QED
      BY <1>5, <3>1
  <2>3. CASE stack'[u][k].cmp = d
    BY <2>1, <2>2, <2>3
  <2>4. CASE stack'[u][k].cmp # d
    <3>1. /\ k \in 1..Len(stack[u]) /\ stack'[u][k].cmp = stack[u][k].cmp
          /\ l \in 1..Len(stack[v]) /\ stack'[v][l].cmp = stack[v][l].cmp
      BY <2>1, <2>2, <2>4
    <3>2. stack[u][k].cmp = stack[v][l].cmp /\ RunOnce
      BY <2>1, <3>1 DEF RunInv
    <3> QED
      BY <3>1, <3>2 DEF RunOnce
  <2> QED
    BY <2>3, <2>4
<1>12. Untouched'
  <2>1. SUFFICES ASSUME NEW x \in Subs, ~ Begun(Father[x])'
                 PROVE  x \notin created' /\ stored'[x] = 0
    BY DEF Untouched
  <2>2. Father[x] \in Comps /\ x \in Children(Father[x]) /\ x \in Comps
    BY FatherType DEF Subs
  <2>3. x # d
    BY <1>1, <1>4, <1>7, <2>1 DEF RunInv, AllBegun, OnStack
  <2>4. x \notin created /\ stored[x] = 0
    <3>1. CASE Father[x] = d
      BY <3>1, <2>2, <1>2
    <3>2. CASE Father[x] # d
      BY <3>2, <2>1, <2>2, <1>7 DEF RunInv, Untouched
    <3> QED
      BY <3>1, <3>2
  <2> QED
    BY <1>3, <2>2, <2>3, <2>4
<1>13. Progress'
  <2>1. SUFFICES ASSUME NEW u \in Comps, NEW l \in 1..Len(stack'[u]),
                        NEW x \in Children(stack'[u][l].cmp)
                 PROVE  /\ stored'[x] = Fed(x, Past(stack'[u][l]))
                        /\ x \in created' <=> CreatedIn(x, Past(stack'[u][l]))
    BY DEF Progress
  <2>2. CASE l \in 1..Len(stack[u])
    <3>1. stack'[u][l].cmp = stack[u][l].cmp /\ stack[u][l].cmp \in Comps
          /\ stack'[u][l] = IF u = t /\ l = n THEN g ELSE stack[u][l]
      BY <2>2, <1>5, StackType
    <3>2. x \in Subs /\ Father[x] = stack[u][l].cmp /\ x \in Comps
      BY <2>1, <3>1, ChildType
    <3>3. /\ stored[x] = Fed(x, Past(stack[u][l]))
          /\ x \in created <=> CreatedIn(x, Past(stack[u][l]))
      BY <2>2, <3>1 DEF RunInv, Progress
    <3>4. CASE x = d
      <4>1. u = t /\ l = n
        BY <1>1, <1>8, <2>2, <3>2, <3>4
      <4>2. Past(stack'[u][l]) = Top(t).at + 1
        BY <3>1, <4>1
      <4> QED
        BY <1>3, <3>4, <4>2
    <3>5. CASE x # d /\ ~ (u = t /\ l = n)
      BY <1>3, <3>1, <3>2, <3>3, <3>5
    <3>6. CASE x # d /\ u = t /\ l = n
      <4>1. /\ Top(t).at \in 1..Len(Body[c]) /\ Current(t) = Body[c][Top(t).at]
            /\ Current(t).cmp = d /\ Past(stack[u][l]) = Top(t).at /\ Father[x] = c
            /\ Past(stack'[u][l]) = Top(t).at + 1
        BY <1>4, <3>1, <3>2, <3>6, FedComponent DEF Feeds, Past, c
      <4>2. Top(t).at \notin Stores(Father[x], x) /\ Body[c][Top(t).at].cmp # x
        BY <3>6, <4>1 DEF Stores
      <4>3. /\ Fed(x, Top(t).at + 1) = Fed(x, Top(t).at)
            /\ CreatedIn(x, Top(t).at + 1) <=> CreatedIn(x, Top(t).at)
        BY <3>2, <4>1, <4>2, FedNext, CreatedNext
      <4> QED
        BY <1>3, <3>2, <3>3, <3>6, <4>1, <4>3
    <3> QED
      BY <3>4, <3>5, <3>6
  <2>3. CASE b /\ u = w /\ l = m
    <3>1. stack'[u][l] = h /\ Past(h) = 1 /\ x \in Children(d)
      BY <2>1, <2>3, <1>5 DEF Past
    <3>2. x \in Subs /\ Father[x] = d /\ x \in Comps
      BY <1>4, <3>1, ChildType
    <3>3. x # d
      BY <1>1, <1>4, <3>2
    <3>4. stored[x] = 0 /\ x \notin created /\ Fed(x, 1) = 0 /\ ~ CreatedIn(x, 1)
      BY <1>2, <3>1, <3>2, FedFirst
    <3> QED
      BY <1>3, <3>1, <3>2, <3>3, <3>4
  <2> QED
    BY <1>5, <2>2, <2>3
<1>14. Nested'
  <2>1. ASSUME NEW u \in Comps, stack'[u] # <<>> PROVE stack'[u][1].cmp = u
    <3>1. 1 \in 1..Len(stack'[u])
      BY <1>6, <2>1
    <3>2. CASE 1 \in 1..Len(stack[u])
      BY <3>2, <1>5, <1>6 DEF RunInv, Nested
    <3>3. CASE b /\ u = w /\ 1 = m
      BY <3>3, <1>4, <1>5
    <3> QED
      BY <1>5, <3>1, <3>2, <3>3
  <2>2. ASSUME NEW u \in Comps, NEW l \in 2..Len(stack'[u])
        PROVE  stack'[u][l].cmp \in Children(stack'[u][l - 1].cmp)
    <3>1. l \in 1..Len(stack'[u]) /\ l # 1
      BY <1>6
    <3>2. CASE l \in 1..Len(stack[u])
      <4>1. l \in 2..Len(stack[u]) /\ l - 1 \in 1..Len(stack[u])
        BY <1>6, <3>1, <3>2
      <4> QED
        BY <1>5, <3>2, <4>1 DEF RunInv, Nested
    <3>3. CASE b /\ u = w /\ l = m
      <4>1. u = t /\ l = n + 1 /\ l - 1 = n
        BY <3>1, <3>3, <1>4, <1>5
      <4>2. stack'[u][l - 1] = g /\ stack'[u][l] = h
        BY <3>3, <4>1, <1>4, <1>5
      <4> QED
        BY <4>2, <1>1 DEF c
    <3> QED
      BY <1>5, <3>1, <3>2, <3>3
  <2> QED
    BY <2>1, <2>2 DEF Nested
<1>15. Threads'
  <2>1. /\ Main \in started /\ finished \subseteq started /\ finished' = finished
        /\ started \subseteq created /\ created \subseteq Comps
        /\ \A u \in Comps : stack[u] # <<>> <=> u \in started \ finished
    BY DEF RunInv, Threads
  <2>2. created \subseteq created' /\ created' \subseteq Comps
    BY <1>1, <1>4, <2>1 DEF Feeds
  <2>3. \A u \in Comps : Len(stack'[u]) > 0 <=> 1 \in 1..Len(stack'[u])
    BY <1>6
  <2>4. ASSUME NEW u \in Comps PROVE stack'[u] # <<>> <=> stack[u] # <<>> \/ (b /\ u = w /\ w # t)
    <3>1. CASE stack[u] # <<>>
      <4>1. 1 \in 1..Len(stack[u])
        BY <1>6, <3>1
      <4> QED
        BY <1>5, <1>6, <2>3, <3>1, <4>1
    <3>2. CASE stack[u] = <<>>
      <4>1. u # t
        BY <1>1, <3>2
      <4>2. \A l : l \notin 1..Len(stack[u])
        BY <1>6, <3>2
      <4>3. stack'[u] # <<>> => b /\ u = w
        BY <1>5, <1>6, <2>3, <4>2
      <4>4. b /\ u = w => stack'[u] # <<>>
        BY <1>5, <1>6
      <4> QED
        BY <3>2, <4>1, <4>3, <4>4
    <3> QED
      BY <3>1, <3>2
  <2>5. b /\ w # t => w = d
    BY <1>5
  <2>6. \A u \in Comps : stack'[u] # <<>> <=> u \in started' \ finished'
    BY <1>2, <1>5, <2>1, <2>4, <2>5
  <2> QED
    BY <1>3, <1>5, <2>1, <2>2, <2>6 DEF Threads
<1>16. Joined'
  <2>1. SUFFICES ASSUME NEW u \in Comps, NEW l \in 1..Len(stack'[u]),
                        stack'[u][l].step \in {"outputs", "release"}
                 PROVE  Children(stack'[u][l].cmp) \cap started' \subseteq finished
    BY DEF Joined, Children
  <2>2. l \in 1..Len(stack[u]) /\ ~ (u = t /\ l = n) /\ stack'[u][l] = stack[u][l]
    BY <2>1, <1>5
  <2>3. Children(stack[u][l].cmp) \cap started \subseteq finished
    BY <2>1, <2>2 DEF RunInv, Joined
  <2>4. stack[u][l].cmp # c
    BY <1>8, <2>2
  <2>5. d \notin Children(stack[u][l].cmp)
    BY <1>1, <2>4 DEF Children
  <2> QED
    BY <1>5, <2>2, <2>3, <2>5
<1>17. FathersRun'
  <2>1. ASSUME NEW x \in Subs, OnStack(x)' PROVE OnStack(Father[x])'
    BY <1>1, <1>4, <1>9, <2>1 DEF RunInv, FathersRun
  <2> QED
    BY <2>1 DEF FathersRun
<1>18. ReleasedEnded'
  <2>1. ASSUME NEW x \in released
        PROVE  x \in Subs /\ Begun(Father[x])' /\ ~ OnStack(Father[x])'
    <3>1. x \in Subs /\ Begun(Father[x]) /\ ~ OnStack(Father[x]) /\ Father[x] \in Comps
      BY FatherType DEF RunInv, ReleasedEnded
    <3>2. Father[x] # d
      BY <3>1, <1>2
    <3> QED
      BY <3>1, <3>2, <1>7, <1>9
  <2> QED
    BY <2>1 DEF ReleasedEnded
<1> QED
  BY <1>3, <1>10, <1>11, <1>12, <1>13, <1>14, <1>15, <1>16, <1>17, <1>18 DEF RunInv

-----------------------------------------------------------------------------
(* A call returns.                                                         *)

\* What is left of the stacks: all places but the top of t.
LEMMA Returned ==
  ASSUME WitnessInv, WitnessInv', NEW t \in Comps, Release(t)
  PROVE  /\ stack[t] # <<>> /\ Top(t).step = "release"
         /\ \A u \in Comps : \A l \in 1..Len(stack'[u]) :
              /\ l \in 1..Len(stack[u]) /\ stack'[u][l] = stack[u][l]
              /\ ~ (u = t /\ l = Len(stack[t]))
         /\ \A u \in Comps : \A l \in 1..Len(stack[u]) :
              ~ (u = t /\ l = Len(stack[t])) => l \in 1..Len(stack'[u])
         /\ \A u \in Comps : stack'[u] # <<>> <=> stack[u] # <<>> /\ ~ (u = t /\ Len(stack[t]) = 1)
<1> DEFINE n == Len(stack[t])
           q == SubSeq(stack[t], 1, n - 1)
<1>1. stack[t] # <<>> /\ Top(t).step = "release" /\ stack' = [stack EXCEPT ![t] = q]
  BY DEF Release, AtEnd, Running
<1>2. stack[t] \in Seq(FrameType) /\ n \in Nat \ {0} /\ stack \in [Comps -> Seq(FrameType)]
  BY <1>1, StackType DEF WitnessInv
<1>3. q \in Seq(FrameType) /\ Len(q) = n - 1 /\ \A l \in 1..(n - 1) : q[l] = stack[t][l]
  <2>1. \A l \in 1..(n - 1) : stack[t][l] \in FrameType
    BY <1>2
  <2> DEFINE p == n - 1
  <2>2. 1 \in Int /\ p \in Int /\ p \in Nat
    BY <1>2
  <2>3. /\ SubSeq(stack[t], 1, p) \in Seq(FrameType)
        /\ Len(SubSeq(stack[t], 1, p)) = IF 1 <= p THEN p - 1 + 1 ELSE 0
        /\ \A i \in 1..(p - 1 + 1) : SubSeq(stack[t], 1, p)[i] = stack[t][1 + i - 1]
    <3> HIDE DEF p
    <3> QED
      BY <2>1, <2>2, SubSeqProperties DEF p
  <2>4. \A i \in 1..p : i \in 1..(p - 1 + 1) /\ 1 + i - 1 = i
    BY <2>2
  <2> HIDE DEF p
  <2>5. \A i \in 1..p : SubSeq(stack[t], 1, p)[i] = stack[t][i]
    BY <2>3, <2>4
  <2>6. Len(SubSeq(stack[t], 1, p)) = p
    BY <2>2, <2>3
  <2> QED
    BY <2>3, <2>5, <2>6 DEF p
<1> HIDE DEF q, n
<1>4. stack'[t] = q /\ \A u \in Comps : u # t => stack'[u] = stack[u]
  BY <1>1, <1>2
<1>5. \A u \in Comps : stack[u] \in Seq(FrameType) /\ Len(stack[u]) \in Nat
  BY <1>2
<1>6. q # <<>> <=> n # 1
  BY <1>2, <1>3
<1>7. \A u \in Comps : \A l \in 1..Len(stack'[u]) :
        /\ l \in 1..Len(stack[u]) /\ stack'[u][l] = stack[u][l]
        /\ ~ (u = t /\ l = Len(stack[t]))
  BY <1>2, <1>3, <1>4 DEF n
<1>8. \A u \in Comps : \A l \in 1..Len(stack[u]) :
        ~ (u = t /\ l = Len(stack[t])) => l \in 1..Len(stack'[u])
  BY <1>2, <1>3, <1>4, <1>5 DEF n
<1>9. \A u \in Comps : stack'[u] # <<>> <=> stack[u] # <<>> /\ ~ (u = t /\ Len(stack[t]) = 1)
  BY <1>1, <1>4, <1>6 DEF n
<1> QED
  BY <1>1, <1>7, <1>8, <1>9

LEMMA StepReleaseRun ==
  ASSUME WitnessInv, WitnessInv', RunInv, NEW t \in Comps, Release(t)
  PROVE  RunInv'
<1> DEFINE c == Top(t).cmp
           n == Len(stack[t])
<1>1. /\ stack[t] # <<>> /\ Top(t).step = "release"
      /\ \A u \in Comps : \A l \in 1..Len(stack'[u]) :
           l \in 1..Len(stack[u]) /\ stack'[u][l] = stack[u][l] /\ ~ (u = t /\ l = n)
      /\ \A u \in Comps : \A l \in 1..Len(stack[u]) :
           ~ (u = t /\ l = n) => l \in 1..Len(stack'[u])
      /\ \A u \in Comps : stack'[u] # <<>> <=> stack[u] # <<>> /\ ~ (u = t /\ n = 1)
  BY Returned
<1>2. /\ released' = released \cup (Children(c) \cap created)
      /\ finished' = IF n = 1 THEN finished \cup {t} ELSE finished
      /\ UNCHANGED <<stored, created, started>>
  BY DEF Release
<1>3. /\ n \in 1..n /\ n \in Nat /\ Top(t) = stack[t][n] /\ stack[t][n].cmp = c
      /\ c \in Comps /\ OnStack(c)
  BY <1>1, TopPlace, StackType
<1>4. \A u \in Comps : \A l \in 1..Len(stack[u]) : stack[u][l].cmp = c => u = t /\ l = n
  BY <1>3 DEF RunInv, RunOnce
<1>5. Children(c) \cap started \subseteq finished
  BY <1>1, <1>3 DEF RunInv, Joined
<1> HIDE DEF c, n
<1>6. ASSUME NEW x PROVE OnStack(x)' <=> OnStack(x) /\ x # c
  <2>1. OnStack(x)' => OnStack(x) /\ x # c
    BY <1>1, <1>4 DEF OnStack
  <2>2. ASSUME OnStack(x), x # c PROVE OnStack(x)'
    <3>a. PICK u \in Comps : \E l \in 1..Len(stack[u]) : stack[u][l].cmp = x
      BY <2>2 DEF OnStack
    <3>1. PICK l \in 1..Len(stack[u]) : stack[u][l].cmp = x
      BY <3>a
    <3>2. ~ (u = t /\ l = n)
      BY <1>3, <2>2, <3>1
    <3>3. l \in 1..Len(stack'[u]) /\ stack'[u][l].cmp = x
      BY <1>1, <3>1, <3>2
    <3> QED
      BY <3>3 DEF OnStack
  <2> QED
    BY <2>1, <2>2
<1>7. ASSUME NEW x \in Children(c) PROVE ~ OnStack(x)
  <2>1. SUFFICES ASSUME NEW u \in Comps, NEW l \in 1..Len(stack[u]), stack[u][l].cmp = x
                 PROVE  FALSE
    BY DEF OnStack
  <2>2. Father[x] = c /\ x \in Comps /\ Len(stack[u]) \in Nat /\ stack[u] # <<>>
    BY <1>3, ChildType, StackType
  <2>3. CASE l = 1
    <3>1. u = x /\ u \in started \ finished
      BY <2>1, <2>2, <2>3 DEF RunInv, Nested, Threads
    <3> QED
      BY <1>5, <3>1
  <2>4. CASE l # 1
    <3>1. l \in 2..Len(stack[u]) /\ l - 1 \in 1..Len(stack[u]) /\ l - 1 # l
      BY <2>2, <2>4
    <3>2. x \in Children(stack[u][l - 1].cmp)
      BY <2>1, <3>1 DEF RunInv, Nested
    <3>3. stack[u][l - 1].cmp = c
      BY <2>2, <3>2 DEF Children
    <3>4. u = t /\ l - 1 = n
      BY <1>4, <3>1, <3>3
    <3>5. l \in 1..n
      BY <3>4 DEF n
    <3> QED
      BY <1>3, <3>1, <3>4, <3>5
  <2> QED
    BY <2>3, <2>4
<1>8. \A x : Begun(x)' <=> Begun(x)
  BY <1>2 DEF Begun
<1>9. AllBegun' /\ RunOnce' /\ Untouched' /\ stored' \in [Comps -> Nat]
  <2>1. AllBegun'
    BY <1>1, <1>2, <1>8 DEF RunInv, AllBegun
  <2>2. RunOnce'
    <3>1. \A u \in Comps : \A l \in 1..Len(stack'[u]) :
            l \in 1..Len(stack[u]) /\ stack'[u][l].cmp = stack[u][l].cmp
      BY <1>1
    <3> QED
      BY <3>1, RunOnceKept
  <2>3. Untouched' /\ stored' \in [Comps -> Nat]
    BY <1>2, <1>8 DEF RunInv, Untouched
  <2> QED
    BY <2>1, <2>2, <2>3
<1>10. Progress'
  <2>1. SUFFICES ASSUME NEW u \in Comps, NEW l \in 1..Len(stack'[u]),
                        NEW x \in Children(stack'[u][l].cmp)
                 PROVE  /\ stored'[x] = Fed(x, Past(stack'[u][l]))
                        /\ x \in created' <=> CreatedIn(x, Past(stack'[u][l]))
    BY DEF Progress
  <2>2. l \in 1..Len(stack[u]) /\ stack'[u][l] = stack[u][l]
    BY <1>1
  <2>3. x \in Children(stack[u][l].cmp)
    BY <2>2
  <2>4. Progress
    BY DEF RunInv
  <2>5. /\ stored[x] = Fed(x, Past(stack[u][l]))
        /\ x \in created <=> CreatedIn(x, Past(stack[u][l]))
    BY <2>2, <2>3, <2>4 DEF Progress
  <2> QED
    BY <1>2, <2>2, <2>5
<1>11. Nested'
  <2>1. \A u \in Comps : Len(stack'[u]) \in Nat /\ (stack'[u] # <<>> => Len(stack'[u]) > 0)
    BY DEF WitnessInv
  <2>2. ASSUME NEW u \in Comps, stack'[u] # <<>> PROVE stack'[u][1].cmp = u
    <3>1. 1 \in 1..Len(stack'[u])
      BY <2>1, <2>2
    <3> QED
      BY <1>1, <2>2, <3>1 DEF RunInv, Nested
  <2>3. ASSUME NEW u \in Comps, NEW l \in 2..Len(stack'[u])
        PROVE  stack'[u][l].cmp \in Children(stack'[u][l - 1].cmp)
    <3>1. l \in 1..Len(stack'[u]) /\ l - 1 \in 1..Len(stack'[u])
      BY <2>1
    <3>2. l \in 2..Len(stack[u])
      BY <1>1, <3>1, StackType
    <3> QED
      BY <1>1, <3>1, <3>2 DEF RunInv, Nested
  <2> QED
    BY <2>2, <2>3 DEF Nested
<1>12. Threads'
  <2>1. t \in started \ finished
    BY <1>1 DEF RunInv, Threads
  <2> QED
    BY <1>1, <1>2, <2>1 DEF RunInv, Threads
<1>13. Joined'
  <2>1. SUFFICES ASSUME NEW u \in Comps, NEW l \in 1..Len(stack'[u]),
                        stack'[u][l].step \in {"outputs", "release"}
                 PROVE  Children(stack'[u][l].cmp) \cap started \subseteq finished'
    BY <1>2 DEF Joined, Children
  <2>2. l \in 1..Len(stack[u]) /\ stack'[u][l] = stack[u][l]
    BY <1>1
  <2>3. Children(stack[u][l].cmp) \cap started \subseteq finished
    BY <2>1, <2>2 DEF RunInv, Joined
  <2> QED
    BY <1>2, <2>2, <2>3
<1>14. FathersRun'
  <2>1. ASSUME NEW x \in Subs, OnStack(x)' PROVE OnStack(Father[x])'
    <3>1. OnStack(x) /\ OnStack(Father[x])
      BY <1>6, <2>1 DEF RunInv, FathersRun
    <3>2. Father[x] # c
      BY <1>7, <3>1, FatherType
    <3> QED
      BY <1>6, <3>1, <3>2
  <2> QED
    BY <2>1 DEF FathersRun
<1>15. ReleasedEnded'
  <2>1. ASSUME NEW x \in released'
        PROVE  x \in Subs /\ Begun(Father[x])' /\ ~ OnStack(Father[x])'
    <3>1. CASE x \in released
      BY <1>6, <1>8, <3>1 DEF RunInv, ReleasedEnded
    <3>2. CASE x \in Children(c)
      <4>1. x \in Subs /\ Father[x] = c
        BY <1>3, <3>2, ChildType
      <4>2. Begun(c)
        BY <1>3 DEF RunInv, AllBegun, OnStack
      <4> QED
        BY <1>6, <1>8, <4>1, <4>2
    <3> QED
      BY <1>2, <2>1, <3>1, <3>2
  <2> QED
    BY <2>1 DEF ReleasedEnded
<1> QED
  BY <1>9, <1>10, <1>11, <1>12, <1>13, <1>14, <1>15 DEF RunInv

-----------------------------------------------------------------------------
(* The steps.                                                              *)

LEMMA RunStays ==
  ASSUME RunInv, stack' = stack, Untaken
  PROVE  RunInv'
<1>1. \A d : (Begun(d)' <=> Begun(d)) /\ (OnStack(d)' <=> OnStack(d))
  BY DEF Untaken, Begun, OnStack
<1>2. AllBegun' /\ RunOnce' /\ Untouched'
  BY <1>1 DEF RunInv, Untaken, AllBegun, RunOnce, Untouched
<1>3. Progress' /\ Nested' /\ Threads' /\ Joined'
  <2>1. Progress'
    BY DEF RunInv, Untaken, Progress
  <2>2. Nested'
    BY DEF RunInv, Untaken, Nested
  <2>3. Threads' /\ Joined'
    BY DEF RunInv, Untaken, Threads, Joined
  <2> QED
    BY <2>1, <2>2, <2>3
<1>4. FathersRun' /\ ReleasedEnded' /\ stored' \in [Comps -> Nat]
  BY <1>1 DEF RunInv, Untaken, FathersRun, ReleasedEnded
<1> QED
  BY <1>2, <1>3, <1>4 DEF RunInv

\* The call goes on inside its statement, or at its end.
LEMMA RunAtStep ==
  ASSUME WitnessInv, RunInv, NEW t \in Comps, Running(t), Top(t).step # "start",
         NEW x \in Steps \ {"start"}, stack' = AtStep(t, x), Untaken,
         x \in {"outputs", "release"} =>
           \/ Top(t).step \in {"outputs", "release"}
           \/ Children(Top(t).cmp) \cap started \subseteq finished
  PROVE  RunInv'
<1> DEFINE g == [Top(t) EXCEPT !.step = x]
<1>1. stack[t] # <<>> /\ Top(t) \in FrameType
  BY TopType
<1>2. g.cmp = Top(t).cmp /\ g.at = Top(t).at /\ g.step = x
  BY <1>1 DEF FrameType
<1>3. stack' = WithTop(t, g)
  BY DEF AtStep
<1> HIDE DEF g
<1>4. Past(g) = Past(Top(t))
  BY <1>2 DEF Past
<1> QED
  BY <1>1, <1>2, <1>3, <1>4, RunMove

\* The call goes on to its next statement, past one that neither creates nor feeds.
LEMMA RunAdvance ==
  ASSUME WitnessInv, RunInv, NEW t \in Comps, AtStatement(t), stack' = Advance(t), Untaken,
         Top(t).step = "start" \/ Current(t).op \in {"load", "output"}
  PROVE  RunInv'
<1> DEFINE g == [Top(t) EXCEPT !.at = @ + 1, !.step = "run"]
<1>1. /\ stack[t] # <<>> /\ Top(t) \in FrameType /\ Top(t).at \in 1..Len(Body[Top(t).cmp])
      /\ Running(t)
  BY TopType DEF AtStatement
<1>2. g.cmp = Top(t).cmp /\ g.at = Top(t).at + 1 /\ g.step = "run"
  BY <1>1 DEF FrameType
<1>3. stack' = WithTop(t, g)
  BY DEF Advance
<1> HIDE DEF g
<1>4. \/ Past(g) = Past(Top(t))
      \/ /\ Past(g) = Past(Top(t)) + 1
         /\ Past(Top(t)) \in 1..Len(Body[g.cmp])
         /\ Body[g.cmp][Past(Top(t))].op \notin {"create", "input"}
  BY <1>1, <1>2 DEF Past, Current
<1> QED
  BY <1>1, <1>2, <1>3, <1>4, RunMove

LEMMA StepWaitSlotRun ==
  ASSUME WitnessInv, RunInv, NEW t \in Comps, WaitSlot(t) PROVE RunInv'
  BY RunStays DEF WaitSlot, Untaken

LEMMA StepTakeStartSlotRun ==
  ASSUME WitnessInv, RunInv, NEW t \in Comps, TakeStartSlot(t) PROVE RunInv'
<1>1. Running(t) /\ Top(t).step = "start"
  BY DEF TakeStartSlot
<1>2. Top(t).at \in 1..Len(Body[Top(t).cmp]) /\ Top(t).at \in Nat /\ Len(Body[Top(t).cmp]) \in Nat
  BY <1>1, TopType DEF FrameOK
<1>3. AtStatement(t)
  BY <1>1, <1>2 DEF AtStatement
<1> QED
  BY <1>1, <1>3, RunAdvance DEF TakeStartSlot, Untaken

LEMMA StepLoadPlainRun ==
  ASSUME WitnessInv, RunInv, NEW t \in Comps, LoadPlain(t) PROVE RunInv'
  BY RunAdvance DEF LoadPlain, Untaken

LEMMA StepLoadGivesSlotRun ==
  ASSUME WitnessInv, RunInv, NEW t \in Comps, LoadGivesSlot(t) PROVE RunInv'
  BY RunAtStep DEF LoadGivesSlot, Untaken, AtStatement, Steps

LEMMA StepLoadLocksRun ==
  ASSUME WitnessInv, RunInv, NEW t \in Comps, LoadLocks(t) PROVE RunInv'
<1>1. Running(t) /\ Top(t).step = "lock" /\ Untaken
  BY DEF LoadLocks, AtStatement, Untaken
<1>2. CASE stack' = AtStep(t, "slot")
  BY <1>1, <1>2, RunAtStep DEF Steps
<1>3. CASE stack' = stack
  BY <1>1, <1>3, RunStays
<1> QED
  BY <1>2, <1>3 DEF LoadLocks

LEMMA StepLoadReadsRun ==
  ASSUME WitnessInv, RunInv, NEW t \in Comps, LoadReads(t) PROVE RunInv'
<1>1. Running(t) /\ AtStatement(t) /\ Top(t).step = "slot" /\ Untaken /\ stack' = Advance(t)
  BY DEF LoadReads, AtStatement, Untaken
<1>2. Current(t).op = "load"
  BY <1>1, TopType DEF FrameOK, Current
<1> QED
  BY <1>1, <1>2, RunAdvance

LEMMA StepStoreOutputRun ==
  ASSUME WitnessInv, RunInv, NEW t \in Comps, StoreOutput(t) PROVE RunInv'
<1>1. /\ Running(t) /\ AtStatement(t) /\ Top(t).step = "run" /\ Current(t).op = "output"
      /\ Untaken
  BY DEF StoreOutput, AtStatement, Untaken
<1>2. CASE stack' = AtStep(t, "set")
  BY <1>1, <1>2, RunAtStep DEF Steps
<1>3. CASE stack' = Advance(t)
  BY <1>1, <1>3, RunAdvance
<1> QED
  BY <1>2, <1>3 DEF StoreOutput

LEMMA StepNotifyOutputRun ==
  ASSUME WitnessInv, RunInv, NEW t \in Comps, NotifyOutput(t) PROVE RunInv'
<1>1. Running(t) /\ AtStatement(t) /\ Top(t).step = "set" /\ Untaken /\ stack' = Advance(t)
  BY DEF NotifyOutput, AtStatement, Untaken
<1>2. Current(t).op = "output"
  BY <1>1, TopType DEF FrameOK, Current
<1> QED
  BY <1>1, <1>2, RunAdvance

LEMMA StepJoinRun ==
  ASSUME WitnessInv, RunInv, NEW t \in Comps, Join(t) PROVE RunInv'
<1> DEFINE x == IF Top(t).par THEN "outputs" ELSE "release"
<1>1. Running(t) /\ Top(t).step = "run" /\ Untaken /\ stack' = AtStep(t, x)
      /\ Children(Top(t).cmp) \cap started \subseteq finished
  BY DEF Join, AtEnd, Untaken
<1>2. x \in Steps \ {"start"}
  BY DEF Steps
<1> HIDE DEF x
<1> QED
  BY <1>1, <1>2, RunAtStep

LEMMA StepSetAllOutputsRun ==
  ASSUME WitnessInv, RunInv, NEW t \in Comps, SetAllOutputs(t) PROVE RunInv'
<1> DEFINE g == [Top(t) EXCEPT !.out = @ + 1]
<1>1. Running(t) /\ Top(t).step = "outputs" /\ Untaken /\ stack' = WithTop(t, g)
  BY DEF SetAllOutputs, AtEnd, Untaken
<1>2. stack[t] # <<>> /\ Top(t) \in FrameType
  BY <1>1, TopType
<1>3. g.cmp = Top(t).cmp /\ g.at = Top(t).at /\ g.step = Top(t).step
  BY <1>2 DEF FrameType
<1> HIDE DEF g
<1>4. Past(g) = Past(Top(t))
  BY <1>3 DEF Past
<1> QED
  BY <1>1, <1>2, <1>3, <1>4, RunMove

LEMMA StepEndGivesSlotRun ==
  ASSUME WitnessInv, RunInv, NEW t \in Comps, EndGivesSlot(t) PROVE RunInv'
  BY RunAtStep DEF EndGivesSlot, AtEnd, Untaken, Steps

LEMMA NextCall ==
  ASSUME NEW f \in FrameType
  PROVE  LET g == [f EXCEPT !.at = @ + 1, !.step = "run"]
         IN  g \in FrameType /\ g.cmp = f.cmp /\ g.at = f.at + 1 /\ g.step = "run"
<1>1. f \in [cmp : Comps, at : Nat \ {0}, step : Steps, par : BOOLEAN, out : Nat]
  BY DEF FrameType
<1>2. f.at + 1 \in Nat \ {0} /\ "run" \in Steps
  BY <1>1 DEF Steps
<1> QED
  BY <1>1, <1>2 DEF FrameType

\* The three ways a statement that creates or feeds d goes on.
LEMMA GoesOn ==
  ASSUME WitnessInv, NEW t \in Comps, stack[t] # <<>>, NEW d \in Comps, NEW g \in FrameType, NEW h,
         ~ Begins(t, d), stack' = WithTop(t, g), started' = started
  PROVE  Goes(t, d, g, t, 0, h)
<1>1. Moved(t, g)
  BY TopMoved
<1> QED
  BY <1>1 DEF Moved, Goes

LEMMA GoesCall ==
  ASSUME WitnessInv, NEW t \in Comps, stack[t] # <<>>, NEW d \in Comps, NEW g \in FrameType,
         NEW h \in FrameType, Begins(t, d),
         stack' = [WithTop(t, g) EXCEPT ![t] = Append(@, h)], started' = started
  PROVE  Goes(t, d, g, t, Len(stack[t]) + 1, h)
<1> DEFINE n == Len(stack[t])
           p == ReplaceTop(stack[t], g)
           q == Append(p, h)
<1>1. stack[t] \in Seq(FrameType) /\ n \in Nat /\ \A l \in 1..n : stack[t][l] \in FrameType
      /\ stack \in [Comps -> Seq(FrameType)]
  BY StackType DEF WitnessInv
<1>2. p \in Seq(FrameType) /\ Len(p) = n
      /\ \A l \in 1..n : p[l] = IF l = n THEN g ELSE stack[t][l]
  BY <1>1 DEF ReplaceTop
<1> HIDE DEF p
<1>3. Len(q) = n + 1 /\ q[n + 1] = h /\ \A l \in 1..n : q[l] = p[l]
  BY <1>2
<1>4. stack' = [stack EXCEPT ![t] = q]
  BY <1>1 DEF WithTop, p
<1> HIDE DEF q
<1>5. stack'[t] = q /\ \A u \in Comps : u # t => stack'[u] = stack[u]
  BY <1>1, <1>4
<1>6. \A u \in Comps : \A l \in 1..Len(stack[u]) :
        /\ l \in 1..Len(stack'[u])
        /\ stack'[u][l] = IF u = t /\ l = n THEN g ELSE stack[u][l]
  <2>1. ASSUME NEW l \in 1..Len(stack[t])
        PROVE  l \in 1..Len(stack'[t]) /\ stack'[t][l] = IF l = n THEN g ELSE stack[t][l]
    <3>1. l \in 1..n /\ l \in 1..(n + 1)
      BY <1>1
    <3> HIDE DEF n
    <3>2. l \in 1..Len(q) /\ q[l] = IF l = n THEN g ELSE stack[t][l]
      BY <1>2, <1>3, <3>1
    <3> QED
      BY <1>5, <3>2
  <2>2. ASSUME NEW u \in Comps, u # t, NEW l \in 1..Len(stack[u])
        PROVE  l \in 1..Len(stack'[u]) /\ stack'[u][l] = stack[u][l]
    BY <1>5, <2>2
  <2> QED
    BY <2>1, <2>2
<1>7. \A u \in Comps : \A l \in 1..Len(stack'[u]) :
        l \in 1..Len(stack[u]) \/ (u = t /\ l = n + 1)
  BY <1>1, <1>3, <1>5
<1>8. n + 1 \in 1..Len(stack'[t]) /\ n + 1 \notin 1..Len(stack[t]) /\ stack'[t][n + 1] = h
  BY <1>1, <1>3, <1>5
<1> QED
  BY <1>6, <1>7, <1>8 DEF Goes

LEMMA GoesThread ==
  ASSUME WitnessInv, NEW t \in Comps, stack[t] # <<>>, NEW d \in Comps, NEW g \in FrameType,
         NEW h \in FrameType, Begins(t, d), stack[d] = <<>>,
         stack' = [WithTop(t, g) EXCEPT ![d] = <<h>>], started' = started \cup {d}
  PROVE  Goes(t, d, g, d, 1, h)
<1> DEFINE n == Len(stack[t])
           p == ReplaceTop(stack[t], g)
<1>1. stack[t] \in Seq(FrameType) /\ n \in Nat /\ stack \in [Comps -> Seq(FrameType)] /\ d # t
  BY StackType DEF WitnessInv
<1>2. Len(p) = n /\ \A l \in 1..n : p[l] = IF l = n THEN g ELSE stack[t][l]
  BY <1>1 DEF ReplaceTop
<1>3. stack' = [[stack EXCEPT ![t] = p] EXCEPT ![d] = <<h>>]
  BY DEF WithTop
<1> HIDE DEF p
<1>4. /\ stack'[t] = p /\ stack'[d] = <<h>>
      /\ \A u \in Comps : u # t /\ u # d => stack'[u] = stack[u]
  BY <1>1, <1>3
<1>5. /\ Len(<<h>>) = 1 /\ <<h>>[1] = h /\ Len(stack[d]) = 0
  OBVIOUS
<1>6. \A u \in Comps : \A l \in 1..Len(stack[u]) :
        /\ l \in 1..Len(stack'[u])
        /\ stack'[u][l] = IF u = t /\ l = n THEN g ELSE stack[u][l]
  BY <1>1, <1>2, <1>4, <1>5
<1>7. \A u \in Comps : \A l \in 1..Len(stack'[u]) :
        l \in 1..Len(stack[u]) \/ (u = d /\ l = 1)
  <2>1. ASSUME NEW u \in Comps, NEW l \in 1..Len(stack'[u])
        PROVE  l \in 1..Len(stack[u]) \/ (u = d /\ l = 1)
    <3>1. CASE u = d
      <4>1. l \in 1..1
        BY <1>4, <1>5, <3>1
      <4> QED
        BY <3>1, <4>1
    <3>2. CASE u = t
      BY <1>2, <1>4, <3>2
    <3>3. CASE u # t /\ u # d
      BY <1>4, <3>3
    <3> QED
      BY <3>1, <3>2, <3>3
  <2> QED
    BY <2>1
<1>8. 1 \in 1..Len(stack'[d]) /\ 1 \notin 1..Len(stack[d]) /\ stack'[d][1] = h
  BY <1>4, <1>5
<1> QED
  BY <1>1, <1>6, <1>7, <1>8 DEF Goes

LEMMA StepCreateRun ==
  ASSUME WitnessInv, RunInv, NEW t \in Comps, Create(t) PROVE RunInv'
<1> DEFINE d == Current(t).cmp
           g == [Top(t) EXCEPT !.at = @ + 1, !.step = "run"]
           h == Frame(d, FALSE)
<1>1. /\ AtStatement(t) /\ Top(t).step = "run" /\ Current(t).op = "create" /\ Running(t)
      /\ UNCHANGED <<stored, started, finished, released>>
  BY DEF Create, AtStatement
<1>2. Feeds(t, d)
  BY <1>1 DEF Create, Feeds
<1>3. stack[t] # <<>> /\ d \in Comps /\ Top(t) \in FrameType
  BY <1>1, <1>2, FedComponent, TopType DEF Subs
<1>4. /\ g \in FrameType /\ g.cmp = Top(t).cmp /\ g.at = Top(t).at + 1 /\ g.step = "run"
      /\ Past(g) = Top(t).at + 1
  BY <1>3, NextCall DEF Past
<1>5. h \in FrameType /\ h.cmp = d /\ h.at = 1 /\ h.step = "run"
  BY <1>3, CircuitAssumption DEF FrameType, Frame, Steps
<1>6. stack \in [Comps -> Seq(FrameType)] /\ (Begins(t, d) <=> Inputs(d) = 0)
  BY <1>1 DEF Begins, WitnessInv
<1>7. WitnessInv' /\ Len(stack[t]) + 1 \in Nat /\ 0 \in Nat
  BY <1>3, StepCreate, StackType
<1>8. CASE Inputs(d) = 0
  <2>1. stack' = [WithTop(t, g) EXCEPT ![t] = Append(@, h)]
    BY <1>8 DEF Create, Advance
  <2> HIDE DEF d, g, h
  <2>2. Goes(t, d, g, t, Len(stack[t]) + 1, h)
    BY <1>1, <1>3, <1>4, <1>5, <1>6, <1>8, <2>1, GoesCall
  <2> QED
    BY <1>1, <1>2, <1>4, <1>5, <1>7, <2>2, RunFeed
<1>9. CASE Inputs(d) # 0
  <2>1. stack' = WithTop(t, g)
    BY <1>9 DEF Create, Advance, WithTop, WitnessInv
  <2> HIDE DEF d, g, h
  <2>2. Goes(t, d, g, t, 0, h)
    BY <1>1, <1>3, <1>4, <1>6, <1>9, <2>1, GoesOn
  <2> QED
    BY <1>1, <1>2, <1>4, <1>5, <1>7, <2>2, RunFeed
<1> QED
  BY <1>8, <1>9

LEMMA StepStoreInputRun ==
  ASSUME WitnessInv, RunInv, NEW t \in Comps, StoreInput(t) PROVE RunInv'
<1> DEFINE d == Current(t).cmp
           g == [Top(t) EXCEPT !.at = @ + 1, !.step = "run"]
           s == [Top(t) EXCEPT !.step = "start"]
           h == Frame(d, FALSE)
           i == Frame(d, TRUE)
           last == IsLast(Top(t).cmp, Top(t).at)
<1>1. /\ AtStatement(t) /\ Top(t).step = "run" /\ Current(t).op = "input" /\ Running(t)
      /\ UNCHANGED <<created, finished, released>>
  BY DEF StoreInput, AtStatement
<1>2. Feeds(t, d)
  BY <1>1 DEF StoreInput, Feeds
<1>3. stack[t] # <<>> /\ d \in Comps /\ Top(t) \in FrameType
  BY <1>1, <1>2, FedComponent, TopType DEF Subs
<1>4. /\ g \in FrameType /\ g.cmp = Top(t).cmp /\ g.step = "run" /\ Past(g) = Top(t).at + 1
      /\ s \in FrameType /\ s.cmp = Top(t).cmp /\ s.step = "start" /\ Past(s) = Top(t).at + 1
  <2>1. g \in FrameType /\ g.cmp = Top(t).cmp /\ g.at = Top(t).at + 1 /\ g.step = "run"
    BY <1>3, NextCall
  <2>2. s \in FrameType /\ s.cmp = Top(t).cmp /\ s.at = Top(t).at /\ s.step = "start"
    BY <1>3 DEF FrameType, Steps
  <2> HIDE DEF g, s
  <2> QED
    BY <2>1, <2>2 DEF Past
<1>5. /\ h \in FrameType /\ h.cmp = d /\ h.at = 1 /\ h.step = "run"
      /\ i \in FrameType /\ i.cmp = d /\ i.at = 1 /\ i.step = "run"
  BY <1>3, CircuitAssumption DEF FrameType, Frame, Steps
<1>6. Begins(t, d) <=> last
  BY <1>1 DEF Begins
<1>7. WitnessInv' /\ Len(stack[t]) + 1 \in Nat /\ 0 \in Nat /\ 1 \in Nat /\ stack[d] = <<>>
  BY <1>2, <1>3, FedNotBegun, StepStoreInput, StackType
<1>8. CASE ~ last /\ stack' = Advance(t) /\ UNCHANGED started
  <2>1. stack' = WithTop(t, g)
    BY <1>8 DEF Advance
  <2> HIDE DEF d, g, h
  <2>2. Goes(t, d, g, t, 0, h)
    BY <1>3, <1>4, <1>6, <1>8, <2>1, GoesOn
  <2> QED
    BY <1>1, <1>2, <1>4, <1>5, <1>7, <2>2, RunFeed
<1>9. CASE /\ last /\ started' = started \cup {d}
           /\ stack' = [AtStep(t, "start") EXCEPT ![d] = <<i>>]
  <2>1. stack' = [WithTop(t, s) EXCEPT ![d] = <<i>>]
    BY <1>9 DEF AtStep
  <2> HIDE DEF d, s, i
  <2>2. Goes(t, d, s, d, 1, i)
    BY <1>3, <1>4, <1>5, <1>6, <1>7, <1>9, <2>1, GoesThread
  <2> QED
    BY <1>1, <1>2, <1>3, <1>4, <1>5, <1>7, <2>2, RunFeed
<1>10. CASE /\ last /\ stack' = [Advance(t) EXCEPT ![t] = Append(@, h)] /\ UNCHANGED started
  <2>1. stack' = [WithTop(t, g) EXCEPT ![t] = Append(@, h)]
    BY <1>10 DEF Advance
  <2> HIDE DEF d, g, h
  <2>2. Goes(t, d, g, t, Len(stack[t]) + 1, h)
    BY <1>3, <1>4, <1>5, <1>6, <1>10, <2>1, GoesCall
  <2> QED
    BY <1>1, <1>2, <1>4, <1>5, <1>7, <2>2, RunFeed
<1> QED
  BY <1>8, <1>9, <1>10 DEF StoreInput

LEMMA InitRun == Init => RunInv
<1> SUFFICES ASSUME Init PROVE RunInv
  OBVIOUS
<1> DEFINE f == Frame(Main, Parallel[Main])
<1>1. /\ stored \in [Comps -> Nat] /\ \A d \in Comps : stored[d] = 0
      /\ created = {Main} /\ started = {Main} /\ finished = {} /\ released = {}
      /\ Main \in Comps
  BY CircuitAssumption DEF Init
<1>2. \A t \in Comps : stack[t] = IF t = Main THEN <<f>> ELSE <<>>
  BY DEF Init
<1>3. f.cmp = Main /\ f.at = 1 /\ f.step = "run" /\ Past(f) = 1
  BY DEF Frame, Past
<1> HIDE DEF f
<1>4. Len(<<f>>) = 1 /\ <<f>>[1] = f /\ <<f>> # <<>>
  OBVIOUS
<1>5. ASSUME NEW t \in Comps, NEW k \in 1..Len(stack[t])
      PROVE  t = Main /\ k = 1 /\ stack[t][k] = f
  <2>1. t = Main
    BY <1>2
  <2>2. k \in 1..1
    BY <1>2, <1>4, <2>1
  <2> QED
    BY <1>2, <1>4, <2>1, <2>2
<1>6. AllBegun /\ RunOnce /\ Untouched /\ Joined
  <2>1. \A d \in Subs : d \in Comps /\ d # Main
    BY DEF Subs
  <2> QED
    BY <1>1, <1>3, <1>5, <2>1 DEF AllBegun, Begun, RunOnce, Untouched, Joined
<1>7. Progress
  <2>1. SUFFICES ASSUME NEW t \in Comps, NEW k \in 1..Len(stack[t]),
                        NEW d \in Children(stack[t][k].cmp)
                 PROVE  /\ stored[d] = Fed(d, Past(stack[t][k]))
                        /\ d \in created <=> CreatedIn(d, Past(stack[t][k]))
    BY DEF Progress
  <2>2. Past(stack[t][k]) = 1 /\ d \in Subs /\ d \in Comps /\ d # Main
    BY <1>1, <1>3, <1>5, <2>1, ChildType DEF Subs
  <2> QED
    BY <1>1, <2>2, FedFirst
<1>8. Nested
  <2>1. \A t \in Comps : stack[t] # <<>> => stack[t][1].cmp = t
    BY <1>2, <1>3, <1>4
  <2>2. \A t \in Comps : \A k \in 2..Len(stack[t]) : k \in 1..Len(stack[t]) /\ k # 1
    BY <1>2, <1>4
  <2> QED
    BY <1>5, <2>1, <2>2 DEF Nested
<1>9. Threads
  BY <1>1, <1>2, <1>4 DEF Threads
<1>10. FathersRun /\ ReleasedEnded
  BY <1>1, <1>3, <1>5 DEF FathersRun, ReleasedEnded, OnStack, Subs
<1> QED
  BY <1>1, <1>6, <1>7, <1>8, <1>9, <1>10 DEF RunInv

LEMMA NextRun == WitnessInv /\ RunInv /\ [Next]_vars => RunInv'
<1> SUFFICES ASSUME WitnessInv, RunInv, [Next]_vars PROVE RunInv'
  OBVIOUS
<1>1. ASSUME NEW t \in Comps, Release(t) PROVE RunInv'
  BY <1>1, StepRelease, StepReleaseRun
<1>2. ASSUME NEW t \in Comps, Step(t) PROVE RunInv'
  BY <1>1, <1>2, StepWaitSlotRun, StepTakeStartSlotRun, StepCreateRun, StepStoreInputRun,
     StepLoadPlainRun, StepStoreOutputRun, StepNotifyOutputRun, StepLoadGivesSlotRun,
     StepLoadLocksRun, StepLoadReadsRun, StepJoinRun, StepSetAllOutputsRun,
     StepEndGivesSlotRun DEF Step
<1>3. CASE UNCHANGED vars
  BY <1>3, RunStays DEF vars, Untaken
<1> QED
  BY <1>2, <1>3 DEF Next, Done

LEMMA SpecRun == Spec => [](WitnessInv /\ RunInv)
<1>1. Init => WitnessInv /\ RunInv
  BY InitWitness, InitRun
<1>2. (WitnessInv /\ RunInv) /\ [Next]_vars => (WitnessInv /\ RunInv)'
  BY NextWitness, NextRun
<1> QED
  BY <1>1, <1>2, PTL DEF Spec

\* No component runs, in any thread, before every one of its inputs has been stored:
\* the generated code of a component reads them without looking at inputCounter.
THEOREM RunsHaveInputs == Spec => []RunsWithInputs
<1>1. RunInv => RunsWithInputs
  BY DEF RunInv, AllBegun, Begun, RunsWithInputs
<1> QED
  BY <1>1, SpecRun, PTL

\* The memory of a component is freed only when no thread is inside it, and none is
\* about to lock, wait for or start it (release_memory_component after the joins).
THEOREM ReleasedUnused == Spec => []NoUseAfterRelease
<1>1. ASSUME WitnessInv, RunInv PROVE NoUseAfterRelease
  <2>1. SUFFICES ASSUME NEW t \in Comps, NEW k \in 1..Len(stack[t])
                 PROVE  LET f == stack[t][k]
                        IN /\ f.cmp \notin released
                           /\ f.at <= Len(Body[f.cmp]) /\ f.step \in {"start", "lock", "slot"} =>
                                Body[f.cmp][f.at].cmp \notin released
    BY DEF NoUseAfterRelease
  <2> DEFINE f == stack[t][k]
  <2>2. f \in FrameType /\ f.cmp \in Comps /\ OnStack(f.cmp) /\ stack[t] \in Seq(FrameType)
    BY <1>1, StackType DEF OnStack
  <2>3. FrameOK(f, Above(stack[t], k), written, isSet)
    BY <1>1 DEF WitnessInv, StackOK
  <2> HIDE DEF f
  <2>4. f.cmp \notin released
    BY <1>1, <2>2 DEF RunInv, ReleasedEnded, FathersRun
  <2>5. ASSUME f.step \in {"start", "lock", "slot"}
        PROVE  Body[f.cmp][f.at].cmp \notin released
    <3>1. f.at \in 1..Len(Body[f.cmp]) /\ Body[f.cmp][f.at].op # "output"
      BY <2>3, <2>5 DEF FrameOK
    <3>2. Body[f.cmp][f.at].cmp \in Children(f.cmp)
      BY <2>2, <3>1, TargetType
    <3>3. Father[Body[f.cmp][f.at].cmp] = f.cmp
      BY <2>2, <3>2, ChildType
    <3> QED
      BY <1>1, <2>2, <3>3 DEF RunInv, ReleasedEnded
  <2> QED
    BY <2>4, <2>5 DEF f
<1> QED
  BY <1>1, SpecRun, PTL

-----------------------------------------------------------------------------
(***************************************************************************)
(* The slots of the C++ witness calculator: numThread counts the threads   *)
(* that run, less one for the thread of main(), and no thread sleeps for   *)
(* a free slot with nobody about to wake it (WitnessThreads!TypeOK,        *)
(* SlotsAccounted and NoForgottenSleeper).                                 *)
(*                                                                         *)
(* NoForgottenSleeper is not inductive.  SlotInv says of the sleepers that *)
(* while there are any, the slots in use and the threads about to take one *)
(* are together at least MaxThread: a slot given back wakes a thread.      *)
(***************************************************************************)

One(b) == IF b THEN 1 ELSE 0

\* The threads that have given back the slot their father took.
GivenBack == {t \in Over : t # Main \/ Parallel[Main]}

\* The threads awake and about to take a slot.
Takers == {t \in Comps : Running(t) /\ Top(t).step \in {"start", "slot"}}

\* The thread whose call is f at the top counts for no slot.
Unheld(f) == f.step \in {"start", "lock", "slot"} \/ (f.par /\ f.step = "release")

HoldersOK == \A c \in Comps : holder[c] \in [1..Outputs[c] -> Comps \cup {None}]
SlotType ==
  /\ asleep \in [Comps -> {"no", "slot", "output"}]
  /\ numThread \in Int /\ numThread <= MaxThread
  /\ holder = [c \in Comps |-> holder[c]] /\ HoldersOK
Sleeping ==
  \A t \in Comps :
    /\ asleep[t] = "slot" => stack[t] # <<>> /\ Top(t).step \in {"start", "slot"}
    /\ asleep[t] = "output" => stack[t] # <<>> /\ Top(t).step = "lock"
CallersRun == \A t \in Comps : \A k \in 1..Len(stack[t]) : k < Len(stack[t]) => stack[t][k].step = "run"
FirstInThread ==
  \A t \in Comps : \A k \in 1..Len(stack[t]) :
    /\ stack[t][k].par <=> k = 1 /\ (t # Main \/ Parallel[Main])
    /\ stack[t][k].step = "outputs" => stack[t][k].par
Enough == (\E t \in Comps : asleep[t] = "slot") => numThread + Cardinality(Takers) >= MaxThread

SlotInv ==
  SlotType /\ Sleeping /\ CallersRun /\ FirstInThread /\ SlotsAccounted /\ Enough

-----------------------------------------------------------------------------
(* Counting threads.                                                       *)

\* One element comes or goes.
LEMMA CardChange ==
  ASSUME NEW S \in SUBSET Comps, NEW T \in SUBSET Comps, NEW t,
         \A u \in Comps : u # t => (u \in T <=> u \in S)
  PROVE  /\ Cardinality(S) \in Nat /\ Cardinality(T) \in Nat
         /\ Cardinality(T) = Cardinality(S) + One(t \in T) - One(t \in S)
<1>1. IsFiniteSet(S) /\ IsFiniteSet(T)
  BY CreationAssumption, FS_Subset
<1>2. Cardinality(S) \in Nat /\ Cardinality(T) \in Nat
  BY <1>1, FS_CardinalityType
<1>3. CASE (t \in T) <=> (t \in S)
  <2>1. T = S
    BY <1>3
  <2> QED
    BY <1>2, <2>1 DEF One
<1>4. CASE t \in T /\ t \notin S
  <2>1. T = S \cup {t}
    BY <1>4
  <2>2. Cardinality(T) = Cardinality(S) + 1
    BY <1>1, <1>4, <2>1, FS_AddElement
  <2> QED
    BY <1>2, <1>4, <2>2 DEF One
<1>5. CASE t \notin T /\ t \in S
  <2>1. S = T \cup {t}
    BY <1>5
  <2>2. Cardinality(S) = Cardinality(T) + 1
    BY <1>1, <1>5, <2>1, FS_AddElement
  <2> QED
    BY <1>2, <1>5, <2>2 DEF One
<1> QED
  BY <1>3, <1>4, <1>5

LEMMA OneType == ASSUME NEW b \in BOOLEAN PROVE One(b) \in {0, 1}
  BY DEF One

\* The books stay right: t changes what it counts for, and the thread of d may start.
LEMMA Accounted ==
  ASSUME Threads, Threads', SlotsAccounted, numThread' \in Int, numThread \in Int,
         NEW t \in Comps, NEW d,
         \A u \in Comps : u # t =>
           /\ u \in Unpaid' <=> u \in Unpaid
           /\ u \in Waiting' <=> u \in Waiting
           /\ u \in GivenBack' <=> u \in GivenBack,
         \/ started' = started
         \/ started' = started \cup {d} /\ d \in Subs \ started,
         numThread' = numThread + One(started' # started)
           + One(t \in Unpaid) - One(t \in Unpaid')
           + One(t \in Waiting) - One(t \in Waiting')
           + One(t \in GivenBack) - One(t \in GivenBack')
  PROVE  SlotsAccounted'
<1> DEFINE A == started \ {Main}
           B == started' \ {Main}
<1>1. /\ A \in SUBSET Comps /\ B \in SUBSET Comps
      /\ Unpaid \in SUBSET Comps /\ Unpaid' \in SUBSET Comps
      /\ Waiting \in SUBSET Comps /\ Waiting' \in SUBSET Comps
      /\ GivenBack \in SUBSET Comps /\ GivenBack' \in SUBSET Comps
  BY DEF Threads, Unpaid, Waiting, GivenBack, Over
<1>2. /\ Cardinality(Unpaid) \in Nat /\ Cardinality(Unpaid') \in Nat
      /\ Cardinality(Unpaid') = Cardinality(Unpaid) + One(t \in Unpaid') - One(t \in Unpaid)
  <2> DEFINE S == Unpaid
             T == Unpaid'
  <2>1. S \in SUBSET Comps /\ T \in SUBSET Comps /\ \A u \in Comps : u # t => (u \in T <=> u \in S)
    BY <1>1
  <2> HIDE DEF S, T
  <2>2. /\ Cardinality(S) \in Nat /\ Cardinality(T) \in Nat
        /\ Cardinality(T) = Cardinality(S) + One(t \in T) - One(t \in S)
    BY <2>1, CardChange
  <2> QED
    BY <2>2 DEF S, T
<1>3. /\ Cardinality(Waiting) \in Nat /\ Cardinality(Waiting') \in Nat
      /\ Cardinality(Waiting') = Cardinality(Waiting) + One(t \in Waiting') - One(t \in Waiting)
  <2> DEFINE S == Waiting
             T == Waiting'
  <2>1. S \in SUBSET Comps /\ T \in SUBSET Comps /\ \A u \in Comps : u # t => (u \in T <=> u \in S)
    BY <1>1
  <2> HIDE DEF S, T
  <2>2. /\ Cardinality(S) \in Nat /\ Cardinality(T) \in Nat
        /\ Cardinality(T) = Cardinality(S) + One(t \in T) - One(t \in S)
    BY <2>1, CardChange
  <2> QED
    BY <2>2 DEF S, T
<1>4. /\ Cardinality(GivenBack) \in Nat /\ Cardinality(GivenBack') \in Nat
      /\ Cardinality(GivenBack') =
           Cardinality(GivenBack) + One(t \in GivenBack') - One(t \in GivenBack)
  <2> DEFINE S == GivenBack
             T == GivenBack'
  <2>1. S \in SUBSET Comps /\ T \in SUBSET Comps /\ \A u \in Comps : u # t => (u \in T <=> u \in S)
    BY <1>1
  <2> HIDE DEF S, T
  <2>2. /\ Cardinality(S) \in Nat /\ Cardinality(T) \in Nat
        /\ Cardinality(T) = Cardinality(S) + One(t \in T) - One(t \in S)
    BY <2>1, CardChange
  <2> QED
    BY <2>2 DEF S, T
<1>5. /\ Cardinality(A) \in Nat /\ Cardinality(B) \in Nat
      /\ Cardinality(B) = Cardinality(A) + One(started' # started)
  <2>1. \A u \in Comps : u # d => (u \in B <=> u \in A)
    BY DEF Subs
  <2>2. /\ Cardinality(A) \in Nat /\ Cardinality(B) \in Nat
        /\ Cardinality(B) = Cardinality(A) + One(d \in B) - One(d \in A)
    <3> HIDE DEF A, B
    <3> QED
      BY <1>1, <2>1, CardChange
  <2>3. CASE started' = started
    BY <2>2, <2>3 DEF One
  <2>4. CASE started' = started \cup {d} /\ d \in Subs \ started
    <3>1. d \in B /\ d \notin A /\ started' # started
      BY <2>4 DEF Subs
    <3> HIDE DEF A, B
    <3> QED
      BY <2>2, <3>1 DEF One
  <2> QED
    BY <2>3, <2>4
<1> HIDE DEF A, B
<1>6. numThread = Cardinality(A) - Cardinality(Unpaid) - Cardinality(Waiting) - Cardinality(GivenBack)
  BY DEF SlotsAccounted, GivenBack, A
<1>7. /\ One(t \in Unpaid) \in Int /\ One(t \in Unpaid') \in Int
      /\ One(t \in Waiting) \in Int /\ One(t \in Waiting') \in Int
      /\ One(t \in GivenBack) \in Int /\ One(t \in GivenBack') \in Int
      /\ One(started' # started) \in Int
  BY DEF One
<1>8. numThread' = Cardinality(B) - Cardinality(Unpaid') - Cardinality(Waiting') - Cardinality(GivenBack')
  BY <1>2, <1>3, <1>4, <1>5, <1>6, <1>7
<1> QED
  BY <1>8 DEF SlotsAccounted, GivenBack, B

\* ... and so do the threads about to take a slot, when t is the one that changes.
LEMMA StillEnough ==
  ASSUME Enough, numThread' \in Int, numThread \in Int, NEW t \in Comps,
         \A u \in Comps : u # t => (u \in Takers' <=> u \in Takers),
         (\E u \in Comps : asleep'[u] = "slot") => \E u \in Comps : asleep[u] = "slot",
         numThread' + One(t \in Takers') >= numThread + One(t \in Takers)
  PROVE  Enough'
<1> DEFINE S == Takers
           T == Takers'
<1>1. S \in SUBSET Comps /\ T \in SUBSET Comps /\ \A u \in Comps : u # t => (u \in T <=> u \in S)
  BY DEF Takers
<1>2. numThread' + One(t \in T) >= numThread + One(t \in S)
  OBVIOUS
<1>3. (\E u \in Comps : asleep[u] = "slot") => numThread + Cardinality(S) >= MaxThread
  BY DEF Enough
<1> HIDE DEF S, T
<1>4. /\ Cardinality(S) \in Nat /\ Cardinality(T) \in Nat
      /\ Cardinality(T) = Cardinality(S) + One(t \in T) - One(t \in S)
  BY <1>1, CardChange
<1>5. One(t \in S) \in Int /\ One(t \in T) \in Int /\ MaxThread \in Int
  BY CircuitAssumption DEF One
<1>6. (\E u \in Comps : asleep'[u] = "slot") => numThread' + Cardinality(T) >= MaxThread
  BY <1>2, <1>3, <1>4, <1>5
<1> QED
  BY <1>6 DEF Enough, T

-----------------------------------------------------------------------------
(* What a thread counts for.                                               *)

LEMMA Standing ==
  ASSUME WitnessInv, Threads, FirstInThread, NEW t \in Comps, stack[t] # <<>>
  PROVE  /\ t \in Unpaid <=> Top(t).step = "start"
         /\ t \in Waiting <=> Top(t).step \in {"lock", "slot"}
         /\ t \in GivenBack <=> Top(t).par /\ Top(t).step = "release"
         /\ t \in Takers <=> asleep[t] = "no" /\ Top(t).step \in {"start", "slot"}
<1>1. /\ Len(stack[t]) \in 1..Len(stack[t]) /\ Top(t) = stack[t][Len(stack[t])]
      /\ t \in started /\ t \notin finished
  BY TopPlace DEF Threads
<1>2. Top(t).par <=> Len(stack[t]) = 1 /\ (t # Main \/ Parallel[Main])
  BY <1>1 DEF FirstInThread
<1>3. /\ t \in Unpaid <=> Top(t).step = "start"
      /\ t \in Waiting <=> Top(t).step \in {"lock", "slot"}
  BY DEF Unpaid, Waiting
<1>4. t \in Takers <=> asleep[t] = "no" /\ Top(t).step \in {"start", "slot"}
  BY DEF Takers, Running
<1>5. t \in GivenBack <=> Top(t).par /\ Top(t).step = "release"
  BY <1>1, <1>2 DEF GivenBack, Over
<1> QED
  BY <1>3, <1>4, <1>5

\* A thread that a step does not touch.
LEMMA SameStanding ==
  ASSUME NEW u \in Comps, stack'[u] = stack[u], started' = started \/ u \notin started' \ started,
         started \subseteq started', u \in finished' <=> u \in finished
  PROVE  /\ u \in Unpaid' <=> u \in Unpaid
         /\ u \in Waiting' <=> u \in Waiting
         /\ u \in GivenBack' <=> u \in GivenBack
         /\ Top(u)' = Top(u)
<1>1. Top(u)' = Top(u)
  BY DEF Top
<1>2. /\ u \in Unpaid' <=> u \in Unpaid
      /\ u \in Waiting' <=> u \in Waiting
  BY <1>1 DEF Unpaid, Waiting
<1>3. u \in GivenBack' <=> u \in GivenBack
  BY <1>1 DEF GivenBack, Over
<1> QED
  BY <1>1, <1>2, <1>3

-----------------------------------------------------------------------------
(* The call at the top of t goes on to g.                                  *)

\* Waking only threads that wait for an output, or one that waits for a slot.
WakesNoTaker ==
  /\ \A u \in Comps : asleep'[u] = asleep[u] \/ (asleep[u] = "output" /\ asleep'[u] = "no")
  /\ asleep' \in [Comps -> {"no", "slot", "output"}]

LEMMA TopNow ==
  ASSUME WitnessInv, WitnessInv', NEW t \in Comps, stack[t] # <<>>, NEW g, stack' = WithTop(t, g)
  PROVE  /\ stack'[t] # <<>> /\ Top(t)' = g /\ Len(stack'[t]) = Len(stack[t])
         /\ \A u \in Comps : u # t => stack'[u] = stack[u]
         /\ \A k \in 1..Len(stack[t]) : stack'[t][k] = IF k = Len(stack[t]) THEN g ELSE stack[t][k]
<1>1. Moved(t, g)
  BY TopMoved
<1>2. Len(stack[t]) \in 1..Len(stack[t]) /\ Len(stack'[t]) = Len(stack[t]) /\ Len(stack[t]) > 0
  BY <1>1, TopPlace, StackType DEF Moved
<1>3. Top(t)' = g
  BY <1>1, <1>2 DEF Moved, Top
<1>4. stack'[t] # <<>>
  BY <1>2
<1>5. \A u \in Comps : u # t => stack'[u] = stack[u]
  BY DEF WithTop, WitnessInv
<1>6. \A k \in 1..Len(stack[t]) : stack'[t][k] = IF k = Len(stack[t]) THEN g ELSE stack[t][k]
  BY <1>1 DEF Moved
<1> QED
  BY <1>2, <1>3, <1>4, <1>5, <1>6

\* The shape of the calls, and the books.
LEMMA MoveAccounted ==
  ASSUME WitnessInv, WitnessInv', Threads, Threads', SlotInv, NEW t \in Comps, stack[t] # <<>>,
         NEW g, g.par = Top(t).par, stack' = WithTop(t, g), UNCHANGED <<started, finished>>,
         g.step = "outputs" => g.par,
         numThread' = numThread + One(Unheld(Top(t))) - One(Unheld(g)), numThread' \in Int
  PROVE  CallersRun' /\ FirstInThread' /\ SlotsAccounted'
<1>1. /\ stack'[t] # <<>> /\ Top(t)' = g /\ Len(stack'[t]) = Len(stack[t])
      /\ \A u \in Comps : u # t => stack'[u] = stack[u]
      /\ \A k \in 1..Len(stack[t]) : stack'[t][k] = IF k = Len(stack[t]) THEN g ELSE stack[t][k]
  BY TopNow
<1>2. CallersRun'
  BY <1>1 DEF SlotInv, CallersRun
<1>3. Top(t) = stack[t][Len(stack[t])]
  BY DEF Top
<1>4. FirstInThread'
  <2>1. SUFFICES ASSUME NEW u \in Comps, NEW k \in 1..Len(stack'[u])
                 PROVE  /\ stack'[u][k].par <=> k = 1 /\ (u # Main \/ Parallel[Main])
                        /\ stack'[u][k].step = "outputs" => stack'[u][k].par
    BY DEF FirstInThread
  <2>2. k \in 1..Len(stack[u]) /\ stack'[u][k].par = stack[u][k].par
    BY <1>1, <1>3
  <2>3. stack'[u][k].par <=> k = 1 /\ (u # Main \/ Parallel[Main])
    BY <2>2 DEF SlotInv, FirstInThread
  <2>4. stack'[u][k] = stack[u][k] \/ stack'[u][k] = g
    BY <1>1, <2>2
  <2>5. stack'[u][k].step = "outputs" => stack'[u][k].par
    <3>1. CASE stack'[u][k] = g
      BY <3>1, Zenon
    <3>2. CASE stack'[u][k] = stack[u][k]
      BY <2>2, <3>2 DEF SlotInv, FirstInThread
    <3> QED
      BY <2>4, <3>1, <3>2
  <2> QED
    BY <2>3, <2>5
<1>5. \A u \in Comps : u # t =>
        /\ u \in Unpaid' <=> u \in Unpaid
        /\ u \in Waiting' <=> u \in Waiting
        /\ u \in GivenBack' <=> u \in GivenBack
  BY <1>1, SameStanding
<1>6. /\ t \in Unpaid <=> Top(t).step = "start"
      /\ t \in Waiting <=> Top(t).step \in {"lock", "slot"}
      /\ t \in GivenBack <=> Top(t).par /\ Top(t).step = "release"
  BY Standing DEF SlotInv
<1>7. /\ t \in Unpaid' <=> g.step = "start"
      /\ t \in Waiting' <=> g.step \in {"lock", "slot"}
  BY <1>1 DEF Unpaid, Waiting
<1>8. t \in GivenBack' <=> g.par /\ g.step = "release"
  <2>1. /\ Len(stack[t]) \in 1..Len(stack'[t]) /\ stack'[t][Len(stack[t])] = g
        /\ t \in started' /\ t \notin finished'
    BY <1>1, TopPlace DEF Threads
  <2>2. g.par <=> Len(stack'[t]) = 1 /\ (t # Main \/ Parallel[Main])
    <3>1. stack'[t][Len(stack[t])].par <=> Len(stack[t]) = 1 /\ (t # Main \/ Parallel[Main])
      BY <1>4, <2>1 DEF FirstInThread
    <3> QED
      BY <1>1, <2>1, <3>1, Zenon
  <2> QED
    BY <1>1, <2>1, <2>2 DEF GivenBack, Over
<1>9. /\ One(Unheld(Top(t))) = One(t \in Unpaid) + One(t \in Waiting) + One(t \in GivenBack)
      /\ One(Unheld(g)) = One(t \in Unpaid') + One(t \in Waiting') + One(t \in GivenBack')
  BY <1>6, <1>7, <1>8 DEF One, Unheld
<1>10. /\ One(t \in Unpaid) \in Int /\ One(t \in Unpaid') \in Int
       /\ One(t \in Waiting) \in Int /\ One(t \in Waiting') \in Int
       /\ One(t \in GivenBack) \in Int /\ One(t \in GivenBack') \in Int
       /\ One(started' # started) = 0 /\ numThread \in Int
  BY DEF One, SlotInv, SlotType
<1>11. numThread' = numThread + One(started' # started)
           + One(t \in Unpaid) - One(t \in Unpaid')
           + One(t \in Waiting) - One(t \in Waiting')
           + One(t \in GivenBack) - One(t \in GivenBack')
  <2>1. /\ One(Unheld(Top(t))) \in Int /\ One(Unheld(g)) \in Int
        /\ numThread' = numThread + One(Unheld(Top(t))) - One(Unheld(g))
    BY DEF One
  <2> DEFINE a == One(t \in Unpaid)
             b == One(t \in Waiting)
             c == One(t \in GivenBack)
             d == One(t \in Unpaid')
             e == One(t \in Waiting')
             f == One(t \in GivenBack')
             x == One(Unheld(Top(t)))
             y == One(Unheld(g))
             z == One(started' # started)
  <2>2. /\ a \in Int /\ b \in Int /\ c \in Int /\ d \in Int /\ e \in Int /\ f \in Int
        /\ z = 0 /\ numThread \in Int
    BY <1>10
  <2>3. x = a + b + c /\ y = d + e + f /\ numThread' = numThread + x - y
    BY <1>9, <2>1
  <2> HIDE DEF a, b, c, d, e, f, x, y, z
  <2>4. numThread' = numThread + z + a - d + b - e + c - f
    BY <2>2, <2>3
  <2> QED
    BY <2>4 DEF a, b, c, d, e, f, z
<1>12. SlotsAccounted'
  BY <1>5, <1>10, <1>11, Accounted DEF SlotInv
<1> QED
  BY <1>2, <1>4, <1>12

\* Who sleeps and who is about to take a slot: the step wakes nobody that sleeps for one.
LEMMA MoveSleeping ==
  ASSUME WitnessInv, WitnessInv', SlotInv, NEW t \in Comps, Running(t), NEW g,
         stack' = WithTop(t, g), WakesNoTaker, numThread' \in Int,
         numThread' + One(g.step \in {"start", "slot"})
           >= numThread + One(Top(t).step \in {"start", "slot"})
  PROVE  Sleeping' /\ Enough'
<1>1. stack[t] # <<>> /\ asleep[t] = "no"
  BY DEF Running
<1>2. /\ stack'[t] # <<>> /\ Top(t)' = g
      /\ \A u \in Comps : u # t => stack'[u] = stack[u]
  BY <1>1, TopNow
<1>3. asleep'[t] = "no"
  BY <1>1 DEF WakesNoTaker
<1>4. \A u \in Comps : u # t => Top(u)' = Top(u)
  BY <1>2 DEF Top
<1>5. Sleeping'
  <2>1. SUFFICES ASSUME NEW u \in Comps
                 PROVE  /\ asleep'[u] = "slot" => stack'[u] # <<>> /\ Top(u)'.step \in {"start", "slot"}
                        /\ asleep'[u] = "output" => stack'[u] # <<>> /\ Top(u)'.step = "lock"
    BY DEF Sleeping
  <2>2. CASE u = t
    BY <1>3, <2>2
  <2>3. CASE u # t
    BY <1>2, <1>4, <2>3 DEF SlotInv, Sleeping, WakesNoTaker
  <2> QED
    BY <2>2, <2>3
<1>6. \A u \in Comps : u # t => (u \in Takers' <=> u \in Takers)
  <2>1. SUFFICES ASSUME NEW u \in Comps, u # t PROVE u \in Takers' <=> u \in Takers
    OBVIOUS
  <2>2. CASE asleep'[u] = asleep[u]
    BY <1>2, <1>4, <2>1, <2>2 DEF Takers, Running
  <2>3. CASE asleep[u] = "output"
    BY <1>2, <1>4, <2>1, <2>3 DEF Takers, Running, SlotInv, Sleeping
  <2> QED
    BY <2>2, <2>3 DEF WakesNoTaker
<1>7. /\ t \in Takers <=> Top(t).step \in {"start", "slot"}
      /\ t \in Takers' <=> g.step \in {"start", "slot"}
  BY <1>1, <1>2, <1>3 DEF Takers, Running
<1>8. numThread' + One(t \in Takers') >= numThread + One(t \in Takers)
  BY <1>7 DEF One
<1>9. (\E u \in Comps : asleep'[u] = "slot") => \E u \in Comps : asleep[u] = "slot"
  BY DEF WakesNoTaker
<1>10. Enough'
  BY <1>6, <1>8, <1>9, StillEnough DEF SlotInv, SlotType
<1> QED
  BY <1>5, <1>10

\* A slot is given back: one sleeper wakes and is about to take it.
LEMMA MoveGives ==
  ASSUME WitnessInv, WitnessInv', SlotInv, NEW t \in Comps, Running(t), NEW g,
         stack' = WithTop(t, g), GiveSlot,
         Top(t).step \notin {"start", "slot"}, g.step \notin {"start", "slot"}
  PROVE  /\ Sleeping' /\ Enough' /\ asleep' \in [Comps -> {"no", "slot", "output"}]
         /\ numThread' \in Int /\ numThread' = numThread - 1 /\ numThread' <= MaxThread
<1>1. stack[t] # <<>> /\ asleep[t] = "no"
  BY DEF Running
<1>2. /\ stack'[t] # <<>> /\ Top(t)' = g
      /\ \A u \in Comps : u # t => stack'[u] = stack[u]
  BY <1>1, TopNow
<1>3. \A u \in Comps : u # t => Top(u)' = Top(u)
  BY <1>2 DEF Top
<1>4. /\ numThread' \in Int /\ numThread' = numThread - 1 /\ numThread' <= MaxThread
      /\ asleep \in [Comps -> {"no", "slot", "output"}] /\ numThread \in Int
  BY CircuitAssumption DEF GiveSlot, SlotInv, SlotType
<1>5. CASE asleep' = asleep /\ \A u \in Comps : asleep[u] # "slot"
  <2>1. Sleeping'
    BY <1>1, <1>2, <1>3, <1>5 DEF SlotInv, Sleeping
  <2>2. Enough'
    BY <1>5 DEF Enough
  <2> QED
    BY <1>4, <1>5, <2>1, <2>2
<1>6. CASE \E u \in Comps : asleep[u] = "slot" /\ asleep' = [asleep EXCEPT ![u] = "no"]
  <2>1. PICK v \in Comps : asleep[v] = "slot" /\ asleep' = [asleep EXCEPT ![v] = "no"]
    BY <1>6
  <2>2. /\ asleep' \in [Comps -> {"no", "slot", "output"}] /\ asleep'[v] = "no" /\ v # t
        /\ \A u \in Comps : u # v => asleep'[u] = asleep[u]
    BY <1>1, <1>4, <2>1
  <2>3. stack[v] # <<>> /\ Top(v).step \in {"start", "slot"}
    BY <2>1 DEF SlotInv, Sleeping
  <2>4. Sleeping'
    <3>1. SUFFICES ASSUME NEW u \in Comps
                   PROVE  /\ asleep'[u] = "slot" => stack'[u] # <<>> /\ Top(u)'.step \in {"start", "slot"}
                          /\ asleep'[u] = "output" => stack'[u] # <<>> /\ Top(u)'.step = "lock"
      BY DEF Sleeping
    <3>2. CASE u \in {t, v}
      BY <1>1, <2>2, <3>2
    <3>3. CASE u \notin {t, v}
      BY <1>2, <1>3, <2>2, <3>3 DEF SlotInv, Sleeping
    <3> QED
      BY <3>2, <3>3
  <2>5. v \in Takers' /\ v \notin Takers
    BY <1>2, <1>3, <2>1, <2>2, <2>3 DEF Takers, Running
  <2>6. \A u \in Comps : u # v => (u \in Takers' <=> u \in Takers)
    <3>1. t \notin Takers /\ t \notin Takers'
      BY <1>2 DEF Takers
    <3>2. ASSUME NEW u \in Comps, u # v, u # t PROVE u \in Takers' <=> u \in Takers
      BY <1>2, <1>3, <2>2, <3>2 DEF Takers, Running
    <3> QED
      BY <3>1, <3>2
  <2>7. numThread' + One(v \in Takers') >= numThread + One(v \in Takers)
    BY <1>4, <2>5 DEF One
  <2>8. \E u \in Comps : asleep[u] = "slot"
    BY <2>1
  <2>9. Enough'
    BY <1>4, <2>6, <2>7, <2>8, StillEnough DEF SlotInv
  <2> QED
    BY <1>4, <2>2, <2>4, <2>9
<1> QED
  BY <1>5, <1>6 DEF GiveSlot

\* Together: the call goes on, and at most threads that wait for an output wake.
LEMMA SlotMove ==
  ASSUME WitnessInv, WitnessInv', Threads, Threads', SlotInv, NEW t \in Comps, Running(t),
         NEW g, g.par = Top(t).par, stack' = WithTop(t, g), UNCHANGED <<started, finished>>,
         g.step = "outputs" => g.par,
         WakesNoTaker, numThread' \in Int, numThread' <= MaxThread,
         holder' = [c \in Comps |-> holder'[c]], HoldersOK',
         numThread' = numThread + One(Unheld(Top(t))) - One(Unheld(g)),
         numThread' + One(g.step \in {"start", "slot"})
           >= numThread + One(Top(t).step \in {"start", "slot"})
  PROVE  SlotInv'
<1>1. stack[t] # <<>>
  BY DEF Running
<1>2. CallersRun' /\ FirstInThread' /\ SlotsAccounted'
  BY <1>1, MoveAccounted
<1>3. Sleeping' /\ Enough'
  BY MoveSleeping
<1>4. SlotType'
  BY DEF SlotType, WakesNoTaker
<1> QED
  BY <1>2, <1>3, <1>4 DEF SlotInv

-----------------------------------------------------------------------------
(* The steps that move the call at the top.                                *)

LEMMA HolderKept ==
  ASSUME SlotType, NEW d, NEW o, NEW x \in Comps \cup {None},
         holder' = holder \/ holder' = [holder EXCEPT ![d][o] = x]
  PROVE  holder' = [c \in Comps |-> holder'[c]] /\ HoldersOK'
<1>1. CASE holder' = holder
  BY <1>1 DEF SlotType, HoldersOK
<1>2. CASE holder' = [holder EXCEPT ![d][o] = x]
  <2>1. holder = [c \in Comps |-> holder[c]]
    BY DEF SlotType
  <2>2. \A c \in Comps : holder'[c] = IF c = d THEN [holder[c] EXCEPT ![o] = x] ELSE holder[c]
    BY <1>2, <2>1
  <2>3. holder' = [c \in Comps |-> holder'[c]]
    BY <1>2, <2>1
  <2>4. ASSUME NEW c \in Comps PROVE holder'[c] \in [1..Outputs[c] -> Comps \cup {None}]
    <3>1. holder[c] \in [1..Outputs[c] -> Comps \cup {None}]
      BY DEF SlotType, HoldersOK
    <3>2. [holder[c] EXCEPT ![o] = x] \in [1..Outputs[c] -> Comps \cup {None}]
      BY <3>1
    <3> QED
      BY <2>2, <3>1, <3>2
  <2> QED
    BY <2>3, <2>4 DEF HoldersOK
<1> QED
  BY <1>1, <1>2

LEMMA NobodyWakes == ASSUME SlotType, asleep' = asleep PROVE WakesNoTaker
  BY DEF SlotType, WakesNoTaker

LEMMA SetWakes == ASSUME SlotType, NEW c, NEW o, SetOutput(c, o) PROVE WakesNoTaker
<1>1. \A u \in Comps : asleep'[u] = asleep[u] \/ (asleep[u] = "output" /\ asleep'[u] = "no")
  BY DEF SetOutput
<1>2. asleep' \in [Comps -> {"no", "slot", "output"}]
  BY DEF SetOutput, SlotType
<1> QED
  BY <1>1, <1>2 DEF WakesNoTaker

\* The call goes on inside its statement, or to the next one, and takes no slot.
LEMMA SlotAtStep ==
  ASSUME WitnessInv, WitnessInv', Threads, Threads', SlotInv, NEW t \in Comps, Running(t),
         NEW x \in Steps, stack' = AtStep(t, x), UNCHANGED <<started, finished, numThread>>,
         WakesNoTaker, holder' = [c \in Comps |-> holder'[c]], HoldersOK',
         Unheld([Top(t) EXCEPT !.step = x]) <=> Unheld(Top(t)), Top(t).step \notin {"start", "slot"},
         x = "outputs" => Top(t).par
  PROVE  SlotInv'
<1> DEFINE g == [Top(t) EXCEPT !.step = x]
<1>1. Top(t) \in FrameType
  BY TopType
<1>2. g.par = Top(t).par /\ g.step = x
  BY <1>1 DEF FrameType
<1>3. stack' = WithTop(t, g) /\ (Unheld(g) <=> Unheld(Top(t)))
  BY DEF AtStep
<1> HIDE DEF g
<1>4. /\ numThread' = numThread /\ numThread \in Int /\ numThread <= MaxThread
      /\ MaxThread \in Int
  BY CircuitAssumption DEF SlotInv, SlotType
<1>5. /\ numThread' = numThread + One(Unheld(Top(t))) - One(Unheld(g))
      /\ numThread' + One(g.step \in {"start", "slot"})
           >= numThread + One(Top(t).step \in {"start", "slot"})
  BY <1>3, <1>4 DEF One
<1> QED
  BY <1>2, <1>3, <1>4, <1>5, SlotMove

LEMMA SlotAdvance ==
  ASSUME WitnessInv, WitnessInv', Threads, Threads', SlotInv, NEW t \in Comps, Running(t),
         stack' = Advance(t), UNCHANGED <<started, finished>>,
         WakesNoTaker, holder' = [c \in Comps |-> holder'[c]], HoldersOK',
         \/ Top(t).step \in {"run", "set"} /\ numThread' = numThread
         \/ /\ Top(t).step \in {"start", "slot"} /\ numThread < MaxThread
            /\ numThread' = numThread + 1
  PROVE  SlotInv'
<1> DEFINE g == [Top(t) EXCEPT !.at = @ + 1, !.step = "run"]
<1>1. Top(t) \in FrameType
  BY TopType
<1>2. g.par = Top(t).par /\ g.step = "run"
  BY <1>1 DEF FrameType
<1>3. stack' = WithTop(t, g)
  BY DEF Advance
<1> HIDE DEF g
<1>4. numThread \in Int /\ numThread <= MaxThread /\ MaxThread \in Int
  BY CircuitAssumption DEF SlotInv, SlotType
<1>5. ~ Unheld(g) /\ g.step \notin {"start", "slot"}
  BY <1>2 DEF Unheld
<1>6. CASE Top(t).step \in {"run", "set"} /\ numThread' = numThread
  <2>1. ~ Unheld(Top(t)) /\ Top(t).step \notin {"start", "slot"}
    BY <1>6 DEF Unheld
  <2>2. /\ numThread' = numThread + One(Unheld(Top(t))) - One(Unheld(g))
        /\ numThread' + One(g.step \in {"start", "slot"})
             >= numThread + One(Top(t).step \in {"start", "slot"})
    BY <1>4, <1>5, <1>6, <2>1 DEF One
  <2> QED
    BY <1>2, <1>3, <1>4, <1>6, <2>2, SlotMove
<1>7. CASE /\ Top(t).step \in {"start", "slot"} /\ numThread < MaxThread
           /\ numThread' = numThread + 1
  <2>1. Unheld(Top(t)) /\ numThread' \in Int /\ numThread' <= MaxThread
    BY <1>4, <1>7 DEF Unheld
  <2>2. /\ numThread' = numThread + One(Unheld(Top(t))) - One(Unheld(g))
        /\ numThread' + One(g.step \in {"start", "slot"})
             >= numThread + One(Top(t).step \in {"start", "slot"})
    BY <1>4, <1>5, <1>7, <2>1 DEF One
  <2> QED
    BY <1>2, <1>3, <2>1, <2>2, SlotMove
<1> QED
  BY <1>6, <1>7

LEMMA StepTakeStartSlotSlots ==
  ASSUME WitnessInv, WitnessInv', Threads, Threads', SlotInv, NEW t \in Comps, TakeStartSlot(t)
  PROVE  SlotInv'
<1>1. WakesNoTaker /\ holder' = [c \in Comps |-> holder'[c]] /\ HoldersOK'
  BY NobodyWakes, HolderKept DEF TakeStartSlot, SlotInv
<1> QED
  BY <1>1, SlotAdvance DEF TakeStartSlot

LEMMA StepLoadPlainSlots ==
  ASSUME WitnessInv, WitnessInv', Threads, Threads', SlotInv, NEW t \in Comps, LoadPlain(t)
  PROVE  SlotInv'
<1>1. WakesNoTaker /\ holder' = [c \in Comps |-> holder'[c]] /\ HoldersOK'
  BY NobodyWakes, HolderKept DEF LoadPlain, SlotInv
<1> QED
  BY <1>1, SlotAdvance DEF LoadPlain, AtStatement

LEMMA StepLoadReadsSlots ==
  ASSUME WitnessInv, WitnessInv', Threads, Threads', SlotInv, NEW t \in Comps, LoadReads(t)
  PROVE  SlotInv'
<1>1. WakesNoTaker /\ holder' = [c \in Comps |-> holder'[c]] /\ HoldersOK'
  BY NobodyWakes, HolderKept DEF LoadReads, SlotInv
<1> QED
  BY <1>1, SlotAdvance DEF LoadReads, AtStatement

LEMMA StepNotifyOutputSlots ==
  ASSUME WitnessInv, WitnessInv', Threads, Threads', SlotInv, NEW t \in Comps, NotifyOutput(t)
  PROVE  SlotInv'
<1>1. WakesNoTaker /\ holder' = [c \in Comps |-> holder'[c]] /\ HoldersOK'
  BY SetWakes, HolderKept DEF NotifyOutput, SlotInv
<1> QED
  BY <1>1, SlotAdvance DEF NotifyOutput, AtStatement

LEMMA StepStoreOutputSlots ==
  ASSUME WitnessInv, WitnessInv', Threads, Threads', SlotInv, NEW t \in Comps, StoreOutput(t)
  PROVE  SlotInv'
<1>1. WakesNoTaker /\ holder' = [c \in Comps |-> holder'[c]] /\ HoldersOK'
  BY NobodyWakes, HolderKept DEF StoreOutput, SlotInv
<1>2. /\ Running(t) /\ Top(t).step = "run" /\ Top(t) \in FrameType
      /\ UNCHANGED <<started, finished, numThread>>
  BY TopType DEF StoreOutput, AtStatement
<1>3. CASE stack' = AtStep(t, "set")
  <2>1. ~ Unheld([Top(t) EXCEPT !.step = "set"]) /\ ~ Unheld(Top(t))
    BY <1>2 DEF Unheld, FrameType
  <2> QED
    BY <1>1, <1>2, <1>3, <2>1, SlotAtStep DEF Steps
<1>4. CASE stack' = Advance(t)
  BY <1>1, <1>2, <1>4, SlotAdvance
<1> QED
  BY <1>3, <1>4 DEF StoreOutput

LEMMA StepJoinSlots ==
  ASSUME WitnessInv, WitnessInv', Threads, Threads', SlotInv, NEW t \in Comps, Join(t)
  PROVE  SlotInv'
<1> DEFINE x == IF Top(t).par THEN "outputs" ELSE "release"
           g == [Top(t) EXCEPT !.step = x]
<1>1. WakesNoTaker /\ holder' = [c \in Comps |-> holder'[c]] /\ HoldersOK'
  BY NobodyWakes, HolderKept DEF Join, SlotInv
<1>2. /\ Running(t) /\ Top(t).step = "run" /\ Top(t) \in FrameType /\ x \in Steps
      /\ UNCHANGED <<started, finished, numThread>> /\ stack' = AtStep(t, x)
  BY TopType DEF Join, AtEnd, Steps
<1>3. x = "outputs" => Top(t).par
  OBVIOUS
<1>4. ~ Unheld(g) /\ ~ Unheld(Top(t))
  <2>1. g.step = x /\ g.par = Top(t).par
    BY <1>2 DEF FrameType
  <2> HIDE DEF g
  <2> QED
    BY <1>2, <2>1 DEF Unheld
<1> HIDE DEF x
<1> QED
  BY <1>1, <1>2, <1>3, <1>4, SlotAtStep

LEMMA EndIsParallel ==
  ASSUME WitnessInv, SlotInv, NEW t \in Comps, Running(t), Top(t).step = "outputs"
  PROVE  Top(t).par
<1>1. Len(stack[t]) \in 1..Len(stack[t]) /\ Top(t) = stack[t][Len(stack[t])]
  BY TopPlace DEF Running
<1>2. stack[t][Len(stack[t])].step = "outputs" => stack[t][Len(stack[t])].par
  BY <1>1 DEF SlotInv, FirstInThread
<1> QED
  BY <1>1, <1>2, Zenon

LEMMA StepSetAllOutputsSlots ==
  ASSUME WitnessInv, WitnessInv', Threads, Threads', SlotInv, NEW t \in Comps, SetAllOutputs(t)
  PROVE  SlotInv'
<1> DEFINE g == [Top(t) EXCEPT !.out = @ + 1]
<1>1. WakesNoTaker /\ holder' = [c \in Comps |-> holder'[c]] /\ HoldersOK'
  BY SetWakes, HolderKept DEF SetAllOutputs, SlotInv
<1>2. /\ Running(t) /\ Top(t).step = "outputs" /\ Top(t) \in FrameType
      /\ UNCHANGED <<started, finished, numThread>> /\ stack' = WithTop(t, g)
  BY TopType DEF SetAllOutputs, AtEnd
<1>3. g.step = Top(t).step /\ g.par = Top(t).par
  BY <1>2 DEF FrameType
<1> HIDE DEF g
<1>4. g.par
  BY <1>2, <1>3, EndIsParallel
<1>5. ~ Unheld(g) /\ ~ Unheld(Top(t)) /\ g.step \notin {"start", "slot"}
  BY <1>2, <1>3 DEF Unheld
<1>6. numThread \in Int /\ numThread <= MaxThread /\ MaxThread \in Int
  BY CircuitAssumption DEF SlotInv, SlotType
<1>7. /\ numThread' = numThread + One(Unheld(Top(t))) - One(Unheld(g))
      /\ numThread' + One(g.step \in {"start", "slot"})
           >= numThread + One(Top(t).step \in {"start", "slot"})
  BY <1>2, <1>3, <1>5, <1>6 DEF One
<1> QED
  BY <1>1, <1>2, <1>3, <1>4, <1>6, <1>7, SlotMove

\* The step gives the slot back.
LEMMA SlotGiven ==
  ASSUME WitnessInv, WitnessInv', Threads, Threads', SlotInv, NEW t \in Comps, Running(t),
         NEW x \in Steps, stack' = AtStep(t, x), UNCHANGED <<started, finished, holder>>, GiveSlot,
         Unheld([Top(t) EXCEPT !.step = x]), ~ Unheld(Top(t)),
         Top(t).step \notin {"start", "slot"}, x \notin {"start", "slot", "outputs"}
  PROVE  SlotInv'
<1> DEFINE g == [Top(t) EXCEPT !.step = x]
<1>1. Top(t) \in FrameType /\ stack[t] # <<>>
  BY TopType
<1>2. g.par = Top(t).par /\ g.step = x
  BY <1>1 DEF FrameType
<1>3. stack' = WithTop(t, g) /\ Unheld(g)
  BY DEF AtStep
<1> HIDE DEF g
<1>4. /\ Sleeping' /\ Enough' /\ asleep' \in [Comps -> {"no", "slot", "output"}]
      /\ numThread' \in Int /\ numThread' = numThread - 1 /\ numThread' <= MaxThread
  BY <1>2, <1>3, MoveGives
<1>5. numThread' = numThread + One(Unheld(Top(t))) - One(Unheld(g))
  BY <1>3, <1>4 DEF One, SlotInv, SlotType
<1>6. CallersRun' /\ FirstInThread' /\ SlotsAccounted'
  BY <1>1, <1>2, <1>3, <1>4, <1>5, MoveAccounted
<1>7. SlotType'
  <2>1. holder' = [c \in Comps |-> holder'[c]] /\ HoldersOK'
    BY HolderKept DEF SlotInv
  <2> QED
    BY <1>4, <2>1 DEF SlotType
<1> QED
  BY <1>4, <1>6, <1>7 DEF SlotInv

LEMMA StepLoadGivesSlotSlots ==
  ASSUME WitnessInv, WitnessInv', Threads, Threads', SlotInv, NEW t \in Comps, LoadGivesSlot(t)
  PROVE  SlotInv'
<1>1. /\ Running(t) /\ Top(t).step = "run" /\ Top(t) \in FrameType /\ "lock" \in Steps
  BY TopType DEF LoadGivesSlot, AtStatement, Steps
<1>2. Unheld([Top(t) EXCEPT !.step = "lock"]) /\ ~ Unheld(Top(t))
  BY <1>1 DEF Unheld, FrameType
<1> QED
  BY <1>1, <1>2, SlotGiven DEF LoadGivesSlot

LEMMA StepEndGivesSlotSlots ==
  ASSUME WitnessInv, WitnessInv', Threads, Threads', SlotInv, NEW t \in Comps, EndGivesSlot(t)
  PROVE  SlotInv'
<1>1. /\ Running(t) /\ Top(t).step = "outputs" /\ Top(t) \in FrameType /\ "release" \in Steps
  BY TopType DEF EndGivesSlot, AtEnd, Steps
<1>2. Unheld([Top(t) EXCEPT !.step = "release"]) /\ ~ Unheld(Top(t))
  <2> DEFINE g == [Top(t) EXCEPT !.step = "release"]
  <2>1. g.step = "release" /\ g.par = Top(t).par
    BY <1>1 DEF FrameType
  <2> HIDE DEF g
  <2>2. Unheld(g)
    BY <1>1, <2>1, EndIsParallel DEF Unheld
  <2>3. ~ Unheld(Top(t))
    BY <1>1 DEF Unheld
  <2> QED
    BY <2>2, <2>3 DEF g
<1> QED
  BY <1>1, <1>2, SlotGiven DEF EndGivesSlot

-----------------------------------------------------------------------------
(* The steps that sleep, call, start a thread or return.                   *)

LEMMA SlotSleep ==
  ASSUME WitnessInv, SlotInv, NEW t \in Comps, Running(t), NEW x,
         asleep' = [asleep EXCEPT ![t] = x],
         UNCHANGED <<stack, numThread, holder, started, finished>>,
         \/ x = "slot" /\ Top(t).step \in {"start", "slot"} /\ numThread >= MaxThread
         \/ x = "output" /\ Top(t).step = "lock"
  PROVE  SlotInv'
<1>1. /\ asleep \in [Comps -> {"no", "slot", "output"}] /\ asleep[t] = "no" /\ stack[t] # <<>>
      /\ numThread \in Int /\ MaxThread \in Int
  BY CircuitAssumption DEF SlotInv, SlotType, Running
<1>2. /\ asleep' \in [Comps -> {"no", "slot", "output"}] /\ asleep'[t] = x
      /\ \A u \in Comps : u # t => asleep'[u] = asleep[u]
  BY <1>1
<1>3. \A u : Top(u)' = Top(u)
  BY DEF Top
<1>4. SlotType'
  BY <1>2 DEF SlotInv, SlotType, HoldersOK
<1>5. Sleeping'
  BY <1>1, <1>2, <1>3 DEF SlotInv, Sleeping
<1>6. CallersRun' /\ FirstInThread'
  BY DEF SlotInv, CallersRun, FirstInThread
<1>7. SlotsAccounted'
  <2>1. Unpaid' = Unpaid /\ Waiting' = Waiting
    BY <1>3 DEF Unpaid, Waiting
  <2>2. {u \in Over : u # Main \/ Parallel[Main]}' = {u \in Over : u # Main \/ Parallel[Main]}
    <3>1. Over' = Over
      BY <1>3 DEF Over
    <3> QED
      BY <3>1
  <2> QED
    BY <2>1, <2>2 DEF SlotInv, SlotsAccounted
<1>8. Enough'
  <2>1. \A u \in Comps : u # t => (u \in Takers' <=> u \in Takers)
    BY <1>2, <1>3 DEF Takers, Running
  <2>2. CASE x = "slot" /\ numThread >= MaxThread
    <3> DEFINE S == Takers'
    <3>1. S \in SUBSET Comps
      BY DEF Takers
    <3> HIDE DEF S
    <3>2. Cardinality(S) \in Nat
      BY <3>1, CardChange
    <3>3. numThread' + Cardinality(S) >= MaxThread
      BY <1>1, <2>2, <3>2
    <3> QED
      BY <3>3 DEF Enough, S
  <2>3. CASE x = "output" /\ Top(t).step = "lock"
    <3>1. t \notin Takers /\ t \notin Takers'
      BY <1>3, <2>3 DEF Takers
    <3>2. (\E u \in Comps : asleep'[u] = "slot") => \E u \in Comps : asleep[u] = "slot"
      BY <1>1, <1>2, <2>3
    <3>3. numThread' + One(t \in Takers') >= numThread + One(t \in Takers)
      BY <1>1, <3>1 DEF One
    <3> QED
      BY <1>1, <2>1, <3>2, <3>3, StillEnough DEF SlotInv
  <2> QED
    BY <2>2, <2>3
<1> QED
  BY <1>4, <1>5, <1>6, <1>7, <1>8 DEF SlotInv

LEMMA StepWaitSlotSlots ==
  ASSUME WitnessInv, SlotInv, NEW t \in Comps, WaitSlot(t) PROVE SlotInv'
  BY SlotSleep DEF WaitSlot

LEMMA StepLoadLocksSlots ==
  ASSUME WitnessInv, WitnessInv', Threads, Threads', SlotInv, NEW t \in Comps, LoadLocks(t)
  PROVE  SlotInv'
<1>1. /\ Running(t) /\ Top(t).step = "lock" /\ Top(t) \in FrameType /\ "slot" \in Steps
      /\ UNCHANGED <<started, finished, numThread>>
  BY TopType DEF LoadLocks, AtStatement, Steps
<1>2. CASE /\ stack' = AtStep(t, "slot") /\ UNCHANGED asleep
           /\ holder' = [holder EXCEPT ![Current(t).cmp][Current(t).out] = t]
  <2>1. Unheld([Top(t) EXCEPT !.step = "slot"]) /\ Unheld(Top(t))
    BY <1>1 DEF Unheld, FrameType
  <2>2. WakesNoTaker /\ holder' = [c \in Comps |-> holder'[c]] /\ HoldersOK'
    BY <1>2, NobodyWakes, HolderKept DEF SlotInv
  <2> QED
    BY <1>1, <1>2, <2>1, <2>2, SlotAtStep
<1>3. CASE asleep' = [asleep EXCEPT ![t] = "output"] /\ UNCHANGED <<holder, stack>>
  BY <1>1, <1>3, SlotSleep
<1> QED
  BY <1>2, <1>3 DEF LoadLocks

\* A call is pushed on t.
LEMMA SlotCall ==
  ASSUME WitnessInv, WitnessInv', Threads, Threads', SlotInv, NEW t \in Comps, Running(t),
         Top(t).step = "run", NEW d \in Comps, Begins(t, d),
         NEW g \in FrameType, g.par = Top(t).par, g.step = "run",
         NEW h \in FrameType, ~ h.par, h.step = "run",
         stack' = [WithTop(t, g) EXCEPT ![t] = Append(@, h)],
         UNCHANGED <<started, finished, asleep, numThread, holder>>
  PROVE  SlotInv'
<1> DEFINE n == Len(stack[t])
<1>1. stack[t] # <<>> /\ asleep[t] = "no" /\ n \in 1..n /\ n \in Nat /\ Top(t) = stack[t][n]
  BY TopPlace, StackType DEF Running
<1>2. /\ \A u \in Comps : \A l \in 1..Len(stack[u]) :
           /\ l \in 1..Len(stack'[u])
           /\ stack'[u][l] = IF u = t /\ l = n THEN g ELSE stack[u][l]
      /\ \A u \in Comps : \A l \in 1..Len(stack'[u]) :
           l \in 1..Len(stack[u]) \/ (u = t /\ l = n + 1)
      /\ n + 1 \in 1..Len(stack'[t]) /\ stack'[t][n + 1] = h
  <2>1. Goes(t, d, g, t, n + 1, h)
    BY <1>1, GoesCall
  <2> HIDE DEF n
  <2> QED
    BY <2>1 DEF Goes, n
<1>3. \A u \in Comps : u # t => stack'[u] = stack[u]
  BY DEF WithTop, WitnessInv
<1>4. \A u \in Comps : Len(stack'[u]) \in Nat /\ Len(stack[u]) \in Nat
  BY DEF WitnessInv
<1> HIDE DEF n
<1>5. Len(stack'[t]) = n + 1
  <2>1. Len(stack'[t]) \in 1..Len(stack'[t])
    BY <1>2, <1>4
  <2>2. Len(stack'[t]) \in 1..n \/ Len(stack'[t]) = n + 1
    BY <1>2, <2>1 DEF n
  <2> QED
    BY <1>1, <1>2, <1>4, <2>2
<1>6. stack'[t] # <<>> /\ Top(t)' = h
  BY <1>1, <1>2, <1>5 DEF Top
<1>7. CallersRun'
  <2>1. SUFFICES ASSUME NEW u \in Comps, NEW k \in 1..Len(stack'[u]), k < Len(stack'[u])
                 PROVE  stack'[u][k].step = "run"
    BY DEF CallersRun
  <2>2. CASE u = t
    <3>1. k \in 1..n
      BY <1>1, <1>5, <2>1, <2>2
    <3>2. CASE k = n
      BY <1>2, <2>2, <3>1, <3>2 DEF n
    <3>3. CASE k # n
      <4>1. k < n
        BY <1>1, <3>1, <3>3
      <4>2. stack[t][k].step = "run"
        BY <3>1, <4>1 DEF SlotInv, CallersRun, n
      <4> QED
        BY <1>2, <2>2, <3>1, <3>3, <4>2 DEF n
    <3> QED
      BY <3>2, <3>3
  <2>3. CASE u # t
    BY <1>3, <2>1, <2>3 DEF SlotInv, CallersRun
  <2> QED
    BY <2>2, <2>3
<1>8. FirstInThread'
  <2>1. SUFFICES ASSUME NEW u \in Comps, NEW k \in 1..Len(stack'[u])
                 PROVE  /\ stack'[u][k].par <=> k = 1 /\ (u # Main \/ Parallel[Main])
                        /\ stack'[u][k].step = "outputs" => stack'[u][k].par
    BY DEF FirstInThread
  <2>2. CASE k \in 1..Len(stack[u])
    <3>1. /\ stack[u][k].par <=> k = 1 /\ (u # Main \/ Parallel[Main])
          /\ stack[u][k].step = "outputs" => stack[u][k].par
      BY <2>2 DEF SlotInv, FirstInThread
    <3>2. stack'[u][k] = IF u = t /\ k = n THEN g ELSE stack[u][k]
      BY <1>2, <2>2
    <3>3. CASE u = t /\ k = n
      <4>1. stack'[u][k] = g /\ stack[u][k].par = g.par
        BY <1>1, <3>2, <3>3
      <4>2. stack'[u][k].step = "run"
        BY <4>1
      <4> QED
        BY <3>1, <4>1, <4>2
    <3>4. CASE ~ (u = t /\ k = n)
      BY <3>1, <3>2, <3>4
    <3> QED
      BY <3>3, <3>4
  <2>3. CASE u = t /\ k = n + 1
    <3>1. stack'[u][k] = h /\ k # 1
      BY <1>1, <1>2, <2>3
    <3>2. ~ stack'[u][k].par /\ stack'[u][k].step = "run"
      BY <3>1, Zenon
    <3> QED
      BY <3>1, <3>2
  <2> QED
    BY <1>2, <2>2, <2>3
<1>9. /\ t \notin Unpaid /\ t \notin Waiting /\ t \notin GivenBack /\ t \notin Takers
      /\ t \notin Unpaid' /\ t \notin Waiting' /\ t \notin Takers'
  BY <1>1, <1>6, Standing DEF SlotInv, Unpaid, Waiting, Takers
<1>10. t \notin GivenBack'
  BY <1>1, <1>5, <1>6 DEF GivenBack, Over, Threads
<1>11. \A u \in Comps : u # t =>
         /\ u \in Unpaid' <=> u \in Unpaid
         /\ u \in Waiting' <=> u \in Waiting
         /\ u \in GivenBack' <=> u \in GivenBack
         /\ Top(u)' = Top(u)
  BY <1>3, SameStanding
<1>12. \A u \in Comps : u # t => (u \in Takers' <=> u \in Takers)
  BY <1>3, <1>11 DEF Takers, Running
<1>13. numThread \in Int
  BY DEF SlotInv, SlotType
<1>14. SlotsAccounted'
  BY <1>9, <1>10, <1>11, <1>13, Accounted DEF One, SlotInv
<1>15. Enough'
  BY <1>9, <1>12, <1>13, StillEnough DEF One, SlotInv
<1>16. SlotType' /\ Sleeping'
  BY <1>1, <1>3, <1>11 DEF SlotInv, SlotType, HoldersOK, Sleeping
<1> QED
  BY <1>7, <1>8, <1>14, <1>15, <1>16 DEF SlotInv

\* The thread of d starts, and t is about to take a slot for it.
LEMMA SlotThread ==
  ASSUME WitnessInv, WitnessInv', Threads, Threads', SlotInv, NEW t \in Comps, Running(t),
         Top(t).step = "run", NEW d \in Subs, Begins(t, d), d \notin started, stack[d] = <<>>,
         NEW g \in FrameType, g.par = Top(t).par, g.step = "start",
         NEW h \in FrameType, h.par, h.step = "run",
         stack' = [WithTop(t, g) EXCEPT ![d] = <<h>>], started' = started \cup {d},
         UNCHANGED <<finished, asleep, numThread, holder>>
  PROVE  SlotInv'
<1> DEFINE n == Len(stack[t])
<1>1. /\ stack[t] # <<>> /\ asleep[t] = "no" /\ n \in 1..n /\ n \in Nat /\ Top(t) = stack[t][n]
      /\ d \in Comps /\ d # Main /\ d # t
  BY TopPlace, StackType DEF Running, Subs
<1>2. /\ \A u \in Comps : \A l \in 1..Len(stack[u]) :
           /\ l \in 1..Len(stack'[u])
           /\ stack'[u][l] = IF u = t /\ l = n THEN g ELSE stack[u][l]
      /\ \A u \in Comps : \A l \in 1..Len(stack'[u]) :
           l \in 1..Len(stack[u]) \/ (u = d /\ l = 1)
      /\ stack'[d][1] = h
  <2>1. Goes(t, d, g, d, 1, h)
    BY <1>1, GoesThread
  <2> HIDE DEF n
  <2> QED
    BY <2>1 DEF Goes, n
<1>3. \A u \in Comps : u # t /\ u # d => stack'[u] = stack[u]
  BY DEF WithTop, WitnessInv
<1>4. \A u \in Comps : Len(stack'[u]) \in Nat /\ Len(stack[u]) \in Nat
  BY DEF WitnessInv
<1>5. stack'[d] = <<h>> /\ Len(<<h>>) = 1 /\ <<h>>[1] = h /\ <<h>> # <<>> /\ Len(stack[d]) = 0
  BY <1>1 DEF WithTop, WitnessInv
<1> HIDE DEF n
<1>6. Len(stack'[t]) = n
  <2>1. n \in 1..Len(stack'[t])
    BY <1>1, <1>2 DEF n
  <2>2. Len(stack'[t]) \in 1..Len(stack'[t])
    BY <1>4, <2>1
  <2>3. Len(stack'[t]) \in 1..n
    BY <1>1, <1>2, <2>2 DEF n
  <2> QED
    BY <1>1, <1>4, <2>1, <2>3
<1>7. stack'[t] # <<>> /\ Top(t)' = g /\ Top(d)' = h
  <2>1. Top(t)' = g
    BY <1>1, <1>2, <1>6 DEF Top, n
  <2>2. Top(d)' = h
    BY <1>5 DEF Top
  <2>3. stack'[t] # <<>>
    BY <1>1, <1>6
  <2> QED
    BY <2>1, <2>2, <2>3
<1>8. CallersRun'
  <2>1. SUFFICES ASSUME NEW u \in Comps, NEW k \in 1..Len(stack'[u]), k < Len(stack'[u])
                 PROVE  stack'[u][k].step = "run"
    BY DEF CallersRun
  <2>2. CASE u = t
    BY <1>1, <1>2, <1>6, <2>1, <2>2 DEF SlotInv, CallersRun, n
  <2>3. CASE u = d
    <3>1. k \in 1..1
      BY <1>5, <2>3
    <3> QED
      BY <1>5, <2>1, <2>3, <3>1
  <2>4. CASE u # t /\ u # d
    BY <1>3, <2>1, <2>4 DEF SlotInv, CallersRun
  <2> QED
    BY <2>2, <2>3, <2>4
<1>9. FirstInThread'
  <2>1. SUFFICES ASSUME NEW u \in Comps, NEW k \in 1..Len(stack'[u])
                 PROVE  /\ stack'[u][k].par <=> k = 1 /\ (u # Main \/ Parallel[Main])
                        /\ stack'[u][k].step = "outputs" => stack'[u][k].par
    BY DEF FirstInThread
  <2>2. CASE k \in 1..Len(stack[u])
    <3>1. /\ stack[u][k].par <=> k = 1 /\ (u # Main \/ Parallel[Main])
          /\ stack[u][k].step = "outputs" => stack[u][k].par
      BY <2>2 DEF SlotInv, FirstInThread
    <3>2. stack'[u][k] = IF u = t /\ k = n THEN g ELSE stack[u][k]
      BY <1>2, <2>2
    <3>3. CASE u = t /\ k = n
      <4>1. stack'[u][k] = g /\ stack[u][k].par = g.par
        BY <1>1, <3>2, <3>3
      <4>2. stack'[u][k].step = "start"
        BY <4>1
      <4> QED
        BY <3>1, <4>1, <4>2
    <3>4. CASE ~ (u = t /\ k = n)
      BY <3>1, <3>2, <3>4
    <3> QED
      BY <3>3, <3>4
  <2>3. CASE u = d /\ k = 1
    <3>1. stack'[u][k] = h /\ u # Main
      BY <1>1, <1>2, <2>3
    <3>2. stack'[u][k].par /\ stack'[u][k].step = "run"
      BY <3>1, Zenon
    <3> QED
      BY <2>3, <3>1, <3>2
  <2> QED
    BY <1>2, <2>2, <2>3
<1>10. /\ t \notin Unpaid /\ t \notin Waiting /\ t \notin GivenBack /\ t \notin Takers
       /\ t \in Unpaid' /\ t \notin Waiting' /\ t \in Takers'
  BY <1>1, <1>7, Standing DEF SlotInv, Unpaid, Waiting, Takers, Running
<1>11. t \notin GivenBack'
  BY <1>1, <1>7 DEF GivenBack, Over, Threads
<1>12. /\ d \notin Unpaid /\ d \notin Waiting /\ d \notin GivenBack /\ d \notin Takers
       /\ d \notin Unpaid' /\ d \notin Waiting' /\ d \notin GivenBack' /\ d \notin Takers'
  BY <1>7 DEF Unpaid, Waiting, GivenBack, Over, Takers, Running, Threads
<1>13. \A u \in Comps : u # t /\ u # d =>
         /\ u \in Unpaid' <=> u \in Unpaid
         /\ u \in Waiting' <=> u \in Waiting
         /\ u \in GivenBack' <=> u \in GivenBack
         /\ Top(u)' = Top(u)
  BY <1>3, SameStanding
<1>14. \A u \in Comps : u # t /\ u # d => (u \in Takers' <=> u \in Takers)
  BY <1>3, <1>13 DEF Takers, Running
<1>15. numThread \in Int /\ started' # started
  BY DEF SlotInv, SlotType
<1>16. SlotsAccounted'
  <2>1. \A u \in Comps : u # t =>
          /\ u \in Unpaid' <=> u \in Unpaid
          /\ u \in Waiting' <=> u \in Waiting
          /\ u \in GivenBack' <=> u \in GivenBack
    BY <1>12, <1>13
  <2>2. numThread' = numThread + One(started' # started)
           + One(t \in Unpaid) - One(t \in Unpaid')
           + One(t \in Waiting) - One(t \in Waiting')
           + One(t \in GivenBack) - One(t \in GivenBack')
    BY <1>10, <1>11, <1>15 DEF One
  <2> QED
    BY <1>15, <2>1, <2>2, Accounted DEF SlotInv
<1>17. Enough'
  <2>1. \A u \in Comps : u # t => (u \in Takers' <=> u \in Takers)
    BY <1>12, <1>14
  <2>2. numThread' + One(t \in Takers') >= numThread + One(t \in Takers)
    BY <1>10, <1>15 DEF One
  <2> QED
    BY <1>15, <2>1, <2>2, StillEnough DEF SlotInv
<1>18. SlotType' /\ Sleeping'
  BY <1>1, <1>3, <1>13 DEF SlotInv, SlotType, HoldersOK, Sleeping
<1> QED
  BY <1>8, <1>9, <1>16, <1>17, <1>18 DEF SlotInv

LEMMA StepReleaseSlots ==
  ASSUME WitnessInv, WitnessInv', Threads, Threads', SlotInv, NEW t \in Comps, Release(t)
  PROVE  SlotInv'
<1> DEFINE n == Len(stack[t])
<1>1. /\ stack[t] # <<>> /\ Top(t).step = "release"
      /\ \A u \in Comps : \A l \in 1..Len(stack'[u]) :
           l \in 1..Len(stack[u]) /\ stack'[u][l] = stack[u][l] /\ ~ (u = t /\ l = n)
      /\ \A u \in Comps : \A l \in 1..Len(stack[u]) :
           ~ (u = t /\ l = n) => l \in 1..Len(stack'[u])
      /\ \A u \in Comps : stack'[u] # <<>> <=> stack[u] # <<>> /\ ~ (u = t /\ n = 1)
  BY Returned
<1>2. /\ finished' = IF n = 1 THEN finished \cup {t} ELSE finished
      /\ UNCHANGED <<asleep, numThread, holder, started>> /\ asleep[t] = "no"
      /\ \A u \in Comps : u # t => stack'[u] = stack[u]
  BY DEF Release, AtEnd, Running, WitnessInv
<1>3. /\ n \in 1..n /\ n \in Nat /\ Top(t) = stack[t][n]
      /\ \A u \in Comps : Len(stack'[u]) \in Nat /\ Len(stack[u]) \in Nat
      /\ \A u \in Comps : stack'[u] # <<>> => Len(stack'[u]) > 0
      /\ t \in started /\ t \notin finished
  BY <1>1, TopPlace, StackType DEF WitnessInv, Threads
<1> HIDE DEF n
<1>4. CallersRun' /\ FirstInThread'
  <2>1. CallersRun'
    <3>1. SUFFICES ASSUME NEW u \in Comps, NEW k \in 1..Len(stack'[u]), k < Len(stack'[u])
                   PROVE  stack'[u][k].step = "run"
      BY DEF CallersRun
    <3>2. Len(stack'[u]) \in 1..Len(stack'[u]) /\ k \in 1..Len(stack[u]) /\ stack'[u][k] = stack[u][k]
      BY <1>1, <1>3, <3>1
    <3>3. Len(stack'[u]) \in 1..Len(stack[u])
      BY <1>1, <3>2
    <3>4. k < Len(stack[u])
      BY <1>3, <3>1, <3>2, <3>3
    <3> QED
      BY <3>2, <3>4 DEF SlotInv, CallersRun
  <2>2. FirstInThread'
    <3>1. SUFFICES ASSUME NEW u \in Comps, NEW k \in 1..Len(stack'[u])
                   PROVE  /\ stack'[u][k].par <=> k = 1 /\ (u # Main \/ Parallel[Main])
                          /\ stack'[u][k].step = "outputs" => stack'[u][k].par
      BY DEF FirstInThread
    <3>2. k \in 1..Len(stack[u]) /\ stack'[u][k] = stack[u][k]
      BY <1>1
    <3> QED
      BY <3>2 DEF SlotInv, FirstInThread
  <2> QED
    BY <2>1, <2>2
<1>5. stack[t][n].par <=> n = 1 /\ (t # Main \/ Parallel[Main])
  BY <1>3 DEF SlotInv, FirstInThread, n
<1>6. /\ t \notin Unpaid /\ t \notin Waiting /\ t \notin Takers
      /\ t \in GivenBack <=> n = 1 /\ (t # Main \/ Parallel[Main])
  <2>1. /\ t \notin Unpaid /\ t \notin Waiting /\ t \notin Takers
    BY <1>1 DEF Unpaid, Waiting, Takers
  <2>2. t \in GivenBack <=> n = 1 /\ (t # Main \/ Parallel[Main])
    BY <1>1, <1>3 DEF GivenBack, Over, n
  <2> QED
    BY <2>1, <2>2
<1>7. /\ t \notin Unpaid' /\ t \notin Waiting' /\ t \notin Takers'
      /\ t \in GivenBack' <=> n = 1 /\ (t # Main \/ Parallel[Main])
  <2>1. CASE n = 1
    BY <1>1, <1>2, <1>3, <2>1 DEF Unpaid, Waiting, Takers, Running, GivenBack, Over
  <2>2. CASE n # 1
    <3>1. stack'[t] # <<>>
      BY <1>1, <2>2
    <3> DEFINE m == Len(stack'[t])
    <3>2. m \in 1..Len(stack'[t])
      BY <1>3, <3>1
    <3>3. m \in 1..n /\ m # n /\ Top(t)' = stack[t][m]
      BY <1>1, <3>2 DEF Top, n
    <3> HIDE DEF m
    <3>4. m < n
      BY <1>3, <3>3
    <3>5. Top(t)'.step = "run"
      BY <3>3, <3>4 DEF SlotInv, CallersRun, n
    <3> QED
      BY <1>2, <1>3, <2>2, <3>5 DEF Unpaid, Waiting, Takers, GivenBack, Over
  <2> QED
    BY <2>1, <2>2
<1>8. \A u \in Comps : u # t =>
        /\ u \in Unpaid' <=> u \in Unpaid
        /\ u \in Waiting' <=> u \in Waiting
        /\ u \in GivenBack' <=> u \in GivenBack
        /\ Top(u)' = Top(u)
  BY <1>2, SameStanding
<1>9. \A u \in Comps : u # t => (u \in Takers' <=> u \in Takers)
  BY <1>2, <1>8 DEF Takers, Running
<1>10. numThread \in Int /\ numThread' = numThread /\ started' = started
  BY <1>2 DEF SlotInv, SlotType
<1>11. SlotsAccounted'
  BY <1>6, <1>7, <1>8, <1>10, Accounted DEF One, SlotInv
<1>12. Enough'
  BY <1>2, <1>6, <1>7, <1>9, <1>10, StillEnough DEF One, SlotInv
<1>13. SlotType' /\ Sleeping'
  BY <1>2, <1>8 DEF SlotInv, SlotType, HoldersOK, Sleeping
<1> QED
  BY <1>4, <1>11, <1>12, <1>13 DEF SlotInv

LEMMA StepCreateSlots ==
  ASSUME WitnessInv, WitnessInv', RunInv, RunInv', SlotInv, NEW t \in Comps, Create(t)
  PROVE  SlotInv'
<1> DEFINE d == Current(t).cmp
           g == [Top(t) EXCEPT !.at = @ + 1, !.step = "run"]
           h == Frame(d, FALSE)
<1>1. /\ AtStatement(t) /\ Top(t).step = "run" /\ Current(t).op = "create" /\ Running(t)
      /\ UNCHANGED <<started, finished, asleep, numThread, holder>> /\ Threads /\ Threads'
  BY DEF Create, AtStatement, RunInv
<1>2. Feeds(t, d)
  BY <1>1 DEF Create, Feeds
<1>3. d \in Comps /\ Top(t) \in FrameType
  BY <1>1, <1>2, FedComponent, TopType DEF Subs
<1>4. g \in FrameType /\ g.par = Top(t).par /\ g.step = "run"
  <2>1. g \in FrameType /\ g.step = "run"
    BY <1>3, NextCall
  <2> QED
    BY <1>3, <2>1 DEF FrameType
<1>5. h \in FrameType /\ ~ h.par /\ h.step = "run"
  <2>1. h \in FrameType
    BY <1>3, CircuitAssumption DEF FrameType, Frame, Steps
  <2>2. h.par = FALSE /\ h.step = "run"
    BY DEF Frame
  <2> QED
    BY <2>1, <2>2
<1>6. CASE Inputs(d) = 0
  <2>1. stack' = [WithTop(t, g) EXCEPT ![t] = Append(@, h)] /\ Begins(t, d)
    BY <1>1, <1>6 DEF Create, Advance, Begins
  <2> HIDE DEF d, g, h
  <2> QED
    BY <1>1, <1>3, <1>4, <1>5, <2>1, SlotCall
<1>7. CASE Inputs(d) # 0
  <2>1. stack' = Advance(t)
    BY <1>7 DEF Create, Advance, WithTop, WitnessInv
  <2>2. WakesNoTaker /\ holder' = [c \in Comps |-> holder'[c]] /\ HoldersOK'
    BY <1>1, NobodyWakes, HolderKept DEF SlotInv
  <2> QED
    BY <1>1, <2>1, <2>2, SlotAdvance
<1> QED
  BY <1>6, <1>7

LEMMA StepStoreInputSlots ==
  ASSUME WitnessInv, WitnessInv', RunInv, RunInv', SlotInv, NEW t \in Comps, StoreInput(t)
  PROVE  SlotInv'
<1> DEFINE d == Current(t).cmp
           g == [Top(t) EXCEPT !.at = @ + 1, !.step = "run"]
           s == [Top(t) EXCEPT !.step = "start"]
           h == Frame(d, FALSE)
           i == Frame(d, TRUE)
           last == IsLast(Top(t).cmp, Top(t).at)
<1>1. /\ AtStatement(t) /\ Top(t).step = "run" /\ Current(t).op = "input" /\ Running(t)
      /\ UNCHANGED <<finished, asleep, numThread, holder>> /\ Threads /\ Threads'
  BY DEF StoreInput, AtStatement, RunInv
<1>2. Feeds(t, d)
  BY <1>1 DEF StoreInput, Feeds
<1>3. d \in Comps /\ Top(t) \in FrameType /\ d \in Subs /\ d \notin started /\ stack[d] = <<>>
  BY <1>1, <1>2, FedComponent, FedNotBegun, TopType DEF Subs
<1>4. /\ g \in FrameType /\ g.par = Top(t).par /\ g.step = "run"
      /\ s \in FrameType /\ s.par = Top(t).par /\ s.step = "start"
  <2>1. g \in FrameType /\ g.step = "run"
    BY <1>3, NextCall
  <2> QED
    BY <1>3, <2>1 DEF FrameType, Steps
<1>5. /\ h \in FrameType /\ ~ h.par /\ h.step = "run"
      /\ i \in FrameType /\ i.par /\ i.step = "run"
  <2>1. h \in FrameType /\ i \in FrameType
    BY <1>3, CircuitAssumption DEF FrameType, Frame, Steps
  <2>2. h.par = FALSE /\ h.step = "run" /\ i.par = TRUE /\ i.step = "run"
    BY DEF Frame
  <2> QED
    BY <2>1, <2>2
<1>6. Begins(t, d) <=> last
  BY <1>1 DEF Begins
<1>7. CASE ~ last /\ stack' = Advance(t) /\ UNCHANGED started
  <2>1. WakesNoTaker /\ holder' = [c \in Comps |-> holder'[c]] /\ HoldersOK'
    BY <1>1, NobodyWakes, HolderKept DEF SlotInv
  <2> QED
    BY <1>1, <1>7, <2>1, SlotAdvance
<1>8. CASE /\ last /\ started' = started \cup {d}
           /\ stack' = [AtStep(t, "start") EXCEPT ![d] = <<i>>]
  <2>1. stack' = [WithTop(t, s) EXCEPT ![d] = <<i>>]
    BY <1>8 DEF AtStep
  <2> HIDE DEF d, s, i
  <2> QED
    BY <1>1, <1>3, <1>4, <1>5, <1>6, <1>8, <2>1, SlotThread
<1>9. CASE last /\ stack' = [Advance(t) EXCEPT ![t] = Append(@, h)] /\ UNCHANGED started
  <2>1. stack' = [WithTop(t, g) EXCEPT ![t] = Append(@, h)]
    BY <1>9 DEF Advance
  <2> HIDE DEF d, g, h
  <2> QED
    BY <1>1, <1>3, <1>4, <1>5, <1>6, <1>9, <2>1, SlotCall
<1> QED
  BY <1>7, <1>8, <1>9 DEF StoreInput

-----------------------------------------------------------------------------
LEMMA InitSlots == Init => SlotInv
<1> SUFFICES ASSUME Init PROVE SlotInv
  OBVIOUS
<1> DEFINE f == Frame(Main, Parallel[Main])
<1>1. /\ asleep = [c \in Comps |-> "no"] /\ numThread = 0
      /\ holder = [c \in Comps |-> [o \in 1..Outputs[c] |-> None]]
      /\ started = {Main} /\ finished = {} /\ Main \in Comps /\ MaxThread \in Nat
  BY CircuitAssumption DEF Init
<1>2. \A t \in Comps : stack[t] = IF t = Main THEN <<f>> ELSE <<>>
  BY DEF Init
<1>3. f.step = "run" /\ f.par = Parallel[Main]
  BY DEF Frame
<1> HIDE DEF f
<1>4. Len(<<f>>) = 1 /\ <<f>>[1] = f /\ <<f>> # <<>>
  OBVIOUS
<1>5. ASSUME NEW t \in Comps, NEW k \in 1..Len(stack[t])
      PROVE  t = Main /\ k = 1 /\ stack[t][k] = f /\ Len(stack[t]) = 1
  <2>1. t = Main
    BY <1>2
  <2>2. k \in 1..1
    BY <1>2, <1>4, <2>1
  <2> QED
    BY <1>2, <1>4, <2>1, <2>2
<1>6. SlotType /\ Sleeping /\ Enough
  BY <1>1 DEF SlotType, HoldersOK, Sleeping, Enough
<1>7. CallersRun
  BY <1>5 DEF CallersRun
<1>8. FirstInThread
  <2>1. \A t \in Comps : \A k \in 1..Len(stack[t]) :
          /\ stack[t][k].par <=> k = 1 /\ (t # Main \/ Parallel[Main])
          /\ stack[t][k].step # "outputs"
    <3>1. SUFFICES ASSUME NEW t \in Comps, NEW k \in 1..Len(stack[t])
                   PROVE  /\ stack[t][k].par <=> k = 1 /\ (t # Main \/ Parallel[Main])
                          /\ stack[t][k].step # "outputs"
      OBVIOUS
    <3>2. t = Main /\ k = 1 /\ stack[t][k].par = Parallel[Main] /\ stack[t][k].step = "run"
      BY <1>3, <1>5
    <3> QED
      BY <3>2
  <2> QED
    BY <2>1 DEF FirstInThread
<1>9. SlotsAccounted
  <2>1. Top(Main) = f /\ stack[Main] # <<>>
    BY <1>1, <1>2, <1>4 DEF Top
  <2>2. Unpaid = {} /\ Waiting = {}
    BY <1>2, <1>3, <2>1 DEF Unpaid, Waiting
  <2>3. {t \in Over : t # Main \/ Parallel[Main]} = {}
    BY <1>1, <1>3, <2>1 DEF Over
  <2>4. started \ {Main} = {}
    BY <1>1
  <2>5. Cardinality({}) = 0
    BY FS_EmptySet
  <2>6. /\ Cardinality(started \ {Main}) = 0 /\ Cardinality(Unpaid) = 0 /\ Cardinality(Waiting) = 0
        /\ Cardinality({t \in Over : t # Main \/ Parallel[Main]}) = 0
    BY <2>2, <2>3, <2>4, <2>5
  <2> QED
    BY <1>1, <2>6 DEF SlotsAccounted
<1> QED
  BY <1>6, <1>7, <1>8, <1>9 DEF SlotInv

LEMMA SlotsStay == ASSUME SlotInv, UNCHANGED vars PROVE SlotInv'
<1>1. \A u : Top(u)' = Top(u)
  BY DEF Top, vars
<1>2. Takers' = Takers /\ Unpaid' = Unpaid /\ Waiting' = Waiting /\ Over' = Over
  BY <1>1 DEF vars, Takers, Unpaid, Waiting, Over, Running
<1>3. SlotType' /\ Sleeping' /\ CallersRun' /\ FirstInThread'
  BY <1>1 DEF vars, SlotInv, SlotType, HoldersOK, Sleeping, CallersRun, FirstInThread
<1>4. SlotsAccounted' /\ Enough'
  BY <1>2 DEF vars, SlotInv, SlotsAccounted, Enough
<1> QED
  BY <1>3, <1>4 DEF SlotInv

LEMMA NextSlots == WitnessInv /\ RunInv /\ SlotInv /\ [Next]_vars => SlotInv'
<1> SUFFICES ASSUME WitnessInv, RunInv, SlotInv, [Next]_vars PROVE SlotInv'
  OBVIOUS
<1>1. WitnessInv' /\ RunInv' /\ Threads /\ Threads'
  BY NextWitness, NextRun DEF RunInv
<1>2. ASSUME NEW t \in Comps, Step(t) PROVE SlotInv'
  BY <1>1, <1>2, StepWaitSlotSlots, StepTakeStartSlotSlots, StepCreateSlots,
     StepStoreInputSlots, StepLoadPlainSlots, StepStoreOutputSlots, StepNotifyOutputSlots,
     StepLoadGivesSlotSlots, StepLoadLocksSlots, StepLoadReadsSlots, StepJoinSlots,
     StepSetAllOutputsSlots, StepEndGivesSlotSlots, StepReleaseSlots DEF Step
<1>3. CASE UNCHANGED vars
  BY <1>3, SlotsStay
<1> QED
  BY <1>2, <1>3 DEF Next, Done

LEMMA SpecSlots == Spec => [](WitnessInv /\ RunInv /\ SlotInv)
<1>1. Init => WitnessInv /\ RunInv /\ SlotInv
  BY InitWitness, InitRun, InitSlots
<1>2. (WitnessInv /\ RunInv /\ SlotInv) /\ [Next]_vars => (WitnessInv /\ RunInv /\ SlotInv)'
  BY NextWitness, NextRun, NextSlots
<1> QED
  BY <1>1, <1>2, PTL DEF Spec

\* numThread counts exactly the threads that run: one that waits for an output has
\* given its slot back and takes it again, one that ends has given it back for good.
\* Only the thread of main() counts for less than nothing while it waits.
THEOREM SlotsAreAccounted == Spec => []SlotsAccounted
<1>1. SlotInv => SlotsAccounted
  BY DEF SlotInv
<1> QED
  BY <1>1, SpecSlots, PTL

\* While a thread sleeps for a slot and one is free, another thread is awake and about to
\* take one, so no wake-up of ntcvs is lost.
THEOREM SleepersWake == Spec => []NoForgottenSleeper
<1>1. ASSUME SlotInv PROVE NoForgottenSleeper
  <2>1. SUFFICES ASSUME \E t \in Comps : asleep[t] = "slot", numThread < MaxThread
                 PROVE  \E t \in Comps : Running(t) /\ Top(t).step \in {"start", "slot"}
    BY DEF NoForgottenSleeper
  <2> DEFINE S == Takers
  <2>2. numThread + Cardinality(S) >= MaxThread /\ numThread \in Int /\ MaxThread \in Int
    BY <1>1, <2>1, CircuitAssumption DEF SlotInv, Enough, SlotType
  <2>3. S # {}
    <3>1. Cardinality({}) = 0
      BY FS_EmptySet
    <3> HIDE DEF S
    <3> QED
      BY <2>1, <2>2, <3>1
  <2> QED
    BY <2>3 DEF Takers
<1> QED
  BY <1>1, SpecSlots, PTL

\* numThread never exceeds the slots there are; threads run only after they are started,
\* and are started only for components that are created.
THEOREM WitnessTypeOK == Spec => []TypeOK
<1>1. ASSUME WitnessInv, RunInv, SlotInv PROVE TypeOK
  <2>1. \A t \in Comps : asleep[t] \in {"no", "slot", "output"}
    BY <1>1 DEF SlotInv, SlotType
  <2>2. \A t \in Comps : \A k \in 1..Len(stack[t]) :
          stack[t][k].step \in {"run", "start", "lock", "slot", "set", "outputs", "release"}
    BY <1>1, StackType DEF FrameType, Steps
  <2>3. numThread \in Int /\ numThread <= MaxThread
    BY <1>1 DEF SlotInv, SlotType
  <2>4. finished \subseteq started /\ started \subseteq created
    BY <1>1 DEF RunInv, Threads
  <2>5. \A c \in Comps : \A o \in 1..Outputs[c] : holder[c][o] \in Comps \cup {None}
    BY <1>1 DEF SlotInv, SlotType, HoldersOK
  <2> QED
    BY <2>1, <2>2, <2>3, <2>4, <2>5 DEF TypeOK
<1> QED
  BY <1>1, SpecSlots, PTL
=============================================================================
