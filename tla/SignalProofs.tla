---------------------------- MODULE SignalProofs ----------------------------
(***************************************************************************)
(* Proofs about the assignments of signals, for every set of signals and   *)
(* every nesting of ifs and loops without a loop inside an unknown `if`:   *)
(* no run of the witness generator assigns an accepted signal twice, and   *)
(* one that is taken as assigned has a value in every run.  With loops     *)
(* inside ifs the first of these is false (run signal_twice); what is      *)
(* proved there too is that an else finds the condition it negates.        *)
(***************************************************************************)
EXTENDS SignalAssignment, Integers, SequenceTheorems, WellFoundedInduction,
        NaturalsInduction, TLAPS

Ids == 0 .. MaxIds - 1
Conditions == Ids \X BOOLEAN

-----------------------------------------------------------------------------
(***************************************************************************)
(* Lists.                                                                  *)
(***************************************************************************)

\* What happens to the end of a list s of k elements, or of k + 1: x is appended, the
\* last is removed, or the last is replaced by x.
Pushed(t, s, k, x) == (\A i \in 1 .. k : t[i] = s[i]) /\ t[k + 1] = x
Popped(t, s, k) == \A i \in 1 .. k : t[i] = s[i]

LEMMA AppendFacts ==
    ASSUME NEW S, NEW s \in Seq(S), NEW x \in S
    PROVE  /\ Append(s, x) \in Seq(S) /\ Len(Append(s, x)) = Len(s) + 1
           /\ Pushed(Append(s, x), s, Len(s), x)
  BY DEF Pushed

LEMMA FrontFacts ==
    ASSUME NEW S, NEW s \in Seq(S), NEW n \in Nat, Len(s) = n + 1
    PROVE  Front(s) \in Seq(S) /\ Len(Front(s)) = n /\ Popped(Front(s), s, n)
  <1>1. \A i \in 1 .. n : s[i] \in S
    OBVIOUS
  <1>2. /\ SubSeq(s, 1, n) \in Seq(S)
        /\ Len(SubSeq(s, 1, n)) = IF 1 <= n THEN n - 1 + 1 ELSE 0
        /\ \A i \in 1 .. n - 1 + 1 : SubSeq(s, 1, n)[i] = s[1 + i - 1]
    BY <1>1, SubSeqProperties
  <1>3. Front(s) = SubSeq(s, 1, n)
    <2>1. Len(s) - 1 = n
      OBVIOUS
    <2>2. QED
      BY <2>1 DEF Front
  <1>4. (IF 1 <= n THEN n - 1 + 1 ELSE 0) = n /\ n - 1 + 1 = n
    OBVIOUS
  <1>5. \A i \in 1 .. n : 1 + i - 1 = i
    OBVIOUS
  <1>6. QED
    BY <1>2, <1>3, <1>4, <1>5 DEF Popped

LEMMA LastFacts ==
    ASSUME NEW S, NEW s \in Seq(S), NEW n \in Nat, Len(s) = n + 1, NEW x \in S
    PROVE  LET t == [s EXCEPT ![Len(s)] = x] 
           IN  t \in Seq(S) /\ Len(t) = n + 1 /\ Pushed(t, s, n, x)
  BY DEF Pushed

\* The least element of a set of naturals.
LEMMA LeastNatural ==
    ASSUME NEW T \in SUBSET Nat, T # {}
    PROVE  \E m \in T : \A k \in T : m <= k
  <1>1. PICK m \in T : \A k \in T : <<k, m>> \notin OpToRel(<, Nat)
    BY WFMin, NatLessThanWellFounded, Zenon
  <1>2. \A k \in T : ~ (k < m)
    BY <1>1, Zenon DEF OpToRel
  <1>3. QED
    BY <1>2

\* Two lists agree in their first elements.
Agree(a, b, n) == \A i \in 1 .. n : a[i] = b[i]

\* The first difference of two lists, when neither starts with the other.
LEMMA FirstDifferenceFacts ==
    ASSUME NEW S, NEW a \in Seq(S), NEW b \in Seq(S), NEW d, d = FirstDifference(a, b), d # 0
    PROVE  /\ d \in Nat /\ d >= 1 /\ d <= Len(a) /\ d <= Len(b)
           /\ a[d] # b[d] /\ Agree(a, b, d - 1)
  <1> DEFINE shared == 1 .. (IF Len(a) < Len(b) THEN Len(a) ELSE Len(b))
             Differs(i) == a[i] # b[i] /\ \A j \in 1 .. i - 1 : a[j] = b[j]
             T == {i \in shared : a[i] # b[i]}
  <1>1. T # {} /\ T \in SUBSET Nat
    BY DEF FirstDifference
  <1>2. PICK m \in T : \A k \in T : m <= k
    BY <1>1, LeastNatural
  <1>3. m \in shared /\ Differs(m)
    BY <1>2
  <1>4. d = CHOOSE i \in shared : Differs(i)
    BY <1>1 DEF FirstDifference
  <1>5. d \in shared /\ Differs(d)
    BY <1>3, <1>4
  <1>6. QED
    BY <1>5 DEF Agree

-----------------------------------------------------------------------------
(***************************************************************************)
(* The stack of open statements.  Where no loop stands inside an unknown   *)
(* `if`, the first w frames are loops and the n others ifs.  The           *)
(* conditions of the ifs are the last n of conds, above l that loops have  *)
(* pushed (some of loops that are over), and they are the last decisions   *)
(* on path, below which there is one more (e = 1) while the body of an     *)
(* unknown loop is executed the second time.                               *)
(***************************************************************************)
Frames == [kind : {"while", "if"}, turn : 0 .. 2,
           phase : {"test", "body", "unknown", "then", "else"}]

StackType ==
    /\ conds \in Seq(Conditions) /\ path \in Seq(Conditions)
    /\ counter \in 0 .. MaxIds
    /\ frames \in Seq(Frames)
    /\ verdict \in {"running", "accepted", "rejected"}

Lengths(w, l, e, n) == Len(frames) = w + n /\ Len(conds) = l + n /\ Len(path) = e + n

LoopsOutside(w, n) ==
    /\ \A i \in 1 .. w : /\ frames[i].kind = "while"
                         /\ frames[i].phase \in {"test", "body", "unknown"}
    /\ \A i \in 1 .. n : /\ frames[w + i].kind = "if"
                         /\ frames[w + i].phase \in {"then", "else"}

\* Only the outermost `if` may stand for an execution of an unknown loop.
Turns(w, l, e, n) ==
    /\ \A i \in 2 .. n : frames[w + i].turn = 0
    /\ n > 0 /\ frames[w + 1].turn # 0 => w > 0 /\ conds[l + 1][2] = TRUE
    /\ e = IF n > 0 /\ frames[w + 1].turn = 2 THEN 1 ELSE 0

Aligned(l, e, n) == \A i \in 1 .. n : conds[l + i] = path[e + i]

\* The conditions of loops are never negated, and no decision carries their ids.
LoopConditions(l, m) ==
    \A k \in 1 .. l : /\ conds[k][2] = TRUE
                      /\ \A j \in 1 .. m : path[j][1] # conds[k][1]

\* Identifiers are given in rising order.
Rising(k, m) ==
    /\ \A i, j \in 1 .. k : i < j => conds[i][1] < conds[j][1]
    /\ \A i \in 1 .. k : conds[i][1] \in Nat /\ conds[i][1] < counter
    /\ \A i \in 1 .. m : path[i][1] \in Nat /\ path[i][1] < counter

Stack(w, l, e, n) ==
    /\ StackType /\ Lengths(w, l, e, n)
    /\ LoopsOutside(w, n) /\ Turns(w, l, e, n)
    /\ Aligned(l, e, n) /\ LoopConditions(l, e + n) /\ Rising(l + n, e + n)

\* The ids whose condition an `else` may still negate, or has negated.
Flips(w, l, n, id) == \E i \in 1 .. n : frames[w + i].turn = 0 /\ conds[l + i][1] = id

\* A step brings back no identifier: one that is new on the path, new among the
\* conditions that hold, or new to negate, is fresh.
NothingBack(k, m, k2, m2) ==
    /\ counter <= counter'
    /\ \A j \in 1 .. m2 : \/ path'[j][1] >= counter
                          \/ \E i \in 1 .. m : path[i][1] = path'[j][1]
    /\ \A j \in 1 .. k2 : conds'[j][2] = TRUE =>
         \/ conds'[j][1] >= counter
         \/ \E i \in 1 .. k : conds[i] = conds'[j]

NoFlipBack(w, l, n, w2, l2, n2) ==
    \A id : Flips(w2, l2, n2, id)' => id >= counter \/ Flips(w, l, n, id)

LEMMA ConditionFacts ==
    ASSUME MaxIds \in Nat, counter \in 0 .. MaxIds, counter < MaxIds
    PROVE  /\ <<counter, TRUE>> \in Conditions
           /\ <<counter, TRUE>>[1] = counter /\ <<counter, TRUE>>[2] = TRUE
           /\ counter \in Nat /\ counter + 1 \in 0 .. MaxIds
  <1>1. counter \in Ids /\ TRUE \in BOOLEAN
    BY DEF Ids
  <1>2. <<counter, TRUE>> \in Conditions
    BY <1>1 DEF Conditions
  <1>3. QED
    BY <1>2

LEMMA FrameFacts ==
    /\ Frame("if", "then") \in Frames
    /\ Frame("if", "then").kind = "if" /\ Frame("if", "then").phase = "then"
    /\ Frame("if", "then").turn = 0
    /\ Frame("while", "test") \in Frames
    /\ Frame("while", "test").kind = "while" /\ Frame("while", "test").phase = "test"
    /\ Frame("while", "test").turn = 0
  BY DEF Frame, Frames

\* if (c): the new condition is on the path.
LEMMA EnterIfStack ==
    ASSUME MaxIds \in Nat, NEW w \in Nat, NEW l \in Nat, NEW e \in Nat, NEW n \in Nat,
           Stack(w, l, e, n), EnterIf
    PROVE  /\ Stack(w, l, e, n + 1)'
           /\ NothingBack(l + n, e + n, l + (n + 1), e + (n + 1))
           /\ NoFlipBack(w, l, n, w, l, n + 1)
  <1> DEFINE c == <<counter, TRUE>>
             f == Frame("if", "then")
  <1>1. /\ conds' = Append(conds, c) /\ path' = Append(path, c) /\ frames' = Append(frames, f)
        /\ counter' = counter + 1 /\ counter < MaxIds /\ UNCHANGED verdict
        /\ StackType /\ Lengths(w, l, e, n)
    BY DEF EnterIf, PushCondition, Stack
  <1>2. /\ c \in Conditions /\ c[1] = counter /\ c[2] = TRUE
        /\ counter \in Nat /\ counter' \in 0 .. MaxIds /\ counter' = counter + 1
    BY <1>1, ConditionFacts DEF StackType
  <1>3. f \in Frames /\ f.kind = "if" /\ f.phase = "then" /\ f.turn = 0
    BY FrameFacts
  <1> HIDE DEF c, f
  <1>4. /\ conds \in Seq(Conditions) /\ path \in Seq(Conditions) /\ frames \in Seq(Frames)
        /\ Len(conds) = l + n /\ Len(path) = e + n /\ Len(frames) = w + n
        /\ l + n \in Nat /\ e + n \in Nat /\ w + n \in Nat
    BY <1>1 DEF StackType, Lengths
  <1>a. /\ conds' \in Seq(Conditions) /\ Len(conds') = l + n + 1
        /\ Pushed(conds', conds, l + n, c)
    <2>1. /\ Append(conds, c) \in Seq(Conditions) /\ Len(Append(conds, c)) = Len(conds) + 1
          /\ Pushed(Append(conds, c), conds, Len(conds), c)
      BY <1>2, <1>4, AppendFacts
    <2>2. QED
      BY <1>1, <1>4, <2>1
  <1>b. /\ path' \in Seq(Conditions) /\ Len(path') = e + n + 1
        /\ Pushed(path', path, e + n, c)
    <2>1. /\ Append(path, c) \in Seq(Conditions) /\ Len(Append(path, c)) = Len(path) + 1
          /\ Pushed(Append(path, c), path, Len(path), c)
      BY <1>2, <1>4, AppendFacts
    <2>2. QED
      BY <1>1, <1>4, <2>1
  <1>c. /\ frames' \in Seq(Frames) /\ Len(frames') = w + n + 1
        /\ Pushed(frames', frames, w + n, f)
    <2>1. /\ Append(frames, f) \in Seq(Frames) /\ Len(Append(frames, f)) = Len(frames) + 1
          /\ Pushed(Append(frames, f), frames, Len(frames), f)
      BY <1>3, <1>4, AppendFacts
    <2>2. QED
      BY <1>1, <1>4, <2>1
  <1>5. /\ conds' \in Seq(Conditions) /\ Len(conds') = l + n + 1
        /\ path' \in Seq(Conditions) /\ Len(path') = e + n + 1
        /\ frames' \in Seq(Frames) /\ Len(frames') = w + n + 1
    BY <1>a, <1>b, <1>c
  <1>6. /\ Pushed(conds', conds, l + n, c) /\ Pushed(path', path, e + n, c)
        /\ Pushed(frames', frames, w + n, f)
    BY <1>a, <1>b, <1>c
  <1>7. StackType' /\ Lengths(w, l, e, n + 1)'
    BY <1>1, <1>2, <1>4, <1>5 DEF StackType, Lengths
  <1>8. LoopsOutside(w, n + 1)'
    <2>1. \A i \in 1 .. n + 1 : frames'[w + i] = IF i = n + 1 THEN f ELSE frames[w + i]
      BY <1>6 DEF Pushed
    <2>2. \A i \in 1 .. w : frames'[i] = frames[i]
      BY <1>6 DEF Pushed
    <2>3. QED
      BY <1>3, <2>1, <2>2 DEF Stack, LoopsOutside
  <1>9. Turns(w, l, e, n + 1)'
    <2>1. /\ \A i \in 1 .. n : frames'[w + i] = frames[w + i] /\ conds'[l + i] = conds[l + i]
          /\ frames'[w + (n + 1)] = f /\ conds'[l + (n + 1)] = c
      <3>1. \A i \in 1 .. n : frames'[w + i] = frames[w + i] /\ conds'[l + i] = conds[l + i]
        BY <1>6 DEF Pushed
      <3>2. w + (n + 1) = (w + n) + 1 /\ l + (n + 1) = (l + n) + 1
        OBVIOUS
      <3>3. frames'[w + (n + 1)] = f /\ conds'[l + (n + 1)] = c
        BY <1>6, <3>2 DEF Pushed
      <3>4. QED
        BY <3>1, <3>3
    <2>2. CASE n = 0
      BY <1>2, <1>3, <2>1, <2>2 DEF Stack, Turns
    <2>3. CASE n > 0
      BY <1>2, <1>3, <2>1, <2>3 DEF Stack, Turns
    <2>4. QED
      BY <2>2, <2>3
  <1>10. Aligned(l, e, n + 1)'
    BY <1>6 DEF Stack, Aligned, Pushed
  <1>11. LoopConditions(l, e + (n + 1))'
    <2>1. /\ \A i \in 1 .. l + n : conds'[i] = conds[i]
          /\ \A j \in 1 .. e + n : path'[j] = path[j]
          /\ path'[e + n + 1] = c
      BY <1>6 DEF Pushed
    <2>2. ASSUME NEW k \in 1 .. l
          PROVE  /\ conds'[k][2] = TRUE
                 /\ \A j \in 1 .. e + (n + 1) : path'[j][1] # conds'[k][1]
      <3>1. /\ k \in 1 .. l + n /\ conds'[k] = conds[k]
            /\ \A j \in 1 .. e + (n + 1) : j = e + n + 1 \/ j \in 1 .. e + n
        BY <2>1
      <3>2. conds[k][2] = TRUE /\ \A j \in 1 .. e + n : path[j][1] # conds[k][1]
        BY DEF Stack, LoopConditions
      <3>3. conds[k][1] \in Nat /\ conds[k][1] < counter
        BY <3>1 DEF Stack, Rising
      <3>4. conds[k][1] # counter
        BY <1>2, <3>3
      <3>5. QED
        BY <1>2, <2>1, <3>1, <3>2, <3>4
    <2>3. QED
      BY <2>2 DEF LoopConditions
  <1>12. Rising(l + (n + 1), e + (n + 1))'
    BY <1>2, <1>6 DEF Stack, Rising, Pushed
  <1>13. NothingBack(l + n, e + n, l + (n + 1), e + (n + 1))
    BY <1>2, <1>6 DEF NothingBack, Pushed
  <1>14. NoFlipBack(w, l, n, w, l, n + 1)
    BY <1>2, <1>6 DEF NoFlipBack, Flips, Pushed
  <1>15. QED
    BY <1>7, <1>8, <1>9, <1>10, <1>11, <1>12, <1>13, <1>14 DEF Stack

\* The frame on top of the stack, by its phase or kind.
LEMMA TopFrame ==
    ASSUME NEW w \in Nat, NEW l \in Nat, NEW e \in Nat, NEW n \in Nat, Stack(w, l, e, n),
           frames # << >>
    PROVE  /\ n = 0 => /\ w > 0 /\ Top = frames[w] /\ Top.kind = "while"
                       /\ Top.phase \in {"test", "body", "unknown"}
           /\ n > 0 => /\ Top = frames[w + n] /\ Top.kind = "if"
                       /\ Top.phase \in {"then", "else"} /\ InUnknown
           /\ Top \in Frames
  <1>1. Len(frames) = w + n /\ frames \in Seq(Frames)
    BY DEF Stack, Lengths, StackType
  <1>2. w + n > 0
    BY <1>1
  <1>3. Top = frames[w + n] /\ Top \in Frames
    BY <1>1, <1>2 DEF Top, Last
  <1>4. CASE n = 0
    <2>1. w > 0 /\ Top = frames[w]
      BY <1>2, <1>3, <1>4
    <2>2. QED
      BY <1>3, <1>4, <2>1 DEF Stack, LoopsOutside
  <1>5. CASE n > 0
    <2>1. frames[w + n].kind = "if" /\ frames[w + n].phase \in {"then", "else"}
      BY <1>5 DEF Stack, LoopsOutside
    <2>2. w + n \in 1 .. Len(frames)
      BY <1>1, <1>2
    <2>3. QED
      BY <1>3, <1>5, <2>1, <2>2 DEF InUnknown
  <1>6. QED
    BY <1>3, <1>4, <1>5

\* } else {: the condition on top is that of the `if`.
LEMMA EnterElseStack ==
    ASSUME MaxIds \in Nat, NEW w \in Nat, NEW l \in Nat, NEW e \in Nat, NEW n \in Nat,
           Stack(w, l, e, n), EnterElse
    PROVE  /\ Stack(w, l, e, n)'
           /\ NothingBack(l + n, e + n, l + n, e + n)
           /\ NoFlipBack(w, l, n, w, l, n)
  <1>1. n > 0 /\ Top = frames[w + n] /\ Top.kind = "if" /\ Top \in Frames /\ Top.turn = 0
    BY TopFrame DEF EnterElse
  <1>2. PICK m \in Nat : n = m + 1
    <2>1. n - 1 \in Nat /\ n = (n - 1) + 1
      BY <1>1
    <2>2. QED
      BY <2>1
  <1>3. /\ conds \in Seq(Conditions) /\ path \in Seq(Conditions) /\ frames \in Seq(Frames)
        /\ Len(conds) = l + m + 1 /\ Len(path) = e + m + 1 /\ Len(frames) = w + m + 1
        /\ l + m \in Nat /\ e + m \in Nat /\ w + m \in Nat
    BY <1>2 DEF Stack, StackType, Lengths
  <1> DEFINE b == conds[l + m + 1]
             c == <<b[1], FALSE>>
             f == [Top EXCEPT !.phase = "else"]
  <1>4. b \in Conditions /\ path[e + m + 1] = b
    <2>1. b \in Conditions
      BY <1>3
    <2>2. l + (m + 1) = l + m + 1 /\ e + (m + 1) = e + m + 1 /\ n \in 1 .. n
      BY <1>2
    <2>3. conds[l + n] = path[e + n]
      BY <2>2 DEF Stack, Aligned
    <2>4. QED
      BY <1>2, <2>1, <2>2, <2>3
  <1>5. c \in Conditions /\ c[1] = b[1] /\ c[2] = FALSE
    BY <1>4 DEF Conditions
  <1>6. /\ f \in Frames /\ f.kind = "if" /\ f.phase = "else" /\ f.turn = 0
    BY <1>1 DEF Frames
  <1>7. /\ conds' = [conds EXCEPT ![Len(conds)] = c]
        /\ path' = [path EXCEPT ![Len(path)] = c]
        /\ frames' = [frames EXCEPT ![Len(frames)] = f]
        /\ UNCHANGED <<counter, verdict>>
    <2>1. conds # << >>
      BY <1>3
    <2>2. conds[Len(conds)] = b /\ path[Len(path)] = b /\ frames[Len(frames)] = Top
      BY <1>1, <1>2, <1>3, <1>4 DEF Top, Last
    <2>3. QED
      BY <2>1, <2>2 DEF EnterElse
  <1> HIDE DEF c, f
  <1>8. /\ conds' \in Seq(Conditions) /\ Len(conds') = l + m + 1
        /\ path' \in Seq(Conditions) /\ Len(path') = e + m + 1
        /\ frames' \in Seq(Frames) /\ Len(frames') = w + m + 1
    BY <1>3, <1>5, <1>6, <1>7, LastFacts
  <1>9. /\ Pushed(conds', conds, l + m, c) /\ Pushed(path', path, e + m, c)
        /\ Pushed(frames', frames, w + m, f)
    BY <1>3, <1>5, <1>6, <1>7, LastFacts
  <1>10. StackType' /\ Lengths(w, l, e, n)'
    BY <1>2, <1>7, <1>8 DEF Stack, StackType, Lengths
  <1>11. \A i \in 1 .. n :
           /\ conds'[l + i][1] = conds[l + i][1]
           /\ path'[e + i][1] = path[e + i][1]
           /\ frames'[w + i].kind = "if" /\ frames'[w + i].phase \in {"then", "else"}
           /\ frames'[w + i].turn = frames[w + i].turn
           /\ i # n => conds'[l + i] = conds[l + i] /\ path'[e + i] = path[e + i]
           /\ i = n => conds'[l + i] = c /\ path'[e + i] = c /\ frames[w + i].turn = 0
    <2> TAKE i \in 1 .. n
    <2>1. CASE i = n
      <3>1. /\ conds'[l + i] = c /\ path'[e + i] = c /\ frames'[w + i] = f
        BY <1>2, <1>9, <2>1 DEF Pushed
      <3>2. conds[l + i] = b /\ path[e + i] = b /\ frames[w + i] = Top
        BY <1>1, <1>2, <1>4, <2>1
      <3>3. QED
        BY <1>1, <1>5, <1>6, <2>1, <3>1, <3>2
    <2>2. CASE i # n
      <3>1. i \in 1 .. m
        BY <1>2, <2>2
      <3>2. /\ conds'[l + i] = conds[l + i] /\ path'[e + i] = path[e + i]
            /\ frames'[w + i] = frames[w + i]
        BY <1>9, <3>1 DEF Pushed
      <3>3. QED
        BY <2>2, <3>2 DEF Stack, LoopsOutside
    <2>3. QED
      BY <2>1, <2>2
  <1>12. /\ \A i \in 1 .. l : conds'[i] = conds[i]
         /\ \A i \in 1 .. e : path'[i] = path[i]
         /\ \A i \in 1 .. w : frames'[i] = frames[i]
    BY <1>9 DEF Pushed
  <1>13. /\ \A i \in 1 .. l + n : conds'[i][1] = conds[i][1]
         /\ \A i \in 1 .. e + n : path'[i][1] = path[i][1]
    <2>1. ASSUME NEW i \in 1 .. l + n PROVE conds'[i][1] = conds[i][1]
      <3>1. CASE i <= l
        BY <1>12, <3>1
      <3>2. CASE i > l
        <4>1. i - l \in 1 .. n /\ l + (i - l) = i
          BY <3>2
        <4>2. QED
          BY <1>11, <4>1
      <3>3. QED
        BY <3>1, <3>2
    <2>2. ASSUME NEW i \in 1 .. e + n PROVE path'[i][1] = path[i][1]
      <3>1. CASE i <= e
        BY <1>12, <3>1
      <3>2. CASE i > e
        <4>1. i - e \in 1 .. n /\ e + (i - e) = i
          BY <3>2
        <4>2. QED
          BY <1>11, <4>1
      <3>3. QED
        BY <3>1, <3>2
    <2>3. QED
      BY <2>1, <2>2
  <1>14. LoopsOutside(w, n)'
    BY <1>11, <1>12 DEF Stack, LoopsOutside
  <1>15. Turns(w, l, e, n)'
    <2>1. \A i \in 1 .. n : frames'[w + i].turn = frames[w + i].turn
      BY <1>11
    <2>2. 1 \in 1 .. n
      BY <1>1
    <2>3. frames[w + 1].turn # 0 => conds'[l + 1] = conds[l + 1]
      BY <1>11, <2>2
    <2>4. QED
      BY <1>1, <2>1, <2>2, <2>3 DEF Stack, Turns
  <1>16. Aligned(l, e, n)'
    BY <1>11 DEF Stack, Aligned
  <1>17. LoopConditions(l, e + n)'
    BY <1>12, <1>13 DEF Stack, LoopConditions
  <1>18. Rising(l + n, e + n)'
    BY <1>7, <1>13 DEF Stack, Rising
  <1>19. NothingBack(l + n, e + n, l + n, e + n)
    <2>1. counter \in Nat /\ counter' = counter
      BY <1>7 DEF Stack, StackType
    <2>2. ASSUME NEW j \in 1 .. l + n, conds'[j][2] = TRUE
          PROVE  conds[j] = conds'[j]
      <3>1. CASE j <= l
        BY <1>12, <3>1
      <3>2. CASE j > l
        <4>1. j - l \in 1 .. n /\ l + (j - l) = j
          BY <3>2
        <4>2. j - l # n
          BY <1>5, <1>11, <2>2, <4>1
        <4>3. QED
          BY <1>11, <4>1, <4>2
      <3>3. QED
        BY <3>1, <3>2
    <2>3. \A j \in 1 .. l + n : conds'[j][2] = TRUE => \E i \in 1 .. l + n : conds[i] = conds'[j]
      BY <2>2
    <2>4. \A j \in 1 .. e + n : \E i \in 1 .. e + n : path[i][1] = path'[j][1]
      BY <1>13
    <2>5. counter <= counter'
      BY <2>1
    <2>6. QED
      BY <2>3, <2>4, <2>5 DEF NothingBack
  <1>20. NoFlipBack(w, l, n, w, l, n)
    BY <1>11 DEF NoFlipBack, Flips
  <1>21. QED
    BY <1>10, <1>14, <1>15, <1>16, <1>17, <1>18, <1>19, <1>20 DEF Stack

\* The lists that a step leaves alone.
LEMMA SameLists ==
    ASSUME NEW w \in Nat, NEW l \in Nat, NEW e \in Nat, NEW n \in Nat,
           Stack(w, l, e, n)
    PROVE  /\ conds \in Seq(Conditions) /\ path \in Seq(Conditions) /\ frames \in Seq(Frames)
           /\ Len(conds) = l + n /\ Len(path) = e + n /\ Len(frames) = w + n
           /\ counter \in Nat /\ counter \in 0 .. MaxIds
           /\ verdict \in {"running", "accepted", "rejected"}
  BY DEF Stack, StackType, Lengths

\* Dropping the last conditions keeps the order of the identifiers.
LEMMA RisingKept ==
    ASSUME NEW k \in Nat, NEW k2 \in Nat, NEW m \in Nat, Rising(k, m), k2 <= k,
           Popped(conds', conds, k2), counter' = counter, Popped(path', path, m)
    PROVE  Rising(k2, m)'
  <1>1. \A i \in 1 .. k2 : i \in 1 .. k /\ conds'[i] = conds[i]
    BY DEF Popped
  <1>2. \A i, j \in 1 .. k2 : i < j => conds'[i][1] < conds'[j][1]
    <2>1. TAKE i, j \in 1 .. k2
    <2>2. HAVE i < j
    <2>3. conds[i][1] < conds[j][1]
      BY <1>1, <2>2 DEF Rising
    <2>4. QED
      BY <1>1, <2>3
  <1>3. \A i \in 1 .. k2 : conds'[i][1] \in Nat /\ conds'[i][1] < counter'
    <2>1. TAKE i \in 1 .. k2
    <2>2. conds[i][1] \in Nat /\ conds[i][1] < counter
      BY <1>1 DEF Rising
    <2>3. QED
      BY <1>1, <2>2
  <1>4. \A i \in 1 .. m : path'[i][1] \in Nat /\ path'[i][1] < counter'
    <2>1. TAKE i \in 1 .. m
    <2>2. path'[i] = path[i] /\ path[i][1] \in Nat /\ path[i][1] < counter
      BY DEF Rising, Popped
    <2>3. QED
      BY <2>2
  <1>5. QED
    BY <1>2, <1>3, <1>4 DEF Rising

\* The end of an `if`: its condition is dropped.
LEMMA EndIfStack ==
    ASSUME MaxIds \in Nat, NEW w \in Nat, NEW l \in Nat, NEW e \in Nat, NEW n \in Nat,
           Stack(w, l, e, n), EndIf
    PROVE  \E m \in Nat :
             /\ Stack(w, l, e, m)'
             /\ NothingBack(l + n, e + n, l + m, e + m)
             /\ NoFlipBack(w, l, n, w, l, m)
  <1>1. n > 0 /\ frames[w + n].turn = 0
    BY TopFrame DEF EndIf
  <1>2. PICK m \in Nat : n = m + 1
    <2>1. n - 1 \in Nat /\ n = (n - 1) + 1
      BY <1>1
    <2>2. QED
      BY <2>1
  <1>3. /\ conds \in Seq(Conditions) /\ path \in Seq(Conditions) /\ frames \in Seq(Frames)
        /\ Len(conds) = l + m + 1 /\ Len(path) = e + m + 1 /\ Len(frames) = w + m + 1
        /\ l + m \in Nat /\ e + m \in Nat /\ w + m \in Nat
    <2>1. /\ l + n = l + m + 1 /\ e + n = e + m + 1 /\ w + n = w + m + 1
          /\ l + m \in Nat /\ e + m \in Nat /\ w + m \in Nat
      BY <1>2
    <2>2. /\ conds \in Seq(Conditions) /\ path \in Seq(Conditions) /\ frames \in Seq(Frames)
          /\ Len(conds) = l + n /\ Len(path) = e + n /\ Len(frames) = w + n
      BY SameLists
    <2>3. QED
      BY <2>1, <2>2
  <1>4. /\ conds' = Front(conds) /\ path' = Front(path) /\ frames' = Front(frames)
        /\ counter' = counter /\ verdict' = verdict /\ counter \in Nat
    <2>1. conds # << >>
      BY <1>3
    <2>2. QED
      BY <2>1, SameLists DEF EndIf, PopCondition
  <1>a. /\ conds' \in Seq(Conditions) /\ Len(conds') = l + m /\ Popped(conds', conds, l + m)
    <2>1. /\ Front(conds) \in Seq(Conditions) /\ Len(Front(conds)) = l + m
          /\ Popped(Front(conds), conds, l + m)
      BY <1>3, FrontFacts
    <2>2. QED
      BY <1>4, <2>1
  <1>b. /\ path' \in Seq(Conditions) /\ Len(path') = e + m /\ Popped(path', path, e + m)
    <2>1. /\ Front(path) \in Seq(Conditions) /\ Len(Front(path)) = e + m
          /\ Popped(Front(path), path, e + m)
      BY <1>3, FrontFacts
    <2>2. QED
      BY <1>4, <2>1
  <1>c. /\ frames' \in Seq(Frames) /\ Len(frames') = w + m /\ Popped(frames', frames, w + m)
    <2>1. /\ Front(frames) \in Seq(Frames) /\ Len(Front(frames)) = w + m
          /\ Popped(Front(frames), frames, w + m)
      BY <1>3, FrontFacts
    <2>2. QED
      BY <1>4, <2>1
  <1>5. /\ conds' \in Seq(Conditions) /\ Len(conds') = l + m
        /\ path' \in Seq(Conditions) /\ Len(path') = e + m
        /\ frames' \in Seq(Frames) /\ Len(frames') = w + m
    BY <1>a, <1>b, <1>c
  <1>6. /\ Popped(conds', conds, l + m) /\ Popped(path', path, e + m)
        /\ Popped(frames', frames, w + m)
    BY <1>a, <1>b, <1>c
  <1>7. StackType' /\ Lengths(w, l, e, m)'
    BY <1>4, <1>5 DEF Stack, StackType, Lengths
  <1>8. LoopsOutside(w, m)'
    BY <1>2, <1>6 DEF Stack, LoopsOutside, Popped
  <1>9. Turns(w, l, e, m)'
    <2>1. \A i \in 1 .. m : frames'[w + i] = frames[w + i] /\ conds'[l + i] = conds[l + i]
      BY <1>6 DEF Popped
    <2>2. CASE m = 0
      BY <1>1, <1>2, <2>2 DEF Stack, Turns
    <2>3. CASE m > 0
      BY <1>2, <2>1, <2>3 DEF Stack, Turns
    <2>4. QED
      BY <2>2, <2>3
  <1>10. Aligned(l, e, m)'
    BY <1>2, <1>6 DEF Stack, Aligned, Popped
  <1>11. LoopConditions(l, e + m)'
    BY <1>2, <1>6 DEF Stack, LoopConditions, Popped
  <1>12. Rising(l + m, e + m)'
    <2>1. l + m \in Nat /\ l + n \in Nat /\ l + m <= l + n /\ e + n \in Nat
          /\ e + m \in Nat /\ e + m <= e + n
      BY <1>2
    <2>2. Rising(l + n, e + n)
      BY DEF Stack
    <2>3. Rising(l + n, e + m)
      BY <2>1, <2>2 DEF Rising
    <2>4. QED
      BY <1>4, <1>6, <2>1, <2>3, RisingKept
  <1>13. NothingBack(l + n, e + n, l + m, e + m)
    BY <1>2, <1>4, <1>6 DEF NothingBack, Popped
  <1>14. NoFlipBack(w, l, n, w, l, m)
    BY <1>2, <1>6 DEF NoFlipBack, Flips, Popped
  <1>15. QED
    BY <1>7, <1>8, <1>9, <1>10, <1>11, <1>12, <1>13, <1>14 DEF Stack

\* while: a condition that stays below those of ifs, as no `if` is open.
LEMMA EnterWhileStack ==
    ASSUME MaxIds \in Nat, ~ LoopsUnderIf,
           NEW w \in Nat, NEW l \in Nat, NEW e \in Nat, NEW n \in Nat,
           Stack(w, l, e, n), EnterWhile
    PROVE  /\ Stack(w + 1, l + 1, 0, 0)'
           /\ NothingBack(l + n, e + n, l + 1 + 0, 0 + 0)
           /\ NoFlipBack(w, l, n, w + 1, l + 1, 0)
  <1> DEFINE c == <<counter, TRUE>>
             f == Frame("while", "test")
  <1>1. n = 0 /\ e = 0
    <2>1. CASE frames = << >>
      <3>1. Len(frames) = w + n /\ Len(frames) = 0
        BY <2>1, SameLists
      <3>2. n = 0
        BY <3>1
      <3>3. QED
        BY <3>2 DEF Stack, Turns
    <2>2. CASE frames # << >>
      <3>1. ~ InUnknown
        BY DEF EnterWhile
      <3>2. n = 0
        BY <2>2, <3>1, TopFrame
      <3>3. QED
        BY <3>2 DEF Stack, Turns
    <2>3. QED
      BY <2>1, <2>2
  <1>2. /\ conds' = Append(conds, c) /\ path' = path /\ frames' = Append(frames, f)
        /\ counter' = counter + 1 /\ counter < MaxIds /\ verdict' = verdict
    BY DEF EnterWhile, PushCondition
  <1>3. /\ c \in Conditions /\ c[1] = counter /\ c[2] = TRUE
        /\ counter \in Nat /\ counter' \in 0 .. MaxIds /\ counter' = counter + 1
    BY <1>2, ConditionFacts, SameLists
  <1>4. f \in Frames /\ f.kind = "while" /\ f.phase = "test"
    BY FrameFacts
  <1> HIDE DEF c, f
  <1>5. /\ conds \in Seq(Conditions) /\ path \in Seq(Conditions) /\ frames \in Seq(Frames)
        /\ Len(conds) = l /\ Len(path) = 0 /\ Len(frames) = w
    BY <1>1, SameLists
  <1>6. /\ conds' \in Seq(Conditions) /\ Len(conds') = l + 1
        /\ frames' \in Seq(Frames) /\ Len(frames') = w + 1
    BY <1>2, <1>3, <1>4, <1>5, AppendFacts
  <1>7. Pushed(conds', conds, l, c) /\ Pushed(frames', frames, w, f)
    BY <1>2, <1>3, <1>4, <1>5, AppendFacts
  <1>8. StackType' /\ Lengths(w + 1, l + 1, 0, 0)'
    BY <1>2, <1>3, <1>5, <1>6 DEF Stack, StackType, Lengths
  <1>9. LoopsOutside(w + 1, 0)'
    BY <1>4, <1>7 DEF Stack, LoopsOutside, Pushed
  <1>10. Turns(w + 1, l + 1, 0, 0)' /\ Aligned(l + 1, 0, 0)'
    BY DEF Turns, Aligned
  <1>11. LoopConditions(l + 1, 0 + 0)'
    BY <1>3, <1>7 DEF Stack, LoopConditions, Pushed
  <1>12. Rising(l + 1 + 0, 0 + 0)'
    BY <1>1, <1>3, <1>7 DEF Stack, Rising, Pushed
  <1>13. NothingBack(l + n, e + n, l + 1 + 0, 0 + 0)
    BY <1>1, <1>3, <1>7 DEF NothingBack, Pushed
  <1>14. NoFlipBack(w, l, n, w + 1, l + 1, 0)
    BY DEF NoFlipBack, Flips
  <1>15. QED
    BY <1>8, <1>9, <1>10, <1>11, <1>12, <1>13, <1>14 DEF Stack

\* A loop on top of the stack: no `if` is open.
LEMMA TopLoop ==
    ASSUME NEW w \in Nat, NEW l \in Nat, NEW e \in Nat, NEW n \in Nat, Stack(w, l, e, n),
           frames # << >>, Top.phase \in {"test", "body"}
    PROVE  /\ n = 0 /\ e = 0 /\ Top = frames[w]
           /\ Top.kind = "while" /\ Top \in Frames
           /\ \E v \in Nat : w = v + 1
  <1>1. n = 0
    BY TopFrame
  <1>2. e = 0
    BY <1>1 DEF Stack, Turns
  <1>3. /\ w > 0 /\ Top = frames[w] /\ Top.kind = "while" /\ Top \in Frames
    BY <1>1, TopFrame
  <1>4. w - 1 \in Nat /\ w = (w - 1) + 1
    BY <1>3
  <1>5. QED
    BY <1>1, <1>2, <1>3, <1>4

\* A loop goes on or ends an iteration: the frame on top changes, and the last
\* condition may be dropped.
LEMMA LoopKept ==
    ASSUME NEW v \in Nat, NEW l \in Nat, NEW m \in Nat,
           Stack(v + 1, l, 0, 0), NEW f \in Frames,
           f.kind = "while", f.phase \in {"test", "body", "unknown"},
           frames' = [frames EXCEPT ![Len(frames)] = f],
           m <= l, conds' \in Seq(Conditions), Len(conds') = m, Popped(conds', conds, m),
           UNCHANGED <<counter, path, verdict>>
    PROVE  /\ Stack(v + 1, m, 0, 0)'
           /\ NothingBack(l + 0, 0 + 0, m + 0, 0 + 0)
           /\ NoFlipBack(v + 1, l, 0, v + 1, m, 0)
  <1>1. /\ frames \in Seq(Frames) /\ Len(frames) = v + 1 /\ Len(path) = 0
        /\ counter \in Nat
    BY SameLists
  <1>2. frames' \in Seq(Frames) /\ Len(frames') = v + 1 /\ Pushed(frames', frames, v, f)
    <2> DEFINE t == [frames EXCEPT ![Len(frames)] = f]
    <2>1. t \in Seq(Frames) /\ Len(t) = v + 1 /\ Pushed(t, frames, v, f)
      BY <1>1, LastFacts
    <2>2. QED
      BY <2>1
  <1>3. StackType' /\ Lengths(v + 1, m, 0, 0)'
    BY <1>1, <1>2 DEF Stack, StackType, Lengths
  <1>4. LoopsOutside(v + 1, 0)'
    BY <1>2 DEF Stack, LoopsOutside, Pushed
  <1>5. Turns(v + 1, m, 0, 0)' /\ Aligned(m, 0, 0)'
    BY DEF Turns, Aligned
  <1>6. LoopConditions(m, 0 + 0)'
    BY DEF Stack, LoopConditions, Popped
  <1>7. Rising(m + 0, 0 + 0)'
    <2>1. Popped(path', path, 0) /\ Rising(l, 0) /\ l \in Nat /\ m + 0 = m /\ 0 + 0 = 0
      BY DEF Stack, Popped
    <2>2. Rising(m, 0)'
      BY <2>1, RisingKept
    <2>3. QED
      BY <2>1, <2>2
  <1>8. NothingBack(l + 0, 0 + 0, m + 0, 0 + 0)
    BY <1>1 DEF NothingBack, Popped
  <1>9. NoFlipBack(v + 1, l, 0, v + 1, m, 0)
    BY DEF NoFlipBack, Flips
  <1>10. QED
    BY <1>3, <1>4, <1>5, <1>6, <1>7, <1>8, <1>9 DEF Stack

\* The condition of a loop holds.
LEMMA LoopTrueStack ==
    ASSUME NEW w \in Nat, NEW l \in Nat, NEW e \in Nat, NEW n \in Nat,
           Stack(w, l, e, n), LoopTrue
    PROVE  /\ Stack(w, l, e, n)'
           /\ NothingBack(l + n, e + n, l + n, e + n)
           /\ NoFlipBack(w, l, n, w, l, n)
  <1>1. frames # << >> /\ Top.phase = "test" /\ Top.turn < 2
    BY DEF LoopTrue, Testing
  <1>2. n = 0 /\ e = 0 /\ Top.kind = "while" /\ Top \in Frames
    BY <1>1, TopLoop
  <1>3. PICK v \in Nat : w = v + 1
    BY <1>1, TopLoop
  <1> DEFINE f == [Top EXCEPT !.phase = "body", !.turn = @ + 1]
  <1>4. f \in Frames /\ f.kind = "while" /\ f.phase = "body"
    <2>1. Top.turn \in 0 .. 2
      BY <1>2 DEF Frames
    <2>2. Top.turn + 1 \in 0 .. 2
      BY <1>1, <2>1
    <2>3. QED
      BY <1>2, <2>2 DEF Frames
  <1>5. /\ frames' = [frames EXCEPT ![Len(frames)] = f]
        /\ UNCHANGED <<counter, conds, path, verdict>>
    BY DEF LoopTrue, Top, Last
  <1>6. conds \in Seq(Conditions) /\ Len(conds) = l /\ l <= l
    BY <1>2, SameLists
  <1>7. conds' \in Seq(Conditions) /\ Len(conds') = l /\ Popped(conds', conds, l)
    BY <1>5, <1>6 DEF Popped
  <1> HIDE DEF f
  <1>8. /\ Stack(v + 1, l, 0, 0)'
        /\ NothingBack(l + 0, 0 + 0, l + 0, 0 + 0)
        /\ NoFlipBack(v + 1, l, 0, v + 1, l, 0)
    BY <1>2, <1>3, <1>4, <1>5, <1>6, <1>7, LoopKept
  <1>9. QED
    BY <1>2, <1>3, <1>8

\* The end of an iteration drops a condition, of this loop or of an earlier one.
LEMMA EndIterationStack ==
    ASSUME NEW w \in Nat, NEW l \in Nat, NEW e \in Nat, NEW n \in Nat,
           Stack(w, l, e, n), EndIteration
    PROVE  \E m \in Nat :
             /\ Stack(w, m, e, n)'
             /\ NothingBack(l + n, e + n, m + n, e + n)
             /\ NoFlipBack(w, l, n, w, m, n)
  <1>1. frames # << >> /\ Top.phase = "body"
    BY DEF EndIteration
  <1>2. n = 0 /\ e = 0 /\ Top.kind = "while" /\ Top \in Frames
    BY <1>1, TopLoop
  <1>3. PICK v \in Nat : w = v + 1
    BY <1>1, TopLoop
  <1> DEFINE f == [Top EXCEPT !.phase = "test"]
  <1>4. f \in Frames /\ f.kind = "while" /\ f.phase = "test"
    BY <1>2 DEF Frames
  <1>5. /\ frames' = [frames EXCEPT ![Len(frames)] = f]
        /\ UNCHANGED <<counter, path, verdict>>
    BY DEF EndIteration, Top, Last
  <1>6. conds \in Seq(Conditions) /\ Len(conds) = l
    BY <1>2, SameLists
  <1>7. PICK m \in Nat : /\ m <= l /\ conds' \in Seq(Conditions) /\ Len(conds') = m
                         /\ Popped(conds', conds, m)
    <2>1. CASE l = 0
      <3>1. conds = << >>
        BY <1>6, <2>1
      <3>2. conds' = conds
        BY <3>1 DEF EndIteration, PopCondition
      <3>3. QED
        BY <1>6, <2>1, <3>2 DEF Popped
    <2>2. CASE l # 0
      <3>1. PICK k \in Nat : l = k + 1
        <4>1. l - 1 \in Nat /\ l = (l - 1) + 1
          BY <2>2
        <4>2. QED
          BY <4>1
      <3>2. conds # << >>
        BY <1>6, <2>2
      <3>3. conds' = Front(conds)
        BY <3>2 DEF EndIteration, PopCondition
      <3>4. conds' \in Seq(Conditions) /\ Len(conds') = k /\ Popped(conds', conds, k)
        BY <1>6, <3>1, <3>3, FrontFacts
      <3>5. k <= l
        BY <3>1
      <3>6. QED
        BY <3>4, <3>5
    <2>3. QED
      BY <2>1, <2>2
  <1> HIDE DEF f
  <1>8. /\ Stack(v + 1, m, 0, 0)'
        /\ NothingBack(l + 0, 0 + 0, m + 0, 0 + 0)
        /\ NoFlipBack(v + 1, l, 0, v + 1, m, 0)
    BY <1>2, <1>3, <1>4, <1>5, <1>7, LoopKept
  <1>9. QED
    BY <1>2, <1>3, <1>8

\* The condition of a loop does not hold: the loop ends and its condition stays.
LEMMA LoopFalseStack ==
    ASSUME NEW w \in Nat, NEW l \in Nat, NEW e \in Nat, NEW n \in Nat,
           Stack(w, l, e, n), LoopFalse
    PROVE  \E v \in Nat :
             /\ Stack(v, l, e, n)'
             /\ NothingBack(l + n, e + n, l + n, e + n)
             /\ NoFlipBack(w, l, n, v, l, n)
  <1>1. frames # << >> /\ Top.phase = "test"
    BY DEF LoopFalse, Testing
  <1>2. n = 0 /\ e = 0
    BY <1>1, TopLoop
  <1>3. PICK v \in Nat : w = v + 1
    BY <1>1, TopLoop
  <1>4. /\ frames \in Seq(Frames) /\ Len(frames) = v + 1 /\ counter \in Nat
    BY <1>2, <1>3, SameLists
  <1>5. frames' = Front(frames) /\ UNCHANGED <<conds, counter, path, verdict>>
    BY DEF LoopFalse
  <1>6. frames' \in Seq(Frames) /\ Len(frames') = v /\ Popped(frames', frames, v)
    BY <1>4, <1>5, FrontFacts
  <1>7. StackType' /\ Lengths(v, l, e, n)'
    BY <1>2, <1>5, <1>6 DEF Stack, StackType, Lengths
  <1>8. LoopsOutside(v, n)'
    BY <1>2, <1>3, <1>6 DEF Stack, LoopsOutside, Popped
  <1>9. Turns(v, l, e, n)' /\ Aligned(l, e, n)'
    BY <1>2 DEF Turns, Aligned
  <1>10. LoopConditions(l, e + n)' /\ Rising(l + n, e + n)'
    BY <1>5 DEF Stack, LoopConditions, Rising
  <1>11. NothingBack(l + n, e + n, l + n, e + n)
    BY <1>4, <1>5 DEF NothingBack
  <1>12. NoFlipBack(w, l, n, v, l, n)
    BY <1>2 DEF NoFlipBack, Flips
  <1>13. QED
    BY <1>7, <1>8, <1>9, <1>10, <1>11, <1>12 DEF Stack

\* The condition of a loop is unknown: its body is executed as the branch of an `if`
\* which has no else.
LEMMA LoopUnknownStack ==
    ASSUME MaxIds \in Nat, NEW w \in Nat, NEW l \in Nat, NEW e \in Nat, NEW n \in Nat,
           Stack(w, l, e, n), LoopUnknown
    PROVE  /\ Stack(w, l, 0, 1)'
           /\ NothingBack(l + n, e + n, l + 1, 0 + 1)
           /\ NoFlipBack(w, l, n, w, l, 1)
  <1>1. frames # << >> /\ Top.phase = "test"
    BY DEF LoopUnknown, Testing
  <1>2. n = 0 /\ e = 0 /\ Top.kind = "while" /\ Top \in Frames
    BY <1>1, TopLoop
  <1>3. PICK v \in Nat : w = v + 1
    BY <1>1, TopLoop
  <1> DEFINE c == <<counter, TRUE>>
             f == [Frame("if", "then") EXCEPT !.turn = 1]
             g == [Top EXCEPT !.phase = "unknown"]
             under == [frames EXCEPT ![Len(frames)] = g]
  <1>4. /\ conds' = Append(conds, c) /\ path' = Append(path, c)
        /\ frames' = Append(under, f)
        /\ counter' = counter + 1 /\ counter < MaxIds /\ verdict' = verdict
    BY DEF LoopUnknown, PushCondition, Top, Last
  <1>5. /\ c \in Conditions /\ c[1] = counter /\ c[2] = TRUE
        /\ counter \in Nat /\ counter' \in 0 .. MaxIds /\ counter' = counter + 1
    BY <1>4, ConditionFacts, SameLists
  <1>6. f \in Frames /\ f.kind = "if" /\ f.phase = "then" /\ f.turn = 1
    BY DEF Frame, Frames
  <1>7. g \in Frames /\ g.kind = "while" /\ g.phase = "unknown"
    BY <1>2 DEF Frames
  <1>8. /\ conds \in Seq(Conditions) /\ path \in Seq(Conditions) /\ frames \in Seq(Frames)
        /\ Len(conds) = l /\ Len(path) = 0 /\ Len(frames) = v + 1
    BY <1>2, <1>3, SameLists
  <1> HIDE DEF c, f, g
  <1>9. under \in Seq(Frames) /\ Len(under) = v + 1 /\ Pushed(under, frames, v, g)
    BY <1>7, <1>8, LastFacts
  <1> HIDE DEF under
  <1>10. /\ conds' \in Seq(Conditions) /\ Len(conds') = l + 1
         /\ path' \in Seq(Conditions) /\ Len(path') = 0 + 1
         /\ frames' \in Seq(Frames) /\ Len(frames') = v + 1 + 1
    BY <1>4, <1>5, <1>6, <1>8, <1>9, AppendFacts
  <1>11. /\ Pushed(conds', conds, l, c) /\ Pushed(path', path, 0, c)
         /\ Pushed(frames', under, v + 1, f)
    BY <1>4, <1>5, <1>6, <1>8, <1>9, AppendFacts
  <1>12. StackType' /\ Lengths(w, l, 0, 1)'
    BY <1>3, <1>4, <1>5, <1>10 DEF Stack, StackType, Lengths
  <1>13. /\ \A i \in 1 .. v : frames'[i] = frames[i]
         /\ frames'[v + 1] = g /\ frames'[w + 1] = f
         /\ conds'[l + 1] = c /\ path'[0 + 1] = c
         /\ \A i \in 1 .. l : conds'[i] = conds[i]
    BY <1>3, <1>9, <1>11 DEF Pushed
  <1>14. LoopsOutside(w, 1)'
    BY <1>3, <1>6, <1>7, <1>13 DEF Stack, LoopsOutside
  <1>15. Turns(w, l, 0, 1)' /\ Aligned(l, 0, 1)'
    BY <1>3, <1>5, <1>6, <1>13 DEF Turns, Aligned
  <1>16. LoopConditions(l, 0 + 1)'
    BY <1>2, <1>5, <1>13 DEF Stack, LoopConditions, Rising
  <1>17. Rising(l + 1, 0 + 1)'
    BY <1>2, <1>5, <1>13 DEF Stack, Rising
  <1>18. NothingBack(l + n, e + n, l + 1, 0 + 1)
    BY <1>2, <1>5, <1>13 DEF NothingBack
  <1>19. NoFlipBack(w, l, n, w, l, 1)
    BY <1>6, <1>13 DEF NoFlipBack, Flips
  <1>20. QED
    BY <1>12, <1>14, <1>15, <1>16, <1>17, <1>18, <1>19 DEF Stack

\* An execution of the body of an unknown loop: one `if` is open.
LEMMA UnknownTurn ==
    ASSUME NEW w \in Nat, NEW l \in Nat, NEW e \in Nat, NEW n \in Nat, Stack(w, l, e, n),
           frames # << >>, Top.kind = "if", Top.turn # 0
    PROVE  /\ n = 1 /\ Top = frames[w + 1] /\ Top \in Frames
           /\ \E v \in Nat : w = v + 1
           /\ Top.phase \in {"then", "else"}
           /\ e = IF Top.turn = 2 THEN 1 ELSE 0
  <1>1. n > 0 /\ Top = frames[w + n] /\ Top \in Frames /\ Top.phase \in {"then", "else"}
    BY TopFrame
  <1>2. n = 1
    BY <1>1 DEF Stack, Turns
  <1>3. w > 0 /\ e = IF Top.turn = 2 THEN 1 ELSE 0
    BY <1>1, <1>2 DEF Stack, Turns
  <1>4. w - 1 \in Nat /\ w = (w - 1) + 1
    BY <1>3
  <1>5. QED
    BY <1>1, <1>2, <1>3, <1>4

\* The second execution of the body: a condition of its own, and one more decision.
LEMMA LoopUnknownAgainStack ==
    ASSUME MaxIds \in Nat, NEW w \in Nat, NEW l \in Nat, NEW e \in Nat, NEW n \in Nat,
           Stack(w, l, e, n), LoopUnknownAgain
    PROVE  /\ Stack(w, l, 1, 1)'
           /\ NothingBack(l + n, e + n, l + 1, 1 + 1)
           /\ NoFlipBack(w, l, n, w, l, 1)
  <1>1. frames # << >> /\ Top.kind = "if" /\ Top.turn = 1
    BY DEF LoopUnknownAgain
  <1>2. n = 1 /\ e = 0 /\ Top = frames[w + 1] /\ Top \in Frames /\ Top.phase \in {"then", "else"}
    BY <1>1, UnknownTurn
  <1>3. PICK v \in Nat : w = v + 1
    BY <1>1, UnknownTurn
  <1> DEFINE c == <<counter, TRUE>>
             f == [Top EXCEPT !.turn = 2]
             under == Front(conds)
  <1>4. /\ conds \in Seq(Conditions) /\ path \in Seq(Conditions) /\ frames \in Seq(Frames)
        /\ Len(conds) = l + 1 /\ Len(path) = 1 /\ Len(frames) = w + 1
    <2>1. Len(conds) = l + n /\ Len(path) = e + n /\ Len(frames) = w + n
      BY SameLists
    <2>2. e + n = 1
      BY <1>2
    <2>3. QED
      BY <1>2, <2>1, <2>2, SameLists
  <1>5. /\ conds' = Append(under, c) /\ path' = Append(path, c)
        /\ frames' = [frames EXCEPT ![Len(frames)] = f]
        /\ counter' = counter + 1 /\ counter < MaxIds /\ verdict' = verdict
    <2>1. conds # << >>
      BY <1>4
    <2>2. QED
      BY <2>1 DEF LoopUnknownAgain, Top, Last
  <1>6. /\ c \in Conditions /\ c[1] = counter /\ c[2] = TRUE
        /\ counter \in Nat /\ counter' \in 0 .. MaxIds /\ counter' = counter + 1
    BY <1>5, ConditionFacts, SameLists
  <1>7. f \in Frames /\ f.kind = "if" /\ f.phase \in {"then", "else"} /\ f.turn = 2
    BY <1>1, <1>2 DEF Frames
  <1> HIDE DEF c, f
  <1>8. under \in Seq(Conditions) /\ Len(under) = l /\ Popped(under, conds, l)
    BY <1>4, FrontFacts
  <1> HIDE DEF under
  <1>9. /\ conds' \in Seq(Conditions) /\ Len(conds') = l + 1
        /\ path' \in Seq(Conditions) /\ Len(path') = 1 + 1
    <2>1. conds' \in Seq(Conditions) /\ Len(conds') = Len(under) + 1
      BY <1>5, <1>6, <1>8, AppendFacts
    <2>2. path' \in Seq(Conditions) /\ Len(path') = Len(path) + 1
      BY <1>4, <1>5, <1>6, AppendFacts
    <2>3. QED
      BY <1>4, <1>8, <2>1, <2>2
  <1>10. frames' \in Seq(Frames) /\ Len(frames') = w + 1 /\ Pushed(frames', frames, w, f)
    <2> DEFINE t == [frames EXCEPT ![Len(frames)] = f]
    <2>1. t \in Seq(Frames) /\ Len(t) = w + 1 /\ Pushed(t, frames, w, f)
      BY <1>4, <1>7, LastFacts
    <2>2. QED
      BY <1>5, <2>1
  <1>11. Pushed(conds', under, l, c) /\ Pushed(path', path, 1, c)
    <2>1. Pushed(Append(under, c), under, Len(under), c)
      BY <1>6, <1>8, AppendFacts
    <2>2. Pushed(Append(path, c), path, Len(path), c)
      BY <1>4, <1>6, AppendFacts
    <2>3. QED
      BY <1>4, <1>5, <1>8, <2>1, <2>2
  <1>12. StackType' /\ Lengths(w, l, 1, 1)'
    BY <1>5, <1>6, <1>9, <1>10 DEF Stack, StackType, Lengths
  <1>13. /\ \A i \in 1 .. w : frames'[i] = frames[i]
         /\ frames'[w + 1] = f
         /\ conds'[l + 1] = c /\ path'[1] = path[1] /\ path'[1 + 1] = c
         /\ \A i \in 1 .. l : conds'[i] = conds[i]
    BY <1>8, <1>10, <1>11 DEF Pushed, Popped
  <1>14. LoopsOutside(w, 1)'
    BY <1>7, <1>13 DEF Stack, LoopsOutside
  <1>15. Turns(w, l, 1, 1)' /\ Aligned(l, 1, 1)'
    BY <1>3, <1>6, <1>7, <1>13 DEF Turns, Aligned
  <1>16. LoopConditions(l, 1 + 1)'
    BY <1>2, <1>6, <1>13 DEF Stack, LoopConditions, Rising
  <1>17. Rising(l + 1, 1 + 1)'
    BY <1>2, <1>6, <1>13 DEF Stack, Rising
  <1>18. NothingBack(l + n, e + n, l + 1, 1 + 1)
    BY <1>2, <1>6, <1>13 DEF NothingBack
  <1>19. NoFlipBack(w, l, n, w, l, 1)
    BY <1>7, <1>13 DEF NoFlipBack, Flips
  <1>20. QED
    BY <1>12, <1>14, <1>15, <1>16, <1>17, <1>18, <1>19 DEF Stack

\* The end of the second execution ends the loop, whose own condition stays.
LEMMA EndUnknownLoopStack ==
    ASSUME NEW w \in Nat, NEW l \in Nat, NEW e \in Nat, NEW n \in Nat,
           Stack(w, l, e, n), EndUnknownLoop
    PROVE  \E v \in Nat :
             /\ Stack(v, l, 0, 0)'
             /\ NothingBack(l + n, e + n, l + 0, 0 + 0)
             /\ NoFlipBack(w, l, n, v, l, 0)
  <1>1. frames # << >> /\ Top.kind = "if" /\ Top.turn = 2
    BY DEF EndUnknownLoop
  <1>2. n = 1 /\ e = 1
    BY <1>1, UnknownTurn
  <1>3. PICK v \in Nat : w = v + 1
    BY <1>1, UnknownTurn
  <1>4. /\ conds \in Seq(Conditions) /\ path \in Seq(Conditions) /\ frames \in Seq(Frames)
        /\ Len(conds) = l + 1 /\ Len(path) = 1 + 1 /\ Len(frames) = v + 1 + 1
        /\ counter \in Nat
    <2>1. Len(conds) = l + n /\ Len(path) = e + n /\ Len(frames) = w + n
      BY SameLists
    <2>2. QED
      BY <1>2, <1>3, <2>1, SameLists
  <1>5. /\ conds' = Front(conds) /\ path' = Front(Front(path))
        /\ frames' = Front(Front(frames)) /\ UNCHANGED <<counter, verdict>>
    <2>1. conds # << >>
      BY <1>4
    <2>2. QED
      BY <2>1 DEF EndUnknownLoop, PopCondition
  <1>6. conds' \in Seq(Conditions) /\ Len(conds') = l /\ Popped(conds', conds, l)
    BY <1>4, <1>5, FrontFacts
  <1>7. Front(path) \in Seq(Conditions) /\ Len(Front(path)) = 1
    BY <1>4, FrontFacts
  <1>8. path' \in Seq(Conditions) /\ Len(path') = 0
    <2>1. Len(Front(path)) = 0 + 1
      BY <1>7
    <2>2. QED
      BY <1>5, <1>7, <2>1, FrontFacts
  <1>9. /\ Front(frames) \in Seq(Frames) /\ Len(Front(frames)) = v + 1
        /\ Popped(Front(frames), frames, v + 1)
    BY <1>4, FrontFacts
  <1>10. /\ frames' \in Seq(Frames) /\ Len(frames') = v
         /\ Popped(frames', Front(frames), v)
    BY <1>5, <1>9, FrontFacts
  <1>11. StackType' /\ Lengths(v, l, 0, 0)'
    BY <1>5, <1>6, <1>8, <1>10 DEF Stack, StackType, Lengths
  <1>12. \A i \in 1 .. v : frames'[i] = frames[i]
    BY <1>9, <1>10 DEF Popped
  <1>13. LoopsOutside(v, 0)'
    BY <1>3, <1>12 DEF Stack, LoopsOutside
  <1>14. Turns(v, l, 0, 0)' /\ Aligned(l, 0, 0)'
    BY DEF Turns, Aligned
  <1>15. LoopConditions(l, 0 + 0)' /\ Rising(l + 0, 0 + 0)'
    <2>1. /\ \A i \in 1 .. l : conds'[i] = conds[i]
          /\ counter' = counter
      BY <1>5, <1>6 DEF Popped
    <2>2. LoopConditions(l, 0 + 0)'
      BY <2>1 DEF Stack, LoopConditions
    <2>3. Rising(l + 0, 0 + 0)'
      BY <1>2, <2>1 DEF Stack, Rising
    <2>4. QED
      BY <2>2, <2>3
  <1>16. NothingBack(l + n, e + n, l + 0, 0 + 0)
    BY <1>2, <1>4, <1>5, <1>6 DEF NothingBack, Popped
  <1>17. NoFlipBack(w, l, n, v, l, 0)
    BY DEF NoFlipBack, Flips
  <1>18. QED
    BY <1>11, <1>13, <1>14, <1>15, <1>16, <1>17 DEF Stack

-----------------------------------------------------------------------------
(***************************************************************************)
(* What a slot knows of the assignments behind it.  An accepted assignment *)
(* was executed under some list c of conditions that starts with the       *)
(* conditions `under` which the slot keeps, or takes the true branch where *)
(* `under` has the false one (Meets); and each condition of c was on the   *)
(* path of the assignment, or is one that no later path can contradict     *)
(* (Sits).  The assignments cover every run that satisfies `under`, unless *)
(* `under` holds a condition that no else will ever negate (Dead), so that *)
(* the signal can never be taken as assigned.                              *)
(***************************************************************************)
Slots == [state : {"no", "yes", "might"}, under : Seq(Conditions)]

SlotType ==
    /\ slots \in [Signals -> Slots] /\ writes \in [Signals -> Seq(Seq(Conditions))]
    /\ \A s \in Signals : slots[s].state = "might" <=> slots[s].under # << >>

Older(u) == \A i \in 1 .. Len(u) : u[i][1] < counter

\* No condition of u is the negation of one that holds now.
NotHeld(u, k) ==
    \A i \in 1 .. Len(u), j \in 1 .. k :
        conds[j][2] = TRUE => ~ (u[i][1] = conds[j][1] /\ u[i][2] = FALSE)

Dead(w, l, n, x) == x[2] = TRUE /\ x[1] < counter /\ ~ Flips(w, l, n, x[1])

Sits(x, p, m) ==
    \/ \E j \in 1 .. Len(p) : p[j] = x
    \/ x[2] = TRUE /\ x[1] < counter /\ \A j \in 1 .. m : path[j][1] # x[1]

SplitsAt(c, u, k) ==
    /\ k \in 1 .. Len(u) /\ k <= Len(c) /\ Agree(c, u, k - 1)
    /\ c[k][1] = u[k][1] /\ c[k][2] = TRUE /\ u[k][2] = FALSE

Meets(c, u) ==
    \/ Len(u) <= Len(c) /\ Agree(c, u, Len(u))
    \/ \E k \in Nat : SplitsAt(c, u, k)

Remembers(u, p, m) ==
    \E c \in Seq(Conditions) : Meets(c, u) /\ \A i \in 1 .. Len(c) : Sits(c[i], p, m)

Holds(o, p) == \A k \in 1 .. Len(p) : o[p[k][1]] = p[k][2]

Covered(u, ws) ==
    \A o \in [Ids -> BOOLEAN] : Holds(o, u) => \E i \in 1 .. Len(ws) : Holds(o, ws[i])

Apart(ws) == \A i, j \in 1 .. Len(ws) : i < j => Exclusive(ws[i], ws[j])

SlotSound(w, l, e, n, state, u, ws) ==
    /\ state = "no" => ws = << >>
    /\ Older(u) /\ NotHeld(u, l + n)
    /\ state = "might" => \A i \in 1 .. Len(ws) : Remembers(u, ws[i], e + n)
    /\ state # "no" => (\E i \in 1 .. Len(u) : Dead(w, l, n, u[i])) \/ Covered(u, ws)
    /\ Apart(ws)

\* An assignment that is rejected leaves the slot of its signal behind.
SlotInv(w, l, e, n) ==
    /\ \A s \in Signals : slots[s].state = "yes" => Covered(<< >>, writes[s])
    /\ verdict # "rejected" =>
         \A s \in Signals :
             SlotSound(w, l, e, n, slots[s].state, slots[s].under, writes[s])

Inv == /\ SlotType
       /\ \E w, l, e, n \in Nat : Stack(w, l, e, n) /\ SlotInv(w, l, e, n)

LEMMA PairFacts ==
    ASSUME NEW x \in Conditions
    PROVE  /\ x[1] \in Ids /\ x[1] \in Nat /\ x[2] \in BOOLEAN
           /\ \A y \in Conditions : x[1] = y[1] /\ x[2] = y[2] => x = y
  BY DEF Conditions, Ids

LEMMA ListFacts ==
    ASSUME NEW c \in Seq(Conditions)
    PROVE  \A i \in 1 .. Len(c) : c[i] \in Conditions /\ c[i][1] \in Nat /\ c[i][2] \in BOOLEAN
  <1>1. \A i \in 1 .. Len(c) : c[i] \in Conditions
    OBVIOUS
  <1>2. QED
    BY <1>1, PairFacts

LEMMA OrderFacts ==
    \A x, y, z \in Nat : x < y => ~ (x >= y) /\ (y <= z => x < z)
  OBVIOUS

\* What a slot knows stays true while the stack moves.
LEMMA SlotKept ==
    ASSUME NEW w \in Nat, NEW l \in Nat, NEW e \in Nat, NEW n \in Nat,
           NEW w2 \in Nat, NEW l2 \in Nat, NEW e2 \in Nat, NEW n2 \in Nat,
           counter \in Nat, counter' \in Nat,
           NothingBack(l + n, e + n, l2 + n2, e2 + n2), NoFlipBack(w, l, n, w2, l2, n2),
           NEW state, NEW u, NEW ws, \A i \in 1 .. Len(u) : u[i][1] \in Nat,
           SlotSound(w, l, e, n, state, u, ws)
    PROVE  SlotSound(w2, l2, e2, n2, state, u, ws)'
  <1>1. counter <= counter'
    BY DEF NothingBack
  <1>2. /\ Older(u) /\ NotHeld(u, l + n) /\ Apart(ws)
        /\ state = "no" => ws = << >>
        /\ state = "might" => \A i \in 1 .. Len(ws) : Remembers(u, ws[i], e + n)
        /\ state # "no" => (\E i \in 1 .. Len(u) : Dead(w, l, n, u[i])) \/ Covered(u, ws)
    BY DEF SlotSound
  <1>3. \A x \in Nat : x < counter => ~ (x >= counter) /\ x < counter'
    BY <1>1, OrderFacts, Zenon
  <1>4. Older(u)'
    <2>1. ASSUME NEW i \in 1 .. Len(u) PROVE u[i][1] < counter'
      <3>1. u[i][1] \in Nat /\ u[i][1] < counter
        BY <1>2 DEF Older
      <3>2. QED
        BY <1>3, <3>1, Zenon
    <2>2. QED
      BY <2>1 DEF Older
  <1>5. NotHeld(u, l2 + n2)'
    <2> SUFFICES ASSUME NEW i \in 1 .. Len(u), NEW j \in 1 .. l2 + n2, conds'[j][2] = TRUE,
                        u[i][1] = conds'[j][1], u[i][2] = FALSE
                 PROVE  FALSE
      BY DEF NotHeld
    <2>1. u[i][1] \in Nat /\ u[i][1] < counter
      BY <1>2 DEF Older
    <2>2. \/ conds'[j][1] >= counter
          \/ \E k \in 1 .. l + n : conds[k] = conds'[j]
      BY DEF NothingBack
    <2>3. ~ (conds'[j][1] >= counter)
      <3>1. ~ (u[i][1] >= counter)
        BY <1>3, <2>1, Zenon
      <3>2. QED
        BY <3>1, Zenon
    <2>4. PICK k \in 1 .. l + n : conds[k] = conds'[j]
      BY <2>2, <2>3
    <2>5. QED
      BY <1>2, <2>4 DEF NotHeld
  <1>6. ASSUME NEW i \in 1 .. Len(ws), Remembers(u, ws[i], e + n)
        PROVE  Remembers(u, ws[i], e2 + n2)'
    <2> DEFINE p == ws[i]
    <2>1. PICK c \in Seq(Conditions) :
            Meets(c, u) /\ \A k \in 1 .. Len(c) : Sits(c[k], p, e + n)
      BY <1>6 DEF Remembers
    <2> HIDE DEF p
    <2>2. ASSUME NEW x, x[1] \in Nat, Sits(x, p, e + n)
          PROVE  Sits(x, p, e2 + n2)'
      <3>1. CASE \E j \in 1 .. Len(p) : p[j] = x
        BY <3>1 DEF Sits
      <3>2. CASE x[2] = TRUE /\ x[1] < counter /\ \A j \in 1 .. e + n : path[j][1] # x[1]
        <4>1. x[1] < counter'
          BY <1>3, <2>2, <3>2, Zenon
        <4>2. ASSUME NEW j \in 1 .. e2 + n2, path'[j][1] = x[1] PROVE FALSE
          <5>1. \/ path'[j][1] >= counter
                \/ \E k \in 1 .. e + n : path[k][1] = path'[j][1]
            BY DEF NothingBack
          <5>2. ~ (x[1] >= counter)
            BY <1>3, <2>2, <3>2, Zenon
          <5>3. QED
            BY <3>2, <4>2, <5>1, <5>2, Zenon
        <4>3. QED
          BY <3>2, <4>1, <4>2 DEF Sits
      <3>3. QED
        BY <2>2, <3>1, <3>2 DEF Sits
    <2>3. \A k \in 1 .. Len(c) : c[k][1] \in Nat
      BY ListFacts
    <2>4. \A k \in 1 .. Len(c) : Sits(c[k], p, e2 + n2)'
      BY <2>1, <2>2, <2>3
    <2>5. QED
      BY <2>1, <2>4 DEF Remembers, p
  <1>7. ASSUME NEW i \in 1 .. Len(u), Dead(w, l, n, u[i])
        PROVE  Dead(w2, l2, n2, u[i])'
    <2>1. u[i][1] \in Nat
      OBVIOUS
    <2>2. u[i][2] = TRUE /\ u[i][1] < counter /\ ~ Flips(w, l, n, u[i][1])
      BY <1>7 DEF Dead
    <2>3. ~ (u[i][1] >= counter)
      BY <1>3, <2>1, <2>2, Zenon
    <2>4. ~ Flips(w2, l2, n2, u[i][1])'
      BY <2>2, <2>3 DEF NoFlipBack
    <2>5. u[i][1] < counter'
      BY <1>3, <2>1, <2>2, Zenon
    <2>6. QED
      BY <2>2, <2>4, <2>5 DEF Dead
  <1>8. Covered(u, ws)' <=> Covered(u, ws)
    BY DEF Covered
  <1>9. Apart(ws)'
    BY <1>2
  <1>10. QED
    BY <1>2, <1>4, <1>5, <1>6, <1>7, <1>8, <1>9 DEF SlotSound

\* The conditions that hold now, as an assignment executed now records them.
LEMMA NewConditions ==
    ASSUME NEW w \in Nat, NEW l \in Nat, NEW e \in Nat, NEW n \in Nat, Stack(w, l, e, n)
    PROVE  /\ Older(conds) /\ NotHeld(conds, l + n) /\ Remembers(conds, path, e + n)
           /\ (\E i \in 1 .. Len(conds) : Dead(w, l, n, conds[i])) \/ path = conds
  <1>1. /\ conds \in Seq(Conditions) /\ path \in Seq(Conditions)
        /\ Len(conds) = l + n /\ Len(path) = e + n
    BY SameLists
  <1>2. /\ \A i, j \in 1 .. l + n : i < j => conds[i][1] < conds[j][1]
        /\ \A i \in 1 .. l + n : conds[i][1] \in Nat /\ conds[i][1] < counter
    BY DEF Stack, Rising
  <1>3. \A i, j \in 1 .. l + n : conds[i][1] = conds[j][1] => i = j
    <2> SUFFICES ASSUME NEW i \in 1 .. l + n, NEW j \in 1 .. l + n, i # j,
                        conds[i][1] = conds[j][1]
                 PROVE  FALSE
      OBVIOUS
    <2>1. conds[i][1] \in Nat /\ conds[j][1] \in Nat
      BY <1>2
    <2>2. ~ (conds[i][1] < conds[j][1]) /\ ~ (conds[j][1] < conds[i][1])
      BY <2>1
    <2>3. i < j \/ j < i
      OBVIOUS
    <2>4. QED
      BY <1>2, <2>2, <2>3
  <1>4. \A k \in 1 .. l : /\ conds[k][2] = TRUE
                          /\ \A j \in 1 .. e + n : path[j][1] # conds[k][1]
    BY DEF Stack, LoopConditions
  <1>5. \A i \in 1 .. n : conds[l + i] = path[e + i]
    BY DEF Stack, Aligned
  <1>6. Older(conds)
    BY <1>1, <1>2 DEF Older
  <1>7. NotHeld(conds, l + n)
    <2>1. ASSUME NEW i \in 1 .. l + n, NEW j \in 1 .. l + n, conds[j][2] = TRUE,
                 conds[i][1] = conds[j][1], conds[i][2] = FALSE
          PROVE  FALSE
      BY <1>3, <2>1
    <2>2. QED
      BY <1>1, <2>1 DEF NotHeld
  <1>8. Remembers(conds, path, e + n)
    <2>1. Meets(conds, conds)
      BY <1>1 DEF Meets, Agree
    <2>2. ASSUME NEW i \in 1 .. l + n PROVE Sits(conds[i], path, e + n)
      <3>1. CASE i <= l
        BY <1>2, <1>4, <3>1 DEF Sits
      <3>2. CASE i > l
        <4>1. i - l \in 1 .. n /\ l + (i - l) = i /\ e + (i - l) \in 1 .. e + n
          BY <3>2
        <4>2. path[e + (i - l)] = conds[i]
          BY <1>5, <4>1
        <4>3. QED
          BY <1>1, <4>1, <4>2 DEF Sits
      <3>3. QED
        BY <3>1, <3>2
    <2>3. QED
      BY <1>1, <2>1, <2>2 DEF Remembers
  <1>9. ASSUME NEW i \in 1 .. l + n, conds[i][2] = TRUE,
               \A j \in 1 .. n : frames[w + j].turn = 0 => l + j # i
        PROVE  Dead(w, l, n, conds[i])
    <2>1. ASSUME NEW j \in 1 .. n, frames[w + j].turn = 0, conds[l + j][1] = conds[i][1]
          PROVE  FALSE
      BY <1>3, <1>9, <2>1
    <2>2. QED
      BY <1>2, <1>9, <2>1 DEF Dead, Flips
  <1>10. CASE l > 0
    <2>1. 1 \in 1 .. l + n /\ 1 \in 1 .. l /\ \A j \in 1 .. n : l + j # 1
      BY <1>10
    <2>2. Dead(w, l, n, conds[1])
      BY <1>4, <1>9, <2>1
    <2>3. QED
      BY <1>1, <1>6, <1>7, <1>8, <2>1, <2>2
  <1>11. CASE l = 0 /\ n > 0 /\ frames[w + 1].turn # 0
    <2>1. conds[1][2] = TRUE /\ 1 \in 1 .. l + n
      BY <1>11 DEF Stack, Turns
    <2>2. ASSUME NEW j \in 1 .. n, frames[w + j].turn = 0 PROVE l + j # 1
      <3>1. j # 1
        BY <1>11, <2>2
      <3>2. QED
        BY <1>11, <3>1
    <2>3. Dead(w, l, n, conds[1])
      BY <1>9, <2>1, <2>2
    <2>4. QED
      BY <1>1, <1>6, <1>7, <1>8, <2>1, <2>3
  <1>12. CASE l = 0 /\ ~ (n > 0 /\ frames[w + 1].turn # 0)
    <2>1. e = 0
      BY <1>12 DEF Stack, Turns
    <2>2. \A i \in 1 .. n : conds[i] = path[i]
      BY <1>5, <1>12, <2>1
    <2>3. Len(conds) = Len(path) /\ Len(conds) = n
      BY <1>1, <1>12, <2>1
    <2>4. path = conds
      BY <1>1, <2>2, <2>3, SeqEqual
    <2>5. QED
      BY <1>6, <1>7, <1>8, <2>4
  <1>13. QED
    BY <1>10, <1>11, <1>12

\* An assignment that met u meets the true branch of a condition of v, where v is the
\* first to take the false branch.
LEMMA MeetsSplits ==
    ASSUME NEW c, NEW u, NEW v, Len(c) \in Nat, Len(u) \in Nat, Len(v) \in Nat,
           NEW d \in Nat, 1 <= d, d <= Len(u), d <= Len(v), Agree(u, v, d - 1),
           u[d][1] = v[d][1], u[d][2] = TRUE, v[d][2] = FALSE,
           Meets(c, u)
    PROVE  \E k \in 1 .. d : SplitsAt(c, v, k)
  <1>1. ASSUME d <= Len(c), Agree(c, u, d)
        PROVE  SplitsAt(c, v, d)
    <2>1. Agree(c, v, d - 1) /\ c[d] = u[d]
      BY <1>1 DEF Agree
    <2>2. QED
      BY <1>1, <2>1 DEF SplitsAt
  <1>2. CASE Len(u) <= Len(c) /\ Agree(c, u, Len(u))
    <2>1. d <= Len(c) /\ Agree(c, u, d)
      BY <1>2 DEF Agree
    <2>2. QED
      BY <1>1, <2>1
  <1>3. CASE \E k \in Nat : SplitsAt(c, u, k)
    <2>1. PICK k \in Nat : SplitsAt(c, u, k)
      BY <1>3
    <2>2. /\ k \in 1 .. Len(u) /\ k <= Len(c) /\ Agree(c, u, k - 1)
          /\ c[k][1] = u[k][1] /\ c[k][2] = TRUE /\ u[k][2] = FALSE
      BY <2>1 DEF SplitsAt
    <2>3. CASE k < d
      <3>1. u[k] = v[k] /\ Agree(c, v, k - 1)
        BY <2>2, <2>3 DEF Agree
      <3>2. k \in 1 .. Len(v) /\ k \in 1 .. d
        BY <2>2, <2>3
      <3>3. SplitsAt(c, v, k)
        BY <2>2, <3>1, <3>2 DEF SplitsAt
      <3>4. QED
        BY <3>2, <3>3
    <2>4. CASE k = d
      BY <2>2, <2>4
    <2>5. CASE k > d
      <3>1. d <= Len(c) /\ Agree(c, u, d)
        BY <2>2, <2>5 DEF Agree
      <3>2. QED
        BY <1>1, <3>1
    <2>6. QED
      BY <2>3, <2>4, <2>5
  <1>4. QED
    BY <1>2, <1>3 DEF Meets

\* Such an assignment excludes one executed now.
LEMMA SplitExcludes ==
    ASSUME NEW w \in Nat, NEW l \in Nat, NEW e \in Nat, NEW n \in Nat, Stack(w, l, e, n),
           NEW c, NEW p, NEW k \in Nat, SplitsAt(c, conds, k),
           Sits(c[k], p, e + n)
    PROVE  Exclusive(p, path)
  <1>1. Len(conds) = l + n /\ Len(path) = e + n
    BY SameLists
  <1>2. /\ k \in 1 .. l + n
        /\ c[k][1] = conds[k][1] /\ c[k][2] = TRUE /\ conds[k][2] = FALSE
    BY <1>1 DEF SplitsAt
  <1>3. k > l
    <2> SUFFICES ASSUME k <= l PROVE FALSE
      BY <1>2
    <2>1. conds[k][2] = TRUE
      BY <1>2 DEF Stack, LoopConditions
    <2>2. QED
      BY <1>2, <2>1
  <1>4. k - l \in 1 .. n /\ l + (k - l) = k /\ e + (k - l) \in 1 .. e + n
    BY <1>2, <1>3
  <1>5. conds[k] = path[e + (k - l)]
    BY <1>4 DEF Stack, Aligned
  <1>6. PICK j \in 1 .. Len(p) : p[j] = c[k]
    BY <1>2, <1>4, <1>5 DEF Sits
  <1>7. p[j][1] = path[e + (k - l)][1] /\ p[j][2] # path[e + (k - l)][2]
    BY <1>2, <1>5, <1>6
  <1>8. QED
    BY <1>1, <1>4, <1>7 DEF Exclusive

\* Where the conditions of a slot and those that hold now part.
LEMMA MergePoint ==
    ASSUME NEW w \in Nat, NEW l \in Nat, NEW e \in Nat, NEW n \in Nat, Stack(w, l, e, n),
           NEW u \in Seq(Conditions), NotHeld(u, l + n), MayMerge(u, conds)
    PROVE  \E d \in Nat :
             /\ d = FirstDifference(u, conds) /\ 1 <= d /\ d <= Len(u) /\ d <= Len(conds)
             /\ Agree(u, conds, d - 1)
             /\ u[d][1] = conds[d][1] /\ u[d][2] = TRUE /\ conds[d][2] = FALSE
             /\ Flips(w, l, n, u[d][1])
  <1> DEFINE d == FirstDifference(u, conds)
  <1>1. conds \in Seq(Conditions) /\ Len(conds) = l + n
    BY SameLists
  <1>2. d # 0 /\ u[d][1] = conds[d][1]
    BY DEF MayMerge
  <1> HIDE DEF d
  <1>3. /\ d \in Nat /\ d >= 1 /\ d <= Len(u) /\ d <= Len(conds)
        /\ u[d] # conds[d] /\ Agree(u, conds, d - 1)
    <2>1. d = FirstDifference(u, conds)
      BY DEF d
    <2>2. QED
      BY <1>1, <1>2, <2>1, FirstDifferenceFacts
  <1>4. /\ u[d] \in Conditions /\ conds[d] \in Conditions
        /\ d \in 1 .. l + n /\ d \in 1 .. Len(u)
    BY <1>1, <1>3
  <1>5. u[d][2] # conds[d][2] /\ u[d][2] \in BOOLEAN /\ conds[d][2] \in BOOLEAN
    BY <1>2, <1>3, <1>4, PairFacts
  <1>6. conds[d][2] # TRUE
    <2> SUFFICES ASSUME conds[d][2] = TRUE PROVE FALSE
      OBVIOUS
    <2>1. u[d][2] = FALSE
      BY <1>5
    <2>2. QED
      BY <1>2, <1>4, <2>1 DEF NotHeld
  <1>7. u[d][2] = TRUE /\ conds[d][2] = FALSE
    BY <1>5, <1>6
  <1>8. d > l
    <2> SUFFICES ASSUME d <= l PROVE FALSE
      BY <1>4
    <2>1. conds[d][2] = TRUE
      BY <1>3 DEF Stack, LoopConditions
    <2>2. QED
      BY <1>6, <2>1
  <1>9. d - l \in 1 .. n /\ l + (d - l) = d
    BY <1>4, <1>8
  <1>10. frames[w + (d - l)].turn = 0
    <2>1. CASE d - l = 1
      <3>1. d = l + 1 /\ n > 0
        BY <1>9, <2>1
      <3>2. conds[l + 1][2] # TRUE
        BY <1>6, <3>1
      <3>3. frames[w + 1].turn = 0
        BY <3>1, <3>2 DEF Stack, Turns
      <3>4. QED
        BY <2>1, <3>3
    <2>2. CASE d - l # 1
      <3>1. d - l \in 2 .. n
        BY <1>9, <2>2
      <3>2. QED
        BY <3>1 DEF Stack, Turns
    <2>3. QED
      BY <2>1, <2>2
  <1>11. conds[l + (d - l)][1] = u[d][1]
    BY <1>2, <1>9
  <1>12. Flips(w, l, n, u[d][1])
    BY <1>9, <1>10, <1>11 DEF Flips
  <1>13. QED
    BY <1>2, <1>3, <1>7, <1>12 DEF d

\* One more assignment that excludes those before it.
LEMMA ApartFacts ==
    ASSUME NEW ws, NEW vs, NEW p, NEW k \in Nat, Len(ws) = k, Len(vs) = k + 1,
           Pushed(vs, ws, k, p), Apart(ws), \A i \in 1 .. k : Exclusive(ws[i], p)
    PROVE  Apart(vs)
  <1> SUFFICES ASSUME NEW i \in 1 .. k + 1, NEW j \in 1 .. k + 1, i < j
               PROVE  Exclusive(vs[i], vs[j])
    BY DEF Apart
  <1>1. i \in 1 .. k /\ vs[i] = ws[i]
    BY DEF Pushed
  <1>2. CASE j = k + 1
    BY <1>1, <1>2 DEF Pushed
  <1>3. CASE j # k + 1
    <2>1. j \in 1 .. k /\ vs[j] = ws[j]
      BY <1>3 DEF Pushed
    <2>2. QED
      BY <1>1, <2>1 DEF Apart
  <1>4. QED
    BY <1>2, <1>3

\* A slot that keeps the conditions of the newest assignment.
LEMMA RecordsNow ==
    ASSUME NEW w \in Nat, NEW l \in Nat, NEW e \in Nat, NEW n \in Nat, Stack(w, l, e, n),
           NEW ws, NEW vs, NEW k \in Nat, Len(ws) = k, Len(vs) = k + 1,
           Pushed(vs, ws, k, path), Apart(ws),
           \A i \in 1 .. k : Remembers(conds, ws[i], e + n) /\ Exclusive(ws[i], path),
           NEW state, state # "no"
    PROVE  SlotSound(w, l, e, n, state, conds, vs)
  <1>1. /\ Older(conds) /\ NotHeld(conds, l + n) /\ Remembers(conds, path, e + n)
        /\ (\E i \in 1 .. Len(conds) : Dead(w, l, n, conds[i])) \/ path = conds
    BY NewConditions
  <1>2. \A i \in 1 .. k + 1 : Remembers(conds, vs[i], e + n)
    <2> TAKE i \in 1 .. k + 1
    <2>1. CASE i = k + 1
      BY <1>1, <2>1 DEF Pushed
    <2>2. CASE i # k + 1
      <3>1. i \in 1 .. k /\ vs[i] = ws[i]
        BY <2>2 DEF Pushed
      <3>2. QED
        BY <3>1
    <2>3. QED
      BY <2>1, <2>2
  <1>3. ASSUME path = conds PROVE Covered(conds, vs)
    <2>1. vs[k + 1] = conds /\ k + 1 \in 1 .. Len(vs)
      BY <1>3 DEF Pushed
    <2>2. QED
      BY <2>1 DEF Covered
  <1>4. Apart(vs)
    BY ApartFacts
  <1>5. QED
    BY <1>1, <1>2, <1>3, <1>4 DEF SlotSound

\* A slot whose last condition is dropped, as both its branches have assigned.
LEMMA DropsLast ==
    ASSUME NEW w \in Nat, NEW l \in Nat, NEW e \in Nat, NEW n \in Nat, Stack(w, l, e, n),
           NEW u, NEW f, NEW m \in Nat, Len(u) = m + 1, Len(conds) = m + 1, Len(f) = m,
           Popped(f, conds, m), Agree(u, conds, m),
           u[m + 1][1] = conds[m + 1][1], u[m + 1][2] = TRUE, conds[m + 1][2] = FALSE,
           Flips(w, l, n, u[m + 1][1]), conds[m + 1][1] \in Ids,
           NEW ws, NEW vs, NEW k \in Nat, Len(ws) = k, Len(vs) = k + 1,
           Pushed(vs, ws, k, path), Apart(ws),
           \A i \in 1 .. k : Remembers(f, ws[i], e + n) /\ Exclusive(ws[i], path),
           (\E i \in 1 .. Len(u) : Dead(w, l, n, u[i])) \/ Covered(u, ws),
           NEW state, state # "no"
    PROVE  SlotSound(w, l, e, n, state, f, vs)
  <1>1. /\ Older(conds) /\ NotHeld(conds, l + n) /\ Remembers(conds, path, e + n)
        /\ (\E i \in 1 .. Len(conds) : Dead(w, l, n, conds[i])) \/ path = conds
    BY NewConditions
  <1>2. \A i \in 1 .. m : f[i] = conds[i] /\ f[i] = u[i]
    BY DEF Popped, Agree
  <1>3. Older(f) /\ NotHeld(f, l + n)
    <2>1. Older(f)
      BY <1>1, <1>2 DEF Older
    <2>2. NotHeld(f, l + n)
      BY <1>1, <1>2 DEF NotHeld
    <2>3. QED
      BY <2>1, <2>2
  <1>4. Remembers(f, path, e + n)
    <2>1. PICK c \in Seq(Conditions) :
            Meets(c, conds) /\ \A i \in 1 .. Len(c) : Sits(c[i], path, e + n)
      BY <1>1 DEF Remembers
    <2>2. Len(c) \in Nat
      OBVIOUS
    <2>3. Meets(c, f)
      <3>1. CASE Len(conds) <= Len(c) /\ Agree(c, conds, Len(conds))
        <4>1. Len(f) <= Len(c) /\ Agree(c, f, Len(f))
          BY <1>2, <2>2, <3>1 DEF Agree
        <4>2. QED
          BY <4>1 DEF Meets
      <3>2. CASE \E j \in Nat : SplitsAt(c, conds, j)
        <4>1. PICK j \in Nat : SplitsAt(c, conds, j)
          BY <3>2
        <4>2. CASE j = m + 1
          <5>1. m + 1 <= Len(c) /\ Agree(c, conds, m)
            BY <4>1, <4>2 DEF SplitsAt
          <5>2. Len(f) <= Len(c) /\ Agree(c, f, Len(f))
            BY <1>2, <2>2, <5>1 DEF Agree
          <5>3. QED
            BY <5>2 DEF Meets
        <4>3. CASE j # m + 1
          <5>1. j \in 1 .. m /\ f[j] = conds[j] /\ \A i \in 1 .. j - 1 : f[i] = conds[i]
            BY <1>2, <4>1, <4>3 DEF SplitsAt
          <5>2. SplitsAt(c, f, j)
            BY <4>1, <5>1 DEF SplitsAt, Agree
          <5>3. QED
            BY <5>2 DEF Meets
        <4>4. QED
          BY <4>2, <4>3
      <3>3. QED
        BY <2>1, <3>1, <3>2 DEF Meets
    <2>4. QED
      BY <2>1, <2>3 DEF Remembers
  <1>5. \A i \in 1 .. k + 1 : Remembers(f, vs[i], e + n)
    <2> TAKE i \in 1 .. k + 1
    <2>1. CASE i = k + 1
      BY <1>4, <2>1 DEF Pushed
    <2>2. CASE i # k + 1
      <3>1. i \in 1 .. k /\ vs[i] = ws[i]
        BY <2>2 DEF Pushed
      <3>2. QED
        BY <3>1
    <2>3. QED
      BY <2>1, <2>2
  <1>6. ASSUME ~ \E i \in 1 .. m : Dead(w, l, n, f[i])
        PROVE  Covered(u, ws) /\ path = conds
    <2>1. ~ Dead(w, l, n, u[m + 1]) /\ ~ Dead(w, l, n, conds[m + 1])
      BY DEF Dead
    <2>2. \A i \in 1 .. m + 1 : i = m + 1 \/ i \in 1 .. m
      OBVIOUS
    <2>3. ~ \E i \in 1 .. m + 1 : Dead(w, l, n, u[i])
      BY <1>2, <1>6, <2>1, <2>2
    <2>4. ~ \E i \in 1 .. m + 1 : Dead(w, l, n, conds[i])
      BY <1>2, <1>6, <2>1, <2>2
    <2>5. QED
      BY <1>1, <2>3, <2>4
  <1>7. ASSUME Covered(u, ws), path = conds PROVE Covered(f, vs)
    <2> SUFFICES ASSUME NEW o \in [Ids -> BOOLEAN], Holds(o, f)
                 PROVE  \E i \in 1 .. k + 1 : Holds(o, vs[i])
      BY DEF Covered
    <2> DEFINE b == o[conds[m + 1][1]]
    <2>1. b = TRUE \/ b = FALSE
      <3>1. b \in BOOLEAN
        OBVIOUS
      <3>2. QED
        BY <3>1
    <2>2. \A i \in 1 .. m : o[u[i][1]] = u[i][2] /\ o[conds[i][1]] = conds[i][2]
      BY <1>2 DEF Holds
    <2>3. \A i \in 1 .. m + 1 : i = m + 1 \/ i \in 1 .. m
      OBVIOUS
    <2>4. CASE b = TRUE
      <3>1. o[u[m + 1][1]] = u[m + 1][2]
        BY <2>4
      <3>2. Holds(o, u)
        BY <2>2, <2>3, <3>1 DEF Holds
      <3>3. PICK i \in 1 .. k : Holds(o, ws[i])
        BY <1>7, <3>2 DEF Covered
      <3>4. vs[i] = ws[i] /\ i \in 1 .. k + 1
        BY DEF Pushed
      <3>5. QED
        BY <3>3, <3>4
    <2>5. CASE b = FALSE
      <3>1. o[conds[m + 1][1]] = conds[m + 1][2]
        BY <2>5
      <3>2. Holds(o, conds)
        BY <2>2, <2>3, <3>1 DEF Holds
      <3>3. vs[k + 1] = conds /\ k + 1 \in 1 .. k + 1
        BY <1>7 DEF Pushed
      <3>4. QED
        BY <3>2, <3>3
    <2>6. QED
      BY <2>1, <2>4, <2>5
  <1>8. Apart(vs)
    BY ApartFacts
  <1>9. QED
    BY <1>3, <1>5, <1>6, <1>7, <1>8 DEF SlotSound

\* Every assignment behind a slot stands in another branch than one executed now, if
\* that one is accepted; and it still meets what the slot keeps afterwards.
LEMMA MergeKeeps ==
    ASSUME NEW w \in Nat, NEW l \in Nat, NEW e \in Nat, NEW n \in Nat, Stack(w, l, e, n),
           NEW u \in Seq(Conditions),
           NEW d \in Nat, 1 <= d, d <= Len(u), d <= Len(conds), Agree(u, conds, d - 1),
           u[d][1] = conds[d][1], u[d][2] = TRUE, conds[d][2] = FALSE,
           NEW p, Remembers(u, p, e + n)
    PROVE  /\ Exclusive(p, path) /\ Remembers(conds, p, e + n)
           /\ \A f : Len(f) = d - 1 /\ Popped(f, conds, d - 1) => Remembers(f, p, e + n)
  <1>1. PICK c \in Seq(Conditions) :
          Meets(c, u) /\ \A i \in 1 .. Len(c) : Sits(c[i], p, e + n)
    BY DEF Remembers
  <1>2. Len(c) \in Nat /\ Len(u) \in Nat /\ Len(conds) \in Nat
    <2>1. Len(conds) = l + n
      BY SameLists
    <2>2. QED
      BY <2>1
  <1>3. PICK k \in 1 .. d : SplitsAt(c, conds, k)
    BY <1>1, <1>2, MeetsSplits
  <1>4. k \in Nat /\ k \in 1 .. Len(c)
    BY <1>2, <1>3 DEF SplitsAt
  <1>5. Exclusive(p, path)
    BY <1>1, <1>3, <1>4, SplitExcludes
  <1>6. Remembers(conds, p, e + n)
    <2>1. Meets(c, conds)
      BY <1>3, <1>4 DEF Meets
    <2>2. QED
      BY <1>1, <2>1 DEF Remembers
  <1>7. ASSUME NEW f, Len(f) = d - 1, Popped(f, conds, d - 1)
        PROVE  Remembers(f, p, e + n)
    <2>1. Meets(c, f)
      <3>1. CASE k = d
        <4>1. d <= Len(c) /\ Agree(c, conds, d - 1)
          BY <1>3, <3>1 DEF SplitsAt
        <4>2. Len(f) <= Len(c)
          BY <1>2, <1>7, <4>1
        <4>3. Agree(c, f, Len(f))
          BY <1>7, <4>1 DEF Agree, Popped
        <4>4. QED
          BY <4>2, <4>3 DEF Meets
      <3>2. CASE k # d
        <4>1. k \in 1 .. d - 1 /\ f[k] = conds[k] /\ \A i \in 1 .. k - 1 : f[i] = conds[i]
          BY <1>7, <3>2 DEF Popped
        <4>2. SplitsAt(c, f, k)
          BY <1>3, <1>7, <4>1 DEF SplitsAt, Agree
        <4>3. QED
          BY <1>4, <4>2 DEF Meets
      <3>3. QED
        BY <3>1, <3>2
    <2>2. QED
      BY <1>1, <2>1 DEF Remembers
  <1>8. QED
    BY <1>5, <1>6, <1>7

\* perform_signal_assignment: the slot after an accepted assignment.
LEMMA AssignSound ==
    ASSUME NEW w \in Nat, NEW l \in Nat, NEW e \in Nat, NEW n \in Nat, Stack(w, l, e, n),
           NEW old \in Slots, old.state = "might" <=> old.under # << >>,
           NEW ws \in Seq(Seq(Conditions)),
           SlotSound(w, l, e, n, old.state, old.under, ws),
           ~ Rejects(old, CurrentAssignment),
           NEW new, new = AfterAssignment(old, CurrentAssignment)
    PROVE  /\ new \in Slots /\ new.state # "no"
           /\ new.state = "might" <=> new.under # << >>
           /\ Append(ws, path) \in Seq(Seq(Conditions))
           /\ SlotSound(w, l, e, n, new.state, new.under, Append(ws, path))
  <1> DEFINE u == old.under
             k == Len(ws)
             vs == Append(ws, path)
  <1>1. conds \in Seq(Conditions) /\ path \in Seq(Conditions) /\ u \in Seq(Conditions)
    BY SameLists DEF Slots
  <1>2. /\ vs \in Seq(Seq(Conditions)) /\ k \in Nat /\ Len(vs) = k + 1
        /\ Pushed(vs, ws, k, path)
    <2>1. k \in Nat
      OBVIOUS
    <2>2. QED
      BY <1>1, <2>1, AppendFacts
  <1> HIDE DEF vs
  <1>3. Apart(ws)
    BY DEF SlotSound
  <1>4. /\ conds = << >> => CurrentAssignment = Assigned
        /\ conds # << >> => CurrentAssignment = MightAssigned(conds)
        /\ CurrentAssignment.under = conds /\ CurrentAssignment.state # "no"
        /\ CurrentAssignment.state = "might" <=> conds # << >>
        /\ CurrentAssignment \in Slots
    BY <1>1 DEF CurrentAssignment, Assigned, MightAssigned, Slots
  <1>5. CASE old.state = "no"
    <2>1. new = CurrentAssignment
      BY <1>5 DEF AfterAssignment
    <2>2. ws = << >>
      BY <1>5 DEF SlotSound
    <2>3. k = 0 /\ \A i \in 1 .. k : Remembers(conds, ws[i], e + n) /\ Exclusive(ws[i], path)
      BY <2>2
    <2> HIDE DEF k
    <2>4. Len(ws) = k
      BY DEF k
    <2>5. SlotSound(w, l, e, n, new.state, conds, vs)
      BY <1>2, <1>3, <1>4, <2>1, <2>3, <2>4, RecordsNow
    <2>6. QED
      BY <1>2, <1>4, <2>1, <2>5 DEF vs
  <1>6. CASE old.state = "yes"
    BY <1>6 DEF Rejects
  <1>7. CASE old.state = "might"
    <2>1. conds # << >> /\ CurrentAssignment = MightAssigned(conds)
      <3>1. CurrentAssignment.state # "yes"
        BY <1>7 DEF Rejects
      <3>2. QED
        BY <1>4, <3>1 DEF Assigned
    <2>2. MayMerge(u, conds)
      BY <1>7, <2>1 DEF Rejects, MightAssigned
    <2>3. /\ NotHeld(u, l + n)
          /\ \A i \in 1 .. k : Remembers(u, ws[i], e + n)
          /\ (\E i \in 1 .. Len(u) : Dead(w, l, n, u[i])) \/ Covered(u, ws)
      BY <1>7 DEF SlotSound
    <2> HIDE DEF u, k
    <2>4. PICK d \in Nat :
            /\ d = FirstDifference(u, conds) /\ 1 <= d /\ d <= Len(u) /\ d <= Len(conds)
            /\ Agree(u, conds, d - 1)
            /\ u[d][1] = conds[d][1] /\ u[d][2] = TRUE /\ conds[d][2] = FALSE
            /\ Flips(w, l, n, u[d][1])
      BY <1>1, <2>2, <2>3, MergePoint
    <2>5. ASSUME NEW i \in 1 .. k
          PROVE  Exclusive(ws[i], path) /\ Remembers(conds, ws[i], e + n)
      <3>1. Remembers(u, ws[i], e + n)
        BY <2>3
      <3>2. QED
        BY <1>1, <2>4, <3>1, MergeKeeps
    <2>6. Len(ws) = k
      BY DEF k
    <2>7. new = Merged(u, conds)
      BY <1>7, <2>1 DEF AfterAssignment, MightAssigned, u
    <2>8. CASE d = Len(conds) /\ Len(u) = Len(conds)
      <3>1. PICK m \in Nat : d = m + 1
        <4>1. d \in Nat /\ 1 <= d
          BY <2>4, Zenon
        <4>2. d - 1 \in Nat /\ d = (d - 1) + 1
          BY <4>1
        <4>3. QED
          BY <4>2
      <3> DEFINE f == Front(conds)
      <3>2. f \in Seq(Conditions) /\ Len(f) = m /\ Popped(f, conds, m)
        BY <1>1, <2>8, <3>1, FrontFacts
      <3> HIDE DEF f
      <3>3. m = d - 1
        BY <3>1
      <3>4. ASSUME NEW i \in 1 .. k PROVE Remembers(f, ws[i], e + n)
        <4>1. Len(f) = d - 1 /\ Popped(f, conds, d - 1)
          BY <3>2, <3>3
        <4>2. Remembers(u, ws[i], e + n)
          BY <2>3
        <4>3. \A h : Len(h) = d - 1 /\ Popped(h, conds, d - 1) => Remembers(h, ws[i], e + n)
          BY <1>1, <2>4, <4>2, MergeKeeps
        <4>4. QED
          BY <4>1, <4>3, Zenon
      <3>5. new.under = f /\ new.state # "no" /\ new \in Slots /\ (new.state = "might" <=> f # << >>)
        <4>1. CASE m = 0
          <5>1. f = << >>
            BY <3>2, <4>1
          <5>2. new = Assigned
            BY <2>4, <2>7, <2>8, <3>1, <4>1 DEF Merged
          <5>3. QED
            BY <5>1, <5>2 DEF Assigned, Slots
        <4>2. CASE m # 0
          <5>1. f # << >>
            BY <3>2, <4>2
          <5>2. new = MightAssigned(f)
            BY <2>4, <2>7, <2>8, <3>1, <4>2 DEF Merged, f
          <5>3. QED
            BY <3>2, <5>1, <5>2 DEF MightAssigned, Slots
        <4>3. QED
          BY <4>1, <4>2
      <3>6. conds[m + 1][1] \in Ids
        <4>1. m + 1 \in 1 .. Len(conds)
          BY <2>8, <3>1
        <4>2. conds[m + 1] \in Conditions
          BY <1>1, <4>1
        <4>3. QED
          BY <4>2, PairFacts
      <3>7. /\ Len(u) = m + 1 /\ Len(conds) = m + 1 /\ Agree(u, conds, m)
            /\ u[m + 1][1] = conds[m + 1][1] /\ u[m + 1][2] = TRUE /\ conds[m + 1][2] = FALSE
            /\ Flips(w, l, n, u[m + 1][1])
        BY <2>4, <2>8, <3>1, <3>3
      <3>8. SlotSound(w, l, e, n, new.state, f, vs)
        BY <1>2, <1>3, <2>3, <2>5, <2>6, <3>2, <3>4, <3>5, <3>6, <3>7, DropsLast
      <3>9. QED
        BY <1>2, <3>5, <3>8 DEF vs
    <2>9. CASE ~ (d = Len(conds) /\ Len(u) = Len(conds))
      <3>1. new = MightAssigned(conds)
        BY <2>4, <2>7, <2>9 DEF Merged
      <3>2. SlotSound(w, l, e, n, new.state, conds, vs)
        <4>1. new.state # "no"
          BY <3>1 DEF MightAssigned
        <4>2. QED
          BY <1>2, <1>3, <2>5, <2>6, <4>1, RecordsNow
      <3>3. new \in Slots /\ new.under = conds /\ new.state = "might"
        BY <1>1, <3>1 DEF MightAssigned, Slots
      <3>4. QED
        BY <1>2, <2>1, <3>2, <3>3 DEF vs
    <2>10. QED
      BY <2>8, <2>9
  <1>8. QED
    BY <1>5, <1>6, <1>7 DEF Slots

-----------------------------------------------------------------------------
(***************************************************************************)
(* The invariant of the interpreter.                                       *)
(***************************************************************************)
LEMMA InitInv ==
    ASSUME SignalAssignmentAssumption, Init
    PROVE  Inv
  <1>1. /\ conds = << >> /\ path = << >> /\ frames = << >> /\ counter = 0
        /\ verdict = "running" /\ MaxIds \in Nat
    BY DEF Init, SignalAssignmentAssumption
  <1>2. Stack(0, 0, 0, 0)
    <2>1. StackType /\ Lengths(0, 0, 0, 0)
      BY <1>1 DEF StackType, Lengths
    <2>2. LoopsOutside(0, 0) /\ Turns(0, 0, 0, 0) /\ Aligned(0, 0, 0)
      BY DEF LoopsOutside, Turns, Aligned
    <2>3. LoopConditions(0, 0 + 0) /\ Rising(0 + 0, 0 + 0)
      BY DEF LoopConditions, Rising
    <2>4. QED
      BY <2>1, <2>2, <2>3 DEF Stack
  <1>3. \A s \in Signals : slots[s] = NoAssigned /\ writes[s] = << >>
    BY DEF Init
  <1>4. NoAssigned \in Slots /\ NoAssigned.state = "no" /\ NoAssigned.under = << >>
    BY DEF NoAssigned, Slots
  <1>5. SlotType
    <2>1. slots \in [Signals -> Slots] /\ writes \in [Signals -> Seq(Seq(Conditions))]
      BY <1>4 DEF Init
    <2>2. QED
      BY <1>3, <1>4, <2>1 DEF SlotType
  <1>6. SlotInv(0, 0, 0, 0)
    <2>1. SlotSound(0, 0, 0, 0, "no", << >>, << >>)
      BY DEF SlotSound, Older, NotHeld, Apart
    <2>2. QED
      BY <1>3, <1>4, <2>1 DEF SlotInv
  <1>7. QED
    BY <1>2, <1>5, <1>6 DEF Inv

\* The slots while the stack moves.
LEMMA MoveKeepsInv ==
    ASSUME SlotType,
           NEW w \in Nat, NEW l \in Nat, NEW e \in Nat, NEW n \in Nat,
           Stack(w, l, e, n), SlotInv(w, l, e, n),
           UNCHANGED <<slots, writes>>, verdict' # "rejected" => verdict # "rejected",
           NEW w2 \in Nat, NEW l2 \in Nat, NEW e2 \in Nat, NEW n2 \in Nat,
           Stack(w2, l2, e2, n2)',
           NothingBack(l + n, e + n, l2 + n2, e2 + n2), NoFlipBack(w, l, n, w2, l2, n2)
    PROVE  Inv'
  <1>1. counter \in Nat /\ counter' \in Nat
    BY DEF Stack, StackType
  <1>2. SlotType'
    BY DEF SlotType
  <1>3. ASSUME NEW s \in Signals, slots'[s].state = "yes" PROVE Covered(<< >>, writes[s])'
    BY <1>3 DEF SlotInv, Covered
  <1>4. ASSUME verdict' # "rejected", NEW s \in Signals
        PROVE  SlotSound(w2, l2, e2, n2, slots[s].state, slots[s].under, writes[s])'
    <2>1. PICK state, u, ws :
            state = slots[s].state /\ u = slots[s].under /\ ws = writes[s]
      OBVIOUS
    <2>2. SlotSound(w, l, e, n, state, u, ws)
      BY <1>4, <2>1 DEF SlotInv
    <2>3. \A i \in 1 .. Len(u) : u[i][1] \in Nat
      <3>1. u \in Seq(Conditions)
        BY <2>1 DEF SlotType, Slots
      <3>2. QED
        BY <3>1, ListFacts
    <2>4. SlotSound(w2, l2, e2, n2, state, u, ws)'
      BY <1>1, <2>2, <2>3, SlotKept
    <2>5. state = slots'[s].state /\ u = slots'[s].under /\ ws = writes'[s]
      BY <2>1
    <2>6. QED
      BY <2>4, <2>5
  <1>5. SlotInv(w2, l2, e2, n2)'
    BY <1>3, <1>4 DEF SlotInv
  <1>6. QED
    BY <1>2, <1>5 DEF Inv

\* A step that leaves the lists alone.
LEMMA SameStack ==
    ASSUME NEW w \in Nat, NEW l \in Nat, NEW e \in Nat, NEW n \in Nat, Stack(w, l, e, n),
           UNCHANGED <<conds, counter, frames, path>>,
           verdict' \in {"running", "accepted", "rejected"}
    PROVE  /\ Stack(w, l, e, n)'
           /\ NothingBack(l + n, e + n, l + n, e + n)
           /\ NoFlipBack(w, l, n, w, l, n)
  <1>1. StackType' /\ Lengths(w, l, e, n)'
    BY DEF Stack, StackType, Lengths
  <1>2. LoopsOutside(w, n)' /\ Turns(w, l, e, n)' /\ Aligned(l, e, n)'
    BY DEF Stack, LoopsOutside, Turns, Aligned
  <1>3. LoopConditions(l, e + n)' /\ Rising(l + n, e + n)'
    BY DEF Stack, LoopConditions, Rising
  <1>4. NothingBack(l + n, e + n, l + n, e + n)
    <2>1. counter \in Nat
      BY DEF Stack, StackType
    <2>2. QED
      BY <2>1 DEF NothingBack
  <1>5. NoFlipBack(w, l, n, w, l, n)
    BY DEF NoFlipBack, Flips
  <1>6. QED
    BY <1>1, <1>2, <1>3, <1>4, <1>5 DEF Stack

\* Every step but an assignment moves the stack and leaves the slots alone.
LEMMA Moves ==
    ASSUME MaxIds \in Nat, ~ LoopsUnderIf,
           NEW w \in Nat, NEW l \in Nat, NEW e \in Nat, NEW n \in Nat, Stack(w, l, e, n),
           \/ EnterIf \/ EnterElse \/ EndIf
           \/ EnterWhile \/ LoopTrue \/ EndIteration \/ LoopFalse
           \/ LoopUnknown \/ LoopUnknownAgain \/ EndUnknownLoop
           \/ EndTemplate
    PROVE  /\ UNCHANGED <<slots, writes>> /\ (verdict' # "rejected" => verdict # "rejected")
           /\ \E w2, l2, e2, n2 \in Nat :
                /\ Stack(w2, l2, e2, n2)'
                /\ NothingBack(l + n, e + n, l2 + n2, e2 + n2)
                /\ NoFlipBack(w, l, n, w2, l2, n2)
  <1> DEFINE Goal == \E w2, l2, e2, n2 \in Nat :
                       /\ Stack(w2, l2, e2, n2)'
                       /\ NothingBack(l + n, e + n, l2 + n2, e2 + n2)
                       /\ NoFlipBack(w, l, n, w2, l2, n2)
  <1>1. UNCHANGED <<slots, writes>> /\ verdict # "rejected"
    BY DEF EnterIf, EnterElse, EndIf, EnterWhile, LoopTrue, EndIteration, LoopFalse,
           LoopUnknown, LoopUnknownAgain, EndUnknownLoop, EndTemplate, AtStatement, Testing
  <1>2. n + 1 \in Nat /\ w + 1 \in Nat /\ l + 1 \in Nat /\ 0 \in Nat /\ 1 \in Nat
    OBVIOUS
  <1>3. ASSUME EnterIf PROVE Goal
    BY <1>2, <1>3, EnterIfStack
  <1>4. ASSUME EnterElse PROVE Goal
    BY <1>4, EnterElseStack
  <1>5. ASSUME EndIf PROVE Goal
    BY <1>5, EndIfStack
  <1>6. ASSUME EnterWhile PROVE Goal
    BY <1>2, <1>6, EnterWhileStack
  <1>7. ASSUME LoopTrue PROVE Goal
    BY <1>7, LoopTrueStack
  <1>8. ASSUME EndIteration PROVE Goal
    BY <1>8, EndIterationStack
  <1>9. ASSUME LoopFalse PROVE Goal
    BY <1>9, LoopFalseStack
  <1>10. ASSUME LoopUnknown PROVE Goal
    BY <1>2, <1>10, LoopUnknownStack
  <1>11. ASSUME LoopUnknownAgain PROVE Goal
    BY <1>2, <1>11, LoopUnknownAgainStack
  <1>12. ASSUME EndUnknownLoop PROVE Goal
    BY <1>2, <1>12, EndUnknownLoopStack
  <1>13. ASSUME EndTemplate PROVE Goal
    <2>1. UNCHANGED <<conds, counter, frames, path>> /\ verdict' = "accepted"
      BY <1>13 DEF EndTemplate
    <2>2. QED
      BY <2>1, SameStack
  <1> HIDE DEF Goal
  <1>14. Goal
    BY <1>3, <1>4, <1>5, <1>6, <1>7, <1>8, <1>9, <1>10, <1>11, <1>12, <1>13
  <1>15. QED
    BY <1>1, <1>14 DEF Goal

LEMMA CoveredGrows ==
    ASSUME NEW u, NEW ws, NEW p, ws \in Seq(Seq(Conditions)), p \in Seq(Conditions),
           Covered(u, ws)
    PROVE  Covered(u, Append(ws, p))
  <1> DEFINE k == Len(ws)
             vs == Append(ws, p)
  <1>1. k \in Nat /\ Len(vs) = k + 1 /\ Pushed(vs, ws, k, p)
    <2>1. k \in Nat
      OBVIOUS
    <2>2. QED
      BY <2>1, AppendFacts
  <1> HIDE DEF vs
  <1>2. \A i \in 1 .. k : i \in 1 .. Len(vs) /\ vs[i] = ws[i]
    BY <1>1 DEF Pushed
  <1>3. Covered(u, vs)
    BY <1>2 DEF Covered
  <1>4. QED
    BY <1>3 DEF vs

\* A slot that is taken as assigned.
LEMMA YesCovers ==
    ASSUME NEW w \in Nat, NEW l \in Nat, NEW e \in Nat, NEW n \in Nat,
           NEW u, NEW ws, u = << >>, SlotSound(w, l, e, n, "yes", u, ws)
    PROVE  Covered(<< >>, ws)
  <1>1. ~ \E i \in 1 .. Len(u) : Dead(w, l, n, u[i])
    OBVIOUS
  <1>2. QED
    BY <1>1 DEF SlotSound

\* An assignment, accepted or rejected.
LEMMA AssignKeepsInv ==
    ASSUME SlotType,
           NEW w \in Nat, NEW l \in Nat, NEW e \in Nat, NEW n \in Nat,
           Stack(w, l, e, n), SlotInv(w, l, e, n), NEW s \in Signals, Assign(s)
    PROVE  Inv'
  <1> DEFINE vs == Append(writes[s], path)
             new == AfterAssignment(slots[s], CurrentAssignment)
             Rejected == Rejects(slots[s], CurrentAssignment)
  <1>1. /\ verdict = "running" /\ UNCHANGED <<conds, counter, frames, path>>
        /\ writes' = [writes EXCEPT ![s] = vs]
        /\ Rejected => verdict' = "rejected" /\ slots' = slots
        /\ ~ Rejected => verdict' = "running" /\ slots' = [slots EXCEPT ![s] = new]
    BY DEF Assign, AtStatement
  <1>2. /\ slots \in [Signals -> Slots] /\ writes \in [Signals -> Seq(Seq(Conditions))]
        /\ \A t \in Signals : slots[t].state = "might" <=> slots[t].under # << >>
    BY DEF SlotType
  <1>3. path \in Seq(Conditions) /\ writes[s] \in Seq(Seq(Conditions))
    BY <1>2, SameLists
  <1>4. vs \in Seq(Seq(Conditions))
    BY <1>3, AppendFacts
  <1>5. /\ Stack(w, l, e, n)'
        /\ NothingBack(l + n, e + n, l + n, e + n)
        /\ NoFlipBack(w, l, n, w, l, n)
    BY <1>1, SameStack
  <1>6. \A t \in Signals : slots[t].state = "yes" => Covered(<< >>, writes[t])
    BY DEF SlotInv
  <1>7. /\ writes' \in [Signals -> Seq(Seq(Conditions))] /\ writes'[s] = vs
        /\ \A t \in Signals : t # s => writes'[t] = writes[t]
    BY <1>1, <1>2, <1>4
  <1>8. counter \in Nat /\ counter' \in Nat
    BY <1>1 DEF Stack, StackType
  <1>9. CASE Rejected
    <2>1. SlotType'
      BY <1>1, <1>2, <1>7, <1>9 DEF SlotType
    <2>2. slots[s].state = "yes" => Covered(<< >>, vs)
      BY <1>3, <1>6, CoveredGrows
    <2> HIDE DEF vs
    <2>3. ASSUME NEW t \in Signals, slots'[t].state = "yes" PROVE Covered(<< >>, writes[t])'
      BY <1>1, <1>6, <1>7, <1>9, <2>2, <2>3 DEF Covered
    <2>4. SlotInv(w, l, e, n)'
      BY <1>1, <1>9, <2>3 DEF SlotInv
    <2>5. QED
      BY <1>5, <2>1, <2>4 DEF Inv
  <1>10. CASE ~ Rejected
    <2>1. \A t \in Signals : SlotSound(w, l, e, n, slots[t].state, slots[t].under, writes[t])
      BY <1>1 DEF SlotInv
    <2>2. /\ new \in Slots /\ new.state # "no"
          /\ new.state = "might" <=> new.under # << >>
          /\ SlotSound(w, l, e, n, new.state, new.under, vs)
      BY <1>2, <1>3, <1>10, <2>1, AssignSound
    <2>3. /\ slots'[s] = new /\ slots' \in [Signals -> Slots]
          /\ \A t \in Signals : t # s => slots'[t] = slots[t]
      BY <1>1, <1>2, <1>10, <2>2
    <2> HIDE DEF vs, new
    <2>4. SlotType'
      BY <1>2, <1>7, <2>2, <2>3 DEF SlotType
    <2>5. ASSUME NEW t \in Signals
          PROVE  SlotSound(w, l, e, n, slots'[t].state, slots'[t].under, writes'[t])
      <3>1. CASE t = s
        BY <1>7, <2>2, <2>3, <3>1
      <3>2. CASE t # s
        BY <1>7, <2>1, <2>3, <3>2
      <3>3. QED
        BY <3>1, <3>2
    <2>6. ASSUME NEW t \in Signals
          PROVE  /\ SlotSound(w, l, e, n, slots[t].state, slots[t].under, writes[t])'
                 /\ slots'[t].state = "yes" => Covered(<< >>, writes[t])'
      <3>1. PICK state, u, ws :
              state = slots'[t].state /\ u = slots'[t].under /\ ws = writes'[t]
        OBVIOUS
      <3>2. SlotSound(w, l, e, n, state, u, ws)
        BY <2>5, <3>1
      <3>3. u \in Seq(Conditions) /\ (state = "might" <=> u # << >>)
        BY <2>4, <3>1 DEF SlotType, Slots
      <3>4. \A i \in 1 .. Len(u) : u[i][1] \in Nat
        BY <3>3, ListFacts
      <3>5. SlotSound(w, l, e, n, state, u, ws)'
        BY <1>5, <1>8, <3>2, <3>4, SlotKept
      <3>6. state = "yes" => Covered(<< >>, ws)
        BY <3>2, <3>3, YesCovers
      <3>7. Covered(<< >>, writes[t])' <=> Covered(<< >>, ws)
        BY <3>1 DEF Covered
      <3>8. QED
        BY <3>1, <3>5, <3>6, <3>7
    <2>7. SlotInv(w, l, e, n)'
      BY <2>6 DEF SlotInv
    <2>8. QED
      BY <1>5, <2>4, <2>7 DEF Inv
  <1>11. QED
    BY <1>9, <1>10

\* Without loops under unknown ifs, and with a natural number of identifiers, Inv is
\* inductive.
THEOREM StackKept ==
    ASSUME SignalAssignmentAssumption, ~ LoopsUnderIf
    PROVE  Spec => []Inv
  <1>1. Init => Inv
    BY InitInv
  <1>2. Inv /\ [Next]_vars => Inv'
    <2> SUFFICES ASSUME Inv, [Next]_vars PROVE Inv'
      OBVIOUS
    <2>1. SlotType
      BY DEF Inv
    <2>2. PICK w, l, e, n \in Nat : Stack(w, l, e, n) /\ SlotInv(w, l, e, n)
      BY DEF Inv
    <2>3. MaxIds \in Nat
      BY DEF SignalAssignmentAssumption
    <2>4. ASSUME NEW s \in Signals, Assign(s) PROVE Inv'
      BY <2>1, <2>2, <2>4, AssignKeepsInv
    <2>5. ASSUME \/ EnterIf \/ EnterElse \/ EndIf
                 \/ EnterWhile \/ LoopTrue \/ EndIteration \/ LoopFalse
                 \/ LoopUnknown \/ LoopUnknownAgain \/ EndUnknownLoop
                 \/ EndTemplate
          PROVE  Inv'
      <3>1. /\ UNCHANGED <<slots, writes>> /\ (verdict' # "rejected" => verdict # "rejected")
            /\ \E w2, l2, e2, n2 \in Nat :
                 /\ Stack(w2, l2, e2, n2)'
                 /\ NothingBack(l + n, e + n, l2 + n2, e2 + n2)
                 /\ NoFlipBack(w, l, n, w2, l2, n2)
        BY <2>2, <2>3, <2>5, Moves
      <3>2. QED
        BY <2>1, <2>2, <3>1, MoveKeepsInv
    <2>6. CASE UNCHANGED vars
      <3>1. UNCHANGED <<conds, counter, slots, frames, path, writes, verdict>>
        BY <2>6 DEF vars
      <3>2. verdict' \in {"running", "accepted", "rejected"}
        BY <2>2, <3>1 DEF Stack, StackType
      <3>3. /\ Stack(w, l, e, n)'
            /\ NothingBack(l + n, e + n, l + n, e + n)
            /\ NoFlipBack(w, l, n, w, l, n)
        BY <2>2, <3>1, <3>2, SameStack
      <3>4. QED
        BY <2>1, <2>2, <3>1, <3>3, MoveKeepsInv
    <2>7. QED
      BY <2>4, <2>5, <2>6 DEF Next
  <1>3. QED
    BY <1>1, <1>2, PTL DEF Spec

-----------------------------------------------------------------------------
\* Every list of conditions holds identifiers that were given out, and a slot has
\* conditions exactly while it may or may not be assigned: dropping the last condition
\* never leaves an empty list behind (perform_signal_assignment).
THEOREM SignalTypeOK ==
    ASSUME SignalAssignmentAssumption, ~ LoopsUnderIf
    PROVE  Spec => []TypeOK
  <1>1. Inv => TypeOK
    <2> SUFFICES ASSUME Inv PROVE TypeOK
      OBVIOUS
    <2>1. SlotType /\ StackType
      BY DEF Inv, Stack
    <2>2. QED
      BY <2>1 DEF SlotType, StackType, TypeOK, Slots, States, Conditions, Ids
  <1>2. QED
    BY <1>1, StackKept, PTL

\* No run of the witness generator can assign a signal twice: any two accepted
\* assignments stand in different branches of one `if` (perform_signal_assignment).
THEOREM AssignedOnce ==
    ASSUME SignalAssignmentAssumption, ~ LoopsUnderIf
    PROVE  Spec => []NeverAssignedTwice
  <1>1. Inv => NeverAssignedTwice
    BY DEF Inv, SlotInv, SlotSound, Apart, NeverAssignedTwice
  <1>2. QED
    BY <1>1, StackKept, PTL

\* A signal in the state Assigned gets a value in every run, although only the newest
\* conditions of its assignments are remembered (perform_signal_assignment).
THEOREM AssignedAlways ==
    ASSUME SignalAssignmentAssumption, ~ LoopsUnderIf
    PROVE  Spec => []AssignedMeansAlways
  <1>1. Inv => AssignedMeansAlways
    <2> SUFFICES ASSUME Inv, NEW s \in Signals, slots[s].state = "yes",
                        NEW o \in [Ids -> BOOLEAN]
                 PROVE  \E i \in 1 .. Len(writes[s]) : Holds(o, writes[s][i])
      BY DEF AssignedMeansAlways, Holds, Ids
    <2>1. Covered(<< >>, writes[s])
      BY DEF Inv, SlotInv
    <2>2. Holds(o, << >>)
      BY DEF Holds
    <2>3. QED
      BY <2>1, <2>2 DEF Covered
  <1>2. QED
    BY <1>1, StackKept, PTL

-----------------------------------------------------------------------------
(***************************************************************************)
(* Loops inside ifs.  Nothing is proved of the slots there, but an else    *)
(* still finds its condition: each open `if` has one of conds to itself,   *)
(* and so has each loop under an `if` until its first iteration ends.      *)
(* g[i] counts those of the first i frames.                                *)
(***************************************************************************)
UnderIf(fs, i) == \E j \in 1 .. i - 1 : fs[j].kind = "if"

Owned(fs, i) ==
    IF fs[i].kind = "if" \/ (UnderIf(fs, i) /\ (fs[i].turn = 0 \/ fs[i].phase = "body"))
    THEN 1 ELSE 0

Reserve(fs, g, k) == \A i \in 1 .. k : g[i - 1] + Owned(fs, i) <= g[i]

\* The phases a frame goes through.
Phases(f, i) ==
    /\ f.kind = "if" => f.phase \in {"then", "else"} /\ (f.turn # 0 => i > 1)
    /\ f.kind = "while" => f.phase \in {"test", "body", "unknown"}
    /\ f.phase = "body" => f.turn # 0

Balanced(g, k, m) ==
    /\ frames \in Seq(Frames) /\ Len(frames) = k
    /\ conds \in Seq(Conditions) /\ Len(conds) = m
    /\ counter \in 0 .. MaxIds /\ verdict # "panic"
    /\ \A i \in 1 .. k : Phases(frames[i], i)
    /\ Reserve(frames, g, k) /\ g[k] <= m

Balance == \E k, m \in Nat : \E g \in [Nat -> Nat] : Balanced(g, k, m)

LEMMA ReserveFront ==
    ASSUME NEW fs, NEW gs, NEW k \in Nat, NEW g, Popped(gs, fs, k), Reserve(fs, g, k)
    PROVE  Reserve(gs, g, k)
  <1>1. \A i \in 1 .. k : gs[i] = fs[i]
    BY DEF Popped
  <1>2. \A i \in 1 .. k : UnderIf(gs, i) <=> UnderIf(fs, i)
    BY <1>1 DEF UnderIf
  <1>3. \A i \in 1 .. k : Owned(gs, i) = Owned(fs, i)
    BY <1>1, <1>2 DEF Owned
  <1>4. QED
    BY <1>3 DEF Reserve

LEMMA CountFacts ==
    ASSUME NEW k \in Nat, NEW g \in [Nat -> Nat], NEW o \in 0 .. 1,
           NEW h, h = [g EXCEPT ![k + 1] = g[k] + o]
    PROVE  h \in [Nat -> Nat]
  OBVIOUS

\* A frame is put on top of the first k.
LEMMA ReservePush ==
    ASSUME NEW fs, NEW gs, NEW k \in Nat, NEW f, NEW g \in [Nat -> Nat], NEW o \in 0 .. 1,
           Pushed(gs, fs, k, f), Reserve(fs, g, k), Owned(gs, k + 1) <= o,
           NEW h, h = [g EXCEPT ![k + 1] = g[k] + o]
    PROVE  h \in [Nat -> Nat] /\ Reserve(gs, h, k + 1) /\ h[k + 1] = g[k] + o
  <1>1. h \in [Nat -> Nat] /\ h[k + 1] = g[k] + o /\ \A i \in 0 .. k : h[i] = g[i]
    OBVIOUS
  <1>2. Popped(gs, fs, k)
    BY DEF Pushed, Popped
  <1>3. Reserve(gs, g, k)
    BY <1>2, ReserveFront
  <1>4. Owned(gs, k + 1) \in 0 .. 1
    BY DEF Owned
  <1>5. ASSUME NEW i \in 1 .. k + 1 PROVE h[i - 1] + Owned(gs, i) <= h[i]
    <2>1. CASE i = k + 1
      <3>1. h[i - 1] = g[k] /\ h[i] = g[k] + o /\ g[k] \in Nat
        BY <1>1, <2>1
      <3>2. QED
        BY <1>4, <2>1, <3>1
    <2>2. CASE i # k + 1
      <3>1. i \in 1 .. k /\ i - 1 \in 0 .. k /\ i \in 0 .. k
        BY <2>2
      <3>2. h[i - 1] = g[i - 1] /\ h[i] = g[i]
        BY <1>1, <3>1
      <3>3. QED
        BY <1>3, <3>1, <3>2 DEF Reserve
    <2>3. QED
      BY <2>1, <2>2
  <1>6. Reserve(gs, h, k + 1)
    BY <1>5 DEF Reserve
  <1>7. QED
    BY <1>1, <1>6

\* The frame on top, what it owns, and the rest.
LEMMA TopOwns ==
    ASSUME NEW k \in Nat, NEW m \in Nat, NEW g \in [Nat -> Nat], Balanced(g, k, m),
           frames # << >>
    PROVE  \E v \in Nat :
             /\ k = v + 1 /\ Top = frames[k] /\ Top \in Frames /\ Phases(Top, k)
             /\ Reserve(frames, g, v) /\ g[v] + Owned(frames, k) <= m
             /\ (Top.kind # "if" => (InUnknown <=> UnderIf(frames, k)))
             /\ Owned(frames, k) \in 0 .. 1 /\ (Top.kind = "if" => Owned(frames, k) = 1)
  <1>1. /\ frames \in Seq(Frames) /\ Len(frames) = k /\ k # 0
        /\ \A i \in 1 .. k : Phases(frames[i], i)
        /\ Reserve(frames, g, k) /\ g[k] <= m
    BY DEF Balanced
  <1>2. PICK v \in Nat : k = v + 1
    <2>1. k - 1 \in Nat /\ k = (k - 1) + 1
      BY <1>1
    <2>2. QED
      BY <2>1
  <1>3. Top = frames[k] /\ Top \in Frames
    BY <1>1 DEF Top, Last
  <1>4. k \in 1 .. k /\ k - 1 = v /\ \A i \in 1 .. v : i \in 1 .. k
    BY <1>2
  <1>5. Phases(Top, k)
    BY <1>1, <1>3, <1>4
  <1>6. Reserve(frames, g, v)
    BY <1>1, <1>4 DEF Reserve
  <1>7. Owned(frames, k) \in 0 .. 1 /\ (Top.kind = "if" => Owned(frames, k) = 1)
    <2>1. Owned(frames, k) \in 0 .. 1
      BY DEF Owned
    <2>2. ASSUME Top.kind = "if" PROVE Owned(frames, k) = 1
      <3>1. frames[k].kind = "if"
        BY <1>3, <2>2
      <3>2. QED
        BY <3>1 DEF Owned
    <2>3. QED
      BY <2>1, <2>2
  <1>8. g[v] + Owned(frames, k) <= m
    <2>1. g[v] + Owned(frames, k) <= g[k]
      BY <1>1, <1>4 DEF Reserve
    <2>2. g[v] \in Nat /\ g[k] \in Nat /\ g[k] <= m
      BY <1>1
    <2>3. \A x \in Nat, y \in Nat, o \in 0 .. 1 : x + o <= y /\ y <= m => x + o <= m
      OBVIOUS
    <2>4. QED
      BY <1>7, <2>1, <2>2, <2>3
  <1>9. Top.kind # "if" => (InUnknown <=> UnderIf(frames, k))
    <2>1. InUnknown <=> \E i \in 1 .. k : frames[i].kind = "if"
      BY <1>1 DEF InUnknown
    <2>2. \A i \in 1 .. k : i = k \/ i \in 1 .. k - 1
      OBVIOUS
    <2>3. \A i \in 1 .. k - 1 : i \in 1 .. k
      OBVIOUS
    <2>4. QED
      BY <1>3, <2>1, <2>2, <2>3 DEF UnderIf
  <1>10. QED
    BY <1>2, <1>3, <1>5, <1>6, <1>7, <1>8, <1>9

\* A frame owns one condition at most.
LEMMA OwnsOne ==
    ASSUME NEW fs, NEW i
    PROVE  /\ Owned(fs, i) <= 1 /\ Owned(fs, i) \in 0 .. 1
           /\ fs[i].kind # "if" /\ ~ UnderIf(fs, i) => Owned(fs, i) <= 0
           /\ fs[i].kind # "if" /\ fs[i].turn # 0 /\ fs[i].phase # "body" => Owned(fs, i) <= 0
  <1>1. Owned(fs, i) = 0 \/ Owned(fs, i) = 1
    BY DEF Owned
  <1>2. ASSUME fs[i].kind # "if", ~ UnderIf(fs, i) \/ (fs[i].turn # 0 /\ fs[i].phase # "body")
        PROVE  Owned(fs, i) = 0
    BY <1>2 DEF Owned
  <1>3. QED
    BY <1>1, <1>2

\* A step that leaves k frames and one more.
LEMMA BalancePush ==
    ASSUME NEW fs, NEW k \in Nat, NEW g \in [Nat -> Nat], NEW f, NEW o \in 0 .. 1,
           Reserve(fs, g, k), \A i \in 1 .. k : Phases(fs[i], i), Phases(f, k + 1),
           frames' \in Seq(Frames), Len(frames') = k + 1, Pushed(frames', fs, k, f),
           Owned(frames', k + 1) <= o,
           NEW m \in Nat, conds' \in Seq(Conditions), Len(conds') = m, g[k] + o <= m,
           counter' \in 0 .. MaxIds, verdict' # "panic"
    PROVE  Balance'
  <1>1. frames'[k + 1] = f /\ \A i \in 1 .. k : frames'[i] = fs[i]
    BY DEF Pushed
  <1>2. \A i \in 1 .. k + 1 : Phases(frames'[i], i)
    <2>1. \A i \in 1 .. k + 1 : i = k + 1 \/ i \in 1 .. k
      OBVIOUS
    <2>2. QED
      BY <1>1, <2>1
  <1>3. PICK h : h = [g EXCEPT ![k + 1] = g[k] + o]
    OBVIOUS
  <1>4. Reserve(frames', h, k + 1)
    BY <1>3, ReservePush
  <1>5. h \in [Nat -> Nat]
    BY <1>3, CountFacts, Zenon
  <1>6. h[k + 1] <= m
    <2>1. h[k + 1] = g[k] + o
      BY <1>3, ReservePush
    <2>2. QED
      BY <2>1
  <1>7. Balanced(h, k + 1, m)'
    BY <1>2, <1>4, <1>6 DEF Balanced
  <1>8. k + 1 \in Nat
    OBVIOUS
  <1>9. QED
    BY <1>5, <1>7, <1>8 DEF Balance

\* A step that leaves k frames.
LEMMA BalanceFront ==
    ASSUME NEW k \in Nat, NEW g \in [Nat -> Nat],
           Reserve(frames, g, k), \A i \in 1 .. k : Phases(frames[i], i),
           frames' \in Seq(Frames), Len(frames') = k, Popped(frames', frames, k),
           NEW m \in Nat, conds' \in Seq(Conditions), Len(conds') = m, g[k] <= m,
           counter' \in 0 .. MaxIds, verdict' # "panic"
    PROVE  Balance'
  <1>1. \A i \in 1 .. k : frames'[i] = frames[i]
    BY DEF Popped
  <1>2. \A i \in 1 .. k : Phases(frames'[i], i)
    BY <1>1
  <1>3. Reserve(frames', g, k)
    BY ReserveFront
  <1>4. Balanced(g, k, m)'
    BY <1>2, <1>3 DEF Balanced
  <1>5. QED
    BY <1>4 DEF Balance

\* A new condition.
LEMMA PushBalance ==
    ASSUME MaxIds \in Nat, NEW s \in Seq(Conditions), NEW m \in Nat, Len(s) = m,
           counter \in 0 .. MaxIds, counter < MaxIds,
           conds' = Append(s, <<counter, TRUE>>), counter' = counter + 1
    PROVE  conds' \in Seq(Conditions) /\ Len(conds') = m + 1 /\ counter' \in 0 .. MaxIds
  <1>1. <<counter, TRUE>> \in Conditions /\ counter + 1 \in 0 .. MaxIds
    BY ConditionFacts
  <1>2. QED
    BY <1>1, AppendFacts

\* The end of a statement drops the last condition if there is one.
LEMMA PopBalance ==
    ASSUME conds \in Seq(Conditions), NEW m \in Nat, Len(conds) = m, PopCondition
    PROVE  \E m2 \in Nat : /\ conds' \in Seq(Conditions) /\ Len(conds') = m2
                           /\ m2 + 1 = m \/ (m = 0 /\ m2 = 0)
  <1>1. CASE m = 0
    <2>1. conds = << >>
      BY <1>1
    <2>2. conds' = conds
      BY <2>1 DEF PopCondition
    <2>3. QED
      BY <1>1, <2>2
  <1>2. CASE m # 0
    <2>1. PICK v \in Nat : m = v + 1
      <3>1. m - 1 \in Nat /\ m = (m - 1) + 1
        BY <1>2
      <3>2. QED
        BY <3>1
    <2>2. conds # << >>
      BY <1>2
    <2>3. conds' = Front(conds)
      BY <2>2 DEF PopCondition
    <2>4. conds' \in Seq(Conditions) /\ Len(conds') = v
      BY <2>1, <2>3, FrontFacts
    <2>5. QED
      BY <2>1, <2>4
  <1>3. QED
    BY <1>1, <1>2

LEMMA EnterBalance ==
    ASSUME MaxIds \in Nat, NEW k \in Nat, NEW m \in Nat, NEW g \in [Nat -> Nat],
           Balanced(g, k, m), EnterIf \/ EnterWhile
    PROVE  Balance'
  <1>1. PICK f \in {Frame("if", "then"), Frame("while", "test")} :
          /\ frames' = Append(frames, f) /\ conds' = Append(conds, <<counter, TRUE>>)
          /\ counter < MaxIds /\ counter' = counter + 1 /\ verdict' = "running"
    BY DEF EnterIf, EnterWhile, PushCondition, AtStatement
  <1>2. f \in Frames /\ Phases(f, k + 1)
    BY FrameFacts DEF Phases
  <1>3. /\ frames \in Seq(Frames) /\ Len(frames) = k /\ conds \in Seq(Conditions)
        /\ Len(conds) = m /\ counter \in 0 .. MaxIds /\ g[k] <= m
        /\ Reserve(frames, g, k) /\ \A i \in 1 .. k : Phases(frames[i], i)
    BY DEF Balanced
  <1>4. frames' \in Seq(Frames) /\ Len(frames') = k + 1 /\ Pushed(frames', frames, k, f)
    BY <1>1, <1>2, <1>3, AppendFacts
  <1>5. conds' \in Seq(Conditions) /\ Len(conds') = m + 1 /\ counter' \in 0 .. MaxIds
    BY <1>1, <1>3, PushBalance
  <1>6. g[k] + 1 <= m + 1 /\ m + 1 \in Nat /\ 1 \in 0 .. 1
    <2>1. g[k] \in Nat
      OBVIOUS
    <2>2. QED
      BY <1>3, <2>1
  <1>7. verdict' # "panic"
    BY <1>1
  <1> HIDE DEF Frame
  <1>8. QED
    BY <1>2, <1>3, <1>4, <1>5, <1>6, <1>7, OwnsOne, BalancePush

LEMMA ElseBalance ==
    ASSUME MaxIds \in Nat, NEW k \in Nat, NEW m \in Nat, NEW g \in [Nat -> Nat],
           Balanced(g, k, m), EnterElse
    PROVE  Balance'
  <1>1. PICK v \in Nat :
          /\ k = v + 1 /\ Top = frames[k] /\ Top \in Frames /\ Phases(Top, k)
          /\ Reserve(frames, g, v) /\ g[v] + Owned(frames, k) <= m
          /\ (Top.kind = "if" => Owned(frames, k) = 1)
    BY TopOwns DEF EnterElse
  <1>2. Top.kind = "if" /\ Top.turn = 0
    BY <1>1 DEF EnterElse, Phases, Frames
  <1>3. /\ frames \in Seq(Frames) /\ Len(frames) = v + 1 /\ conds \in Seq(Conditions)
        /\ Len(conds) = m /\ counter \in 0 .. MaxIds
        /\ \A i \in 1 .. k : Phases(frames[i], i)
    BY <1>1 DEF Balanced
  <1>4. g[v] + 1 <= m /\ g[v] \in Nat
    BY <1>1, <1>2
  <1>5. PICK r \in Nat : m = r + 1
    <2>1. m - 1 \in Nat /\ m = (m - 1) + 1
      BY <1>4
    <2>2. QED
      BY <2>1
  <1> DEFINE c == <<conds[Len(conds)][1], FALSE>>
             f == [Top EXCEPT !.phase = "else"]
  <1>6. /\ conds' = [conds EXCEPT ![Len(conds)] = c]
        /\ frames' = [frames EXCEPT ![Len(frames)] = f]
        /\ counter' = counter /\ verdict' = "running"
    <2>1. conds # << >>
      BY <1>3, <1>5
    <2>2. frames[Len(frames)] = Top
      BY <1>1, <1>3
    <2>3. QED
      BY <2>1, <2>2 DEF EnterElse, AtStatement
  <1>7. c \in Conditions
    <2>1. conds[Len(conds)] \in Conditions
      BY <1>3, <1>5
    <2>2. conds[Len(conds)][1] \in Ids
      BY <2>1, PairFacts
    <2>3. QED
      BY <2>2 DEF Conditions
  <1>8. f \in Frames /\ Phases(f, v + 1)
    BY <1>1, <1>2 DEF Frames, Phases
  <1> HIDE DEF c, f
  <1>9. conds' \in Seq(Conditions) /\ Len(conds') = m
    BY <1>3, <1>5, <1>6, <1>7, LastFacts
  <1>10. frames' \in Seq(Frames) /\ Len(frames') = v + 1 /\ Pushed(frames', frames, v, f)
    <2> DEFINE t == [frames EXCEPT ![Len(frames)] = f]
    <2>1. t \in Seq(Frames) /\ Len(t) = v + 1 /\ Pushed(t, frames, v, f)
      BY <1>3, <1>8, LastFacts
    <2>2. QED
      BY <1>6, <2>1
  <1>11. \A i \in 1 .. v : Phases(frames[i], i)
    BY <1>1, <1>3
  <1>12. 1 \in 0 .. 1 /\ verdict' # "panic" /\ counter' \in 0 .. MaxIds
    BY <1>3, <1>6
  <1>13. QED
    BY <1>1, <1>4, <1>8, <1>9, <1>10, <1>11, <1>12, OwnsOne, BalancePush

LEMMA LoopTrueBalance ==
    ASSUME NEW k \in Nat, NEW m \in Nat, NEW g \in [Nat -> Nat],
           Balanced(g, k, m), LoopTrue
    PROVE  Balance'
  <1>1. PICK v \in Nat :
          /\ k = v + 1 /\ Top = frames[k] /\ Top \in Frames /\ Phases(Top, k)
          /\ Reserve(frames, g, v) /\ g[v] + Owned(frames, k) <= m
          /\ (Top.kind # "if" => (InUnknown <=> UnderIf(frames, k)))
          /\ Owned(frames, k) \in 0 .. 1
    BY TopOwns DEF LoopTrue, Testing
  <1>2. Top.phase = "test" /\ Top.turn \in 0 .. 2 /\ Top.turn < 2 /\ Top.kind # "if"
    BY <1>1 DEF LoopTrue, Testing, Phases, Frames
  <1>3. /\ frames \in Seq(Frames) /\ Len(frames) = v + 1 /\ conds \in Seq(Conditions)
        /\ Len(conds) = m /\ counter \in 0 .. MaxIds
        /\ \A i \in 1 .. k : Phases(frames[i], i)
    BY <1>1 DEF Balanced
  <1> DEFINE f == [Top EXCEPT !.phase = "body", !.turn = @ + 1]
             o == Owned(frames, k)
  <1>4. /\ frames' = [frames EXCEPT ![Len(frames)] = f]
        /\ conds' = conds /\ counter' = counter /\ verdict' = "running"
    <2>1. frames[Len(frames)] = Top
      BY <1>1, <1>3
    <2>2. QED
      BY <2>1 DEF LoopTrue, Testing
  <1>5. f \in Frames /\ f.kind = Top.kind /\ f.phase = "body" /\ f.turn # 0 /\ Phases(f, v + 1)
    <2>1. Top.turn + 1 \in 0 .. 2 /\ Top.turn + 1 # 0
      BY <1>2
    <2>2. QED
      BY <1>1, <1>2, <2>1 DEF Frames, Phases
  <1> HIDE DEF f
  <1>6. frames' \in Seq(Frames) /\ Len(frames') = v + 1 /\ Pushed(frames', frames, v, f)
    <2> DEFINE t == [frames EXCEPT ![Len(frames)] = f]
    <2>1. t \in Seq(Frames) /\ Len(t) = v + 1 /\ Pushed(t, frames, v, f)
      BY <1>3, <1>5, LastFacts
    <2>2. QED
      BY <1>4, <2>1
  <1>7. frames'[v + 1] = f /\ \A i \in 1 .. v : frames'[i] = frames[i]
    BY <1>6 DEF Pushed
  <1>8. Owned(frames', v + 1) <= o
    <2>1. CASE UnderIf(frames, k)
      <3>1. Top.turn = 0
        BY <1>1, <1>2, <2>1 DEF LoopTrue
      <3>2. o = 1
        BY <1>1, <2>1, <3>1 DEF Owned
      <3>3. QED
        BY <3>2, OwnsOne
    <2>2. CASE ~ UnderIf(frames, k)
      <3>1. ~ UnderIf(frames', v + 1)
        <4>1. \A i \in 1 .. v + 1 - 1 : i \in 1 .. v /\ i \in 1 .. k - 1
          BY <1>1
        <4>2. QED
          BY <1>7, <2>2, <4>1 DEF UnderIf
      <3>2. Owned(frames', v + 1) <= 0
        BY <1>2, <1>5, <1>7, <3>1, OwnsOne
      <3>3. Owned(frames', v + 1) \in 0 .. 1
        BY OwnsOne
      <3>4. QED
        BY <1>1, <3>2, <3>3
    <2>3. QED
      BY <2>1, <2>2
  <1>9. \A i \in 1 .. v : Phases(frames[i], i)
    BY <1>1, <1>3
  <1>10. conds' \in Seq(Conditions) /\ Len(conds') = m /\ counter' \in 0 .. MaxIds
         /\ verdict' # "panic"
    BY <1>3, <1>4
  <1>11. g[v] + o <= m /\ o \in 0 .. 1
    BY <1>1
  <1> HIDE DEF o
  <1>12. QED
    BY <1>1, <1>5, <1>6, <1>8, <1>9, <1>10, <1>11, BalancePush

\* The first iteration of a loop under an `if` drops the condition of the loop.
LEMMA EndIterationBalance ==
    ASSUME NEW k \in Nat, NEW m \in Nat, NEW g \in [Nat -> Nat],
           Balanced(g, k, m), EndIteration
    PROVE  Balance'
  <1>1. PICK v \in Nat :
          /\ k = v + 1 /\ Top = frames[k] /\ Top \in Frames /\ Phases(Top, k)
          /\ Reserve(frames, g, v) /\ g[v] + Owned(frames, k) <= m
          /\ (Top.kind # "if" => (InUnknown <=> UnderIf(frames, k)))
    BY TopOwns DEF EndIteration
  <1>2. Top.phase = "body" /\ Top.turn # 0 /\ Top.kind = "while"
    BY <1>1 DEF EndIteration, Phases, Frames
  <1>3. /\ frames \in Seq(Frames) /\ Len(frames) = v + 1 /\ conds \in Seq(Conditions)
        /\ Len(conds) = m /\ counter \in 0 .. MaxIds
        /\ \A i \in 1 .. k : Phases(frames[i], i)
    BY <1>1 DEF Balanced
  <1> DEFINE f == [Top EXCEPT !.phase = "test"]
  <1>4. /\ frames' = [frames EXCEPT ![Len(frames)] = f] /\ PopCondition
        /\ counter' = counter /\ verdict' = "running"
    <2>1. frames[Len(frames)] = Top
      BY <1>1, <1>3
    <2>2. QED
      BY <2>1 DEF EndIteration, AtStatement
  <1>5. f \in Frames /\ f.kind = "while" /\ f.phase = "test" /\ f.turn # 0 /\ Phases(f, v + 1)
    BY <1>1, <1>2 DEF Frames, Phases
  <1> HIDE DEF f
  <1>6. frames' \in Seq(Frames) /\ Len(frames') = v + 1 /\ Pushed(frames', frames, v, f)
    <2> DEFINE t == [frames EXCEPT ![Len(frames)] = f]
    <2>1. t \in Seq(Frames) /\ Len(t) = v + 1 /\ Pushed(t, frames, v, f)
      BY <1>3, <1>5, LastFacts
    <2>2. QED
      BY <1>4, <2>1
  <1>7. frames'[v + 1] = f
    BY <1>6 DEF Pushed
  <1>8. Owned(frames', v + 1) <= 0
    BY <1>5, <1>7, OwnsOne
  <1>9. \A i \in 1 .. v : Phases(frames[i], i)
    BY <1>1, <1>3
  <1>10. PICK m2 \in Nat : /\ conds' \in Seq(Conditions) /\ Len(conds') = m2
                           /\ m2 + 1 = m \/ (m = 0 /\ m2 = 0)
    BY <1>3, <1>4, PopBalance
  <1>11. counter' \in 0 .. MaxIds /\ verdict' # "panic" /\ 0 \in 0 .. 1
    BY <1>3, <1>4
  <1>12. CASE UnderIf(frames, k)
    <2>1. Owned(frames, k) = 1
      BY <1>1, <1>2, <1>12 DEF Owned
    <2>2. g[v] + 0 <= m2
      <3>1. g[v] \in Nat /\ g[v] + 1 <= m
        BY <1>1, <2>1
      <3>2. QED
        BY <1>10, <3>1
    <2>3. QED
      BY <1>1, <1>5, <1>6, <1>8, <1>9, <1>10, <1>11, <2>2, BalancePush
  <1>13. CASE ~ UnderIf(frames, k)
    <2> DEFINE z == [i \in Nat |-> 0]
    <2>1. \A i \in 1 .. v : frames[i].kind # "if" /\ ~ UnderIf(frames, i)
      <3>1. \A i \in 1 .. v : i \in 1 .. k - 1 /\ \A j \in 1 .. i - 1 : j \in 1 .. k - 1
        BY <1>1
      <3>2. QED
        BY <1>13, <3>1 DEF UnderIf
    <2>2. \A i \in 1 .. v : Owned(frames, i) = 0
      BY <2>1 DEF Owned
    <2>3. z \in [Nat -> Nat] /\ Reserve(frames, z, v) /\ z[v] = 0
      BY <2>2 DEF Reserve
    <2> HIDE DEF z
    <2>4. z[v] + 0 <= m2
      BY <2>3
    <2>5. QED
      BY <1>5, <1>6, <1>8, <1>9, <1>10, <1>11, <2>3, <2>4, BalancePush
  <1>14. QED
    BY <1>12, <1>13

\* The end of an `if` or of a loop.
LEMMA EndBalance ==
    ASSUME NEW k \in Nat, NEW m \in Nat, NEW g \in [Nat -> Nat],
           Balanced(g, k, m), EndIf \/ LoopFalse
    PROVE  Balance'
  <1>1. PICK v \in Nat :
          /\ k = v + 1
          /\ Reserve(frames, g, v) /\ g[v] + Owned(frames, k) <= m
          /\ Owned(frames, k) \in 0 .. 1 /\ (Top.kind = "if" => Owned(frames, k) = 1)
    BY TopOwns DEF EndIf, LoopFalse, Testing
  <1>2. /\ frames \in Seq(Frames) /\ Len(frames) = v + 1 /\ conds \in Seq(Conditions)
        /\ Len(conds) = m /\ counter \in 0 .. MaxIds
        /\ \A i \in 1 .. k : Phases(frames[i], i)
    BY <1>1 DEF Balanced
  <1>3. frames' = Front(frames) /\ counter' = counter /\ verdict' = "running"
    BY DEF EndIf, LoopFalse, AtStatement, Testing
  <1>4. frames' \in Seq(Frames) /\ Len(frames') = v /\ Popped(frames', frames, v)
    BY <1>2, <1>3, FrontFacts
  <1>5. \A i \in 1 .. v : Phases(frames[i], i)
    BY <1>1, <1>2
  <1>6. g[v] \in Nat
    OBVIOUS
  <1>7. PICK m2 \in Nat : conds' \in Seq(Conditions) /\ Len(conds') = m2 /\ g[v] <= m2
    <2>1. CASE EndIf
      <3>1. g[v] + 1 <= m
        BY <1>1, <2>1 DEF EndIf
      <3>2. PICK m2 \in Nat : /\ conds' \in Seq(Conditions) /\ Len(conds') = m2
                              /\ m2 + 1 = m \/ (m = 0 /\ m2 = 0)
        BY <1>2, <2>1, PopBalance DEF EndIf
      <3>3. g[v] <= m2
        BY <1>6, <3>1, <3>2
      <3>4. QED
        BY <3>2, <3>3
    <2>2. CASE LoopFalse
      <3>1. conds' = conds
        BY <2>2 DEF LoopFalse
      <3>2. g[v] <= m
        BY <1>1, <1>6
      <3>3. QED
        BY <1>2, <3>1, <3>2
    <2>3. QED
      BY <2>1, <2>2
  <1>8. counter' \in 0 .. MaxIds /\ verdict' # "panic"
    BY <1>2, <1>3
  <1>9. QED
    BY <1>1, <1>4, <1>5, <1>7, <1>8, BalanceFront

\* An unknown loop: its frame stays, and the `if` on top gets a condition.
LEMMA UnknownBalance ==
    ASSUME MaxIds \in Nat, NEW k \in Nat, NEW m \in Nat, NEW g \in [Nat -> Nat],
           Balanced(g, k, m), LoopUnknown
    PROVE  Balance'
  <1>1. PICK v \in Nat :
          /\ k = v + 1 /\ Top = frames[k] /\ Top \in Frames /\ Phases(Top, k)
    BY TopOwns DEF LoopUnknown, Testing
  <1>2. Top.phase = "test" /\ Top.kind = "while"
    BY <1>1 DEF LoopUnknown, Testing, Phases, Frames
  <1>3. /\ frames \in Seq(Frames) /\ Len(frames) = v + 1 /\ conds \in Seq(Conditions)
        /\ Len(conds) = m /\ counter \in 0 .. MaxIds
        /\ \A i \in 1 .. k : Phases(frames[i], i)
        /\ Reserve(frames, g, k) /\ g[k] <= m
    BY <1>1 DEF Balanced
  <1> DEFINE u == [Top EXCEPT !.phase = "unknown"]
             f == [Frame("if", "then") EXCEPT !.turn = 1]
             under == [frames EXCEPT ![Len(frames)] = u]
  <1>4. /\ frames' = Append(under, f) /\ conds' = Append(conds, <<counter, TRUE>>)
        /\ counter < MaxIds /\ counter' = counter + 1 /\ verdict' = "running"
    <2>1. frames[Len(frames)] = Top
      BY <1>1, <1>3
    <2>2. QED
      BY <2>1 DEF LoopUnknown, Testing, PushCondition
  <1>5. /\ u \in Frames /\ u.kind = "while" /\ u.phase = "unknown" /\ u.turn = Top.turn
        /\ Phases(u, k)
    BY <1>1, <1>2 DEF Frames, Phases
  <1>6. f \in Frames /\ Phases(f, k + 1)
    BY <1>1 DEF Frame, Frames, Phases
  <1> HIDE DEF u, f
  <1>7. under \in Seq(Frames) /\ Len(under) = k /\ Pushed(under, frames, v, u)
    <2>1. under \in Seq(Frames) /\ Len(under) = v + 1 /\ Pushed(under, frames, v, u)
      BY <1>3, <1>5, LastFacts
    <2>2. QED
      BY <1>1, <2>1
  <1> HIDE DEF under
  <1>8. under[k] = u /\ \A i \in 1 .. v : under[i] = frames[i]
    BY <1>1, <1>7 DEF Pushed
  <1>9. \A i \in 1 .. k : i = k \/ i \in 1 .. v
    BY <1>1
  <1>10. \A i \in 1 .. k : Phases(under[i], i)
    BY <1>3, <1>5, <1>8, <1>9
  <1>11. Reserve(under, g, k)
    <2>1. \A i \in 1 .. k : under[i].kind = frames[i].kind /\ under[i].turn = frames[i].turn
      BY <1>1, <1>2, <1>5, <1>8, <1>9
    <2>2. \A i \in 1 .. k : under[i].phase = "body" => frames[i].phase = "body"
      BY <1>5, <1>8, <1>9
    <2>3. \A i \in 1 .. k : \A j \in 1 .. i - 1 : j \in 1 .. k
      OBVIOUS
    <2>4. \A i \in 1 .. k : UnderIf(under, i) <=> UnderIf(frames, i)
      BY <2>1, <2>3 DEF UnderIf
    <2>5. ASSUME NEW i \in 1 .. k PROVE Owned(under, i) = 0 \/ Owned(frames, i) = 1
      BY <2>1, <2>2, <2>4 DEF Owned
    <2>6. ASSUME NEW i \in 1 .. k PROVE g[i - 1] + Owned(under, i) <= g[i]
      <3>1. g[i - 1] + Owned(frames, i) <= g[i]
        BY <1>3 DEF Reserve
      <3>2. g[i - 1] \in Nat /\ g[i] \in Nat
        OBVIOUS
      <3>3. Owned(under, i) \in 0 .. 1 /\ Owned(frames, i) \in 0 .. 1
        BY OwnsOne
      <3>4. Owned(under, i) <= Owned(frames, i)
        BY <2>5, <3>3
      <3>5. QED
        BY <3>1, <3>2, <3>3, <3>4
    <2>7. QED
      BY <2>6 DEF Reserve
  <1>12. frames' \in Seq(Frames) /\ Len(frames') = k + 1 /\ Pushed(frames', under, k, f)
    BY <1>4, <1>6, <1>7, AppendFacts
  <1>13. conds' \in Seq(Conditions) /\ Len(conds') = m + 1 /\ counter' \in 0 .. MaxIds
    BY <1>3, <1>4, PushBalance
  <1>14. g[k] + 1 <= m + 1 /\ m + 1 \in Nat /\ 1 \in 0 .. 1
    <2>1. g[k] \in Nat
      OBVIOUS
    <2>2. QED
      BY <1>3, <2>1
  <1>15. verdict' # "panic"
    BY <1>4
  <1>16. QED
    BY <1>6, <1>10, <1>11, <1>12, <1>13, <1>14, <1>15, OwnsOne, BalancePush

\* The second execution of the body: its condition takes the place of the first one's.
LEMMA AgainBalance ==
    ASSUME MaxIds \in Nat, NEW k \in Nat, NEW m \in Nat, NEW g \in [Nat -> Nat],
           Balanced(g, k, m), LoopUnknownAgain
    PROVE  Balance'
  <1>1. PICK v \in Nat :
          /\ k = v + 1 /\ Top = frames[k] /\ Top \in Frames /\ Phases(Top, k)
          /\ Reserve(frames, g, v) /\ g[v] + Owned(frames, k) <= m
          /\ (Top.kind = "if" => Owned(frames, k) = 1)
    BY TopOwns DEF LoopUnknownAgain
  <1>2. Top.kind = "if" /\ Top.turn = 1
    BY DEF LoopUnknownAgain
  <1>3. /\ frames \in Seq(Frames) /\ Len(frames) = v + 1 /\ conds \in Seq(Conditions)
        /\ Len(conds) = m /\ counter \in 0 .. MaxIds
        /\ \A i \in 1 .. k : Phases(frames[i], i)
    BY <1>1 DEF Balanced
  <1>4. g[v] + 1 <= m /\ g[v] \in Nat
    BY <1>1, <1>2
  <1>5. PICK r \in Nat : m = r + 1
    <2>1. m - 1 \in Nat /\ m = (m - 1) + 1
      BY <1>4
    <2>2. QED
      BY <2>1
  <1> DEFINE f == [Top EXCEPT !.turn = 2]
             under == Front(conds)
  <1>6. /\ conds' = Append(under, <<counter, TRUE>>)
        /\ frames' = [frames EXCEPT ![Len(frames)] = f]
        /\ counter < MaxIds /\ counter' = counter + 1 /\ verdict' = "running"
    <2>1. conds # << >>
      BY <1>3, <1>5
    <2>2. frames[Len(frames)] = Top
      BY <1>1, <1>3
    <2>3. QED
      BY <2>1, <2>2 DEF LoopUnknownAgain, AtStatement
  <1>7. f \in Frames /\ Phases(f, v + 1)
    BY <1>1, <1>2 DEF Frames, Phases
  <1> HIDE DEF f
  <1>8. under \in Seq(Conditions) /\ Len(under) = r
    BY <1>3, <1>5, FrontFacts
  <1> HIDE DEF under
  <1>9. conds' \in Seq(Conditions) /\ Len(conds') = m /\ counter' \in 0 .. MaxIds
    <2>1. conds' \in Seq(Conditions) /\ Len(conds') = r + 1 /\ counter' \in 0 .. MaxIds
      BY <1>3, <1>6, <1>8, PushBalance
    <2>2. QED
      BY <1>5, <2>1
  <1>10. frames' \in Seq(Frames) /\ Len(frames') = v + 1 /\ Pushed(frames', frames, v, f)
    <2> DEFINE t == [frames EXCEPT ![Len(frames)] = f]
    <2>1. t \in Seq(Frames) /\ Len(t) = v + 1 /\ Pushed(t, frames, v, f)
      BY <1>3, <1>7, LastFacts
    <2>2. QED
      BY <1>6, <2>1
  <1>11. \A i \in 1 .. v : Phases(frames[i], i)
    BY <1>1, <1>3
  <1>12. 1 \in 0 .. 1 /\ verdict' # "panic"
    BY <1>6
  <1>13. QED
    BY <1>1, <1>4, <1>7, <1>9, <1>10, <1>11, <1>12, OwnsOne, BalancePush

\* The end of an unknown loop: two frames go, and the condition of one.
LEMMA EndUnknownBalance ==
    ASSUME NEW k \in Nat, NEW m \in Nat, NEW g \in [Nat -> Nat],
           Balanced(g, k, m), EndUnknownLoop
    PROVE  Balance'
  <1>1. PICK v \in Nat :
          /\ k = v + 1 /\ Top = frames[k] /\ Phases(Top, k)
          /\ Reserve(frames, g, v) /\ g[v] + Owned(frames, k) <= m
          /\ (Top.kind = "if" => Owned(frames, k) = 1)
    BY TopOwns DEF EndUnknownLoop
  <1>2. /\ Top.kind = "if" /\ Top.turn = 2 /\ PopCondition /\ counter' = counter
        /\ frames' = Front(Front(frames)) /\ verdict' = "running"
    BY DEF EndUnknownLoop, AtStatement
  <1>3. /\ frames \in Seq(Frames) /\ Len(frames) = v + 1 /\ conds \in Seq(Conditions)
        /\ Len(conds) = m /\ counter \in 0 .. MaxIds
        /\ \A i \in 1 .. k : Phases(frames[i], i)
    BY <1>1 DEF Balanced
  <1>4. PICK x \in Nat : v = x + 1
    <2>1. k > 1
      BY <1>1, <1>2 DEF Phases
    <2>2. v - 1 \in Nat /\ v = (v - 1) + 1
      BY <1>1, <2>1
    <2>3. QED
      BY <2>2
  <1>5. Front(frames) \in Seq(Frames) /\ Len(Front(frames)) = v /\ Popped(Front(frames), frames, v)
    BY <1>3, FrontFacts
  <1>6. frames' \in Seq(Frames) /\ Len(frames') = x /\ Popped(frames', Front(frames), x)
    <2>1. Len(Front(frames)) = x + 1
      BY <1>4, <1>5
    <2>2. QED
      BY <1>2, <1>5, <2>1, FrontFacts
  <1>7. Popped(frames', frames, x)
    <2>1. \A i \in 1 .. x : i \in 1 .. v
      BY <1>4
    <2>2. Popped(Front(frames), frames, v) /\ Popped(frames', Front(frames), x)
      BY <1>5, <1>6
    <2>3. QED
      BY <2>1, <2>2, Zenon DEF Popped
  <1>8. \A i \in 1 .. x : i \in 1 .. v /\ i \in 1 .. k
    BY <1>1, <1>4
  <1>9. Reserve(frames, g, x) /\ \A i \in 1 .. x : Phases(frames[i], i)
    BY <1>1, <1>3, <1>8 DEF Reserve
  <1>10. g[x] <= g[v]
    <2>1. v \in 1 .. v /\ v - 1 = x
      BY <1>4
    <2>2. g[x] + Owned(frames, v) <= g[v]
      BY <1>1, <2>1 DEF Reserve
    <2>3. Owned(frames, v) \in 0 .. 1
      BY OwnsOne
    <2>4. g[x] \in Nat /\ g[v] \in Nat
      OBVIOUS
    <2>5. QED
      BY <2>2, <2>3, <2>4
  <1>11. PICK m2 \in Nat : /\ conds' \in Seq(Conditions) /\ Len(conds') = m2
                           /\ m2 + 1 = m \/ (m = 0 /\ m2 = 0)
    BY <1>2, <1>3, PopBalance
  <1>12. g[x] <= m2
    <2> DEFINE p == g[x]
               q == g[v]
    <2>1. p \in Nat /\ q \in Nat /\ q + 1 <= m /\ p <= q
      BY <1>1, <1>2, <1>10
    <2> HIDE DEF p, q
    <2>2. m2 + 1 = m \/ (m = 0 /\ m2 = 0)
      BY <1>11
    <2>3. p <= m2
      BY <2>1, <2>2
    <2>4. QED
      BY <2>3 DEF p
  <1>13. counter' \in 0 .. MaxIds /\ verdict' # "panic"
    BY <1>2, <1>3
  <1>14. QED
    BY <1>6, <1>7, <1>9, <1>11, <1>12, <1>13, BalanceFront

LEMMA SameBalance ==
    ASSUME NEW k \in Nat, NEW m \in Nat, NEW g \in [Nat -> Nat], Balanced(g, k, m),
           UNCHANGED <<conds, counter, frames>>, verdict' # "panic"
    PROVE  Balance'
  <1>1. Balanced(g, k, m)'
    BY DEF Balanced
  <1>2. QED
    BY <1>1 DEF Balance

\* Turning the last condition into its negation never finds the list of conditions
\* empty, wherever loops stand, although loops outside of ifs take more out of it than
\* they put in (execute_conditional_statement, execute.rs:2668).
THEOREM ElseNeverPanics ==
    ASSUME SignalAssignmentAssumption
    PROVE  Spec => []ElseFindsItsCondition
  <1>1. MaxIds \in Nat
    BY DEF SignalAssignmentAssumption
  <1>2. Init => Balance
    <2> SUFFICES ASSUME Init PROVE Balance
      OBVIOUS
    <2> DEFINE z == [i \in Nat |-> 0]
    <2>1. z \in [Nat -> Nat] /\ z[0] = 0 /\ Reserve(frames, z, 0)
      BY DEF Reserve
    <2> HIDE DEF z
    <2>2. /\ frames \in Seq(Frames) /\ Len(frames) = 0
          /\ conds \in Seq(Conditions) /\ Len(conds) = 0
          /\ counter \in 0 .. MaxIds /\ verdict # "panic"
      BY <1>1 DEF Init
    <2>3. Balanced(z, 0, 0)
      BY <2>1, <2>2 DEF Balanced
    <2>4. QED
      BY <2>1, <2>3 DEF Balance
  <1>3. Balance /\ [Next]_vars => Balance'
    <2> SUFFICES ASSUME Balance, [Next]_vars PROVE Balance'
      OBVIOUS
    <2>1. PICK k \in Nat, m \in Nat : \E g \in [Nat -> Nat] : Balanced(g, k, m)
      BY DEF Balance
    <2>2. PICK g \in [Nat -> Nat] : Balanced(g, k, m)
      BY <2>1
    <2>3. ASSUME NEW s \in Signals, Assign(s) PROVE Balance'
      <3>1. UNCHANGED <<conds, counter, frames>> /\ verdict' # "panic"
        BY <2>3 DEF Assign, AtStatement
      <3>2. QED
        BY <2>2, <3>1, SameBalance
    <2>4. CASE EnterIf \/ EnterWhile
      BY <1>1, <2>2, <2>4, EnterBalance
    <2>5. CASE EnterElse
      BY <1>1, <2>2, <2>5, ElseBalance
    <2>6. CASE EndIf \/ LoopFalse
      BY <2>2, <2>6, EndBalance
    <2>7. CASE LoopTrue
      BY <2>2, <2>7, LoopTrueBalance
    <2>8. CASE EndIteration
      BY <2>2, <2>8, EndIterationBalance
    <2>9. CASE LoopUnknown
      BY <1>1, <2>2, <2>9, UnknownBalance
    <2>10. CASE LoopUnknownAgain
      BY <1>1, <2>2, <2>10, AgainBalance
    <2>11. CASE EndUnknownLoop
      BY <2>2, <2>11, EndUnknownBalance
    <2>12. CASE EndTemplate \/ UNCHANGED vars
      <3>1. UNCHANGED <<conds, counter, frames>> /\ verdict' # "panic"
        BY <2>2, <2>12 DEF EndTemplate, vars, Balanced
      <3>2. QED
        BY <2>2, <3>1, SameBalance
    <2>13. QED
      BY <2>3, <2>4, <2>5, <2>6, <2>7, <2>8, <2>9, <2>10, <2>11, <2>12 DEF Next
  <1>4. Balance => ElseFindsItsCondition
    BY DEF Balance, Balanced, ElseFindsItsCondition
  <1>5. QED
    BY <1>2, <1>3, <1>4, PTL DEF Spec
=============================================================================
