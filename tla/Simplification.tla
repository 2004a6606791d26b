-------------------------- MODULE Simplification --------------------------
(* The constraint simplification behind --O1 and --O2 (constraint_list and   *)
(* simplification_utils): equalities between signals, then equalities with   *)
(* constants, then linear constraints are turned into substitutions of the   *)
(* signals that may go; a thread pool works on the clusters of constraints   *)
(* that share signals, whose results arrive in any order; rounds follow while*)
(* the substitutions make new linear constraints; what remains is numbered   *)
(* again as the witness.                                                     *)
EXTENDS Algebra, SequencesExt

CONSTANTS Outputs, PublicInputs, PrivateInputs, \* how many signals 1, 2, ... are each of these
          MaxSignal,        \* the last signal
          CustomSignals,    \* the signals of custom gates
          Circuits,         \* sequences of constraints to simplify
          Settings,         \* flags: [flagS |-> --O1, rounds |-> .., old |-> ..]
          LessOccurrences   \* clusters of at least so many constraints use the counting heuristic (350)

SignalIds == 1 .. MaxSignal
Forbidden == (0 .. Outputs + PublicInputs) \cup CustomSignals

VARIABLES circuit, settings, pc,
          constants, linear, nonLinear,     \* constraints not yet treated
          clusters,                         \* the jobs of the thread pool, by number
          aux, found,                       \* their results: constraints by number, substitutions
          lconst,                           \* linear constraints that stay
          frames,                           \* substitutions to apply to the non-linear constraints
          log, deleted,                     \* every substitution made, the signals it removed
          storage, mapped, rounds,          \* stored constraints, where a signal occurs, rounds left
          witness, privateInWitness
vars == <<circuit, settings, pc, constants, linear, nonLinear, clusters, aux, found, lconst, frames,
          log, deleted, storage, mapped, rounds, witness, privateInWitness>>
untouched == <<circuit, settings>>
final == <<witness, privateInWitness>>

Sorted(S) == SetToSortSeq(S, LAMBDA a, b : a < b)
MaxOf(S) == CHOOSE x \in S : \A y \in S : y <= x
MinOf(S) == CHOOSE x \in S : \A y \in S : x <= y
Equation(from, to) == Linear(Sum2(Scaled(P - 1, (from :> 1)), to))

-----------------------------------------------------------------------------
(* build_clusters: constraints that share a signal, directly or not, form a  *)
(* cluster; the cluster of an earlier constraint moves into the later one's. *)
NoClusters == [arena |-> <<>>, home |-> [s \in SignalIds |-> 0]]
(* (a fault: the signals of a moved cluster still point to where it was) *)
AddToClustersStale(st, k) ==
    LET dest == Len(st.arena) + 1
        joined == {st.home[s] : s \in Signals(k)} \ {0}
    IN  IF k = Empty THEN st
        ELSE [arena |-> [i \in 1 .. dest |->
                           IF i = dest THEN <<k>> \o FlattenSeq([j \in 1 .. Cardinality(joined) |-> st.arena[Sorted(joined)[j]]])
                           ELSE IF i \in joined THEN <<>> ELSE st.arena[i]],
              home  |-> [s \in SignalIds |-> IF s \in Signals(k) THEN dest ELSE st.home[s]]]
AddToClusters(st, k) ==
    LET dest == Len(st.arena) + 1
        joined == {st.home[s] : s \in Signals(k)} \ {0}
    IN  IF k = Empty THEN st
        ELSE [arena |-> [i \in 1 .. dest |->
                           IF i = dest THEN <<k>> \o FlattenSeq([j \in 1 .. Cardinality(joined) |-> st.arena[Sorted(joined)[j]]])
                           ELSE IF i \in joined THEN <<>> ELSE st.arena[i]],
              home  |-> [s \in SignalIds |-> IF s \in Signals(k) \/ st.home[s] \in joined THEN dest ELSE st.home[s]]]
Clusters(constraints) ==
    LET arena == FoldLeft(AddToClusters, NoClusters, constraints).arena
    IN  [i \in {j \in DOMAIN arena : arena[j] # <<>>} |-> arena[i]]

(* eq_cluster_simplification: every signal of the cluster that may go becomes *)
(* the smallest one that must stay, or the smallest of all.                   *)
Rename(from, to) == [from |-> from, to |-> (to :> 1)]
EqCluster(cluster) ==
    LET signals == UNION {Signals(cluster[i]) : i \in DOMAIN cluster}
        remains == signals \cap Forbidden
        right   == IF remains # {} THEN MinOf(remains) ELSE MinOf(signals)
        kept    == Sorted(remains \ {right})
    IN  [subs |-> {Rename(s, right) : s \in signals \ (remains \cup {right})},
         cons |-> IF Len(cluster) = 1 /\ Cardinality(remains) = 2 THEN cluster
                  ELSE [i \in DOMAIN kept |-> Linear((kept[i] :> P - 1) @@ (right :> 1))]]

-----------------------------------------------------------------------------
(* full_simplification of one cluster. `st` holds the substitutions made, not *)
(* yet divided by their coefficient, the constraints kept, how many untreated *)
(* constraints have each signal and the signals in the order of their removal.*)
(* (a fault: the two right-hand sides are not brought to one coefficient) *)
MergeUnscaled(new, old) == Linear(Clean(Scaled(P - 1, Sum2(new.to, Scaled(P - 1, old.to)))))
Merge(new, old) ==
    Linear(Clean(Scaled(P - 1, Sum2(Scaled(old.coef, new.to), Scaled((P - 1) * new.coef, old.to)))))

Takeable(k) == Signals(k) \ Forbidden
TakeSignal3(st, k) == MaxOf(Takeable(k))
TakeSignal4(st, k) ==
    LET gone == Takeable(k) \cap DOMAIN st.subs
        least == {s \in Takeable(k) : \A t \in Takeable(k) : st.occurs[s] <= st.occurs[t]}
    IN  IF gone # {} THEN MinOf(gone) ELSE MaxOf(least)

RECURSIVE Treat(_, _, _)
Treat(st, k, counting) ==
    IF k = Empty THEN st
    ELSE IF Takeable(k) = {} THEN [st EXCEPT !.lconst = Append(@, k)]
    ELSE LET out == IF counting THEN TakeSignal4(st, k) ELSE TakeSignal3(st, k)
             new == NotNormalized(k, out)
         IN  IF out \in DOMAIN st.subs
             THEN Treat(st, Merge(new, st.subs[out]), counting)
             ELSE [st EXCEPT !.subs = (out :> new) @@ @, !.order = <<out>> \o @]

Discount(st, k) == [st EXCEPT !.occurs = [s \in DOMAIN @ |-> IF s \in Signals(k) THEN @[s] - 1 ELSE @[s]]]
NoSubstitutions == [subs |-> [s \in {} |-> <<>>], lconst |-> <<>>, order |-> <<>>, occurs |-> [s \in {} |-> 0]]

(* The constraints are taken from the back of the list. *)
Process3(constraints) ==
    FoldLeft(LAMBDA st, k : Treat(st, k, FALSE), NoSubstitutions, Reverse(constraints))

(* First the signals of one constraint only, then the constraints that are left. *)
TreatUnique(work, s) ==
    IF \E j \in DOMAIN work.vec : s \in Signals(work.vec[j])
    THEN LET at == CHOOSE j \in DOMAIN work.vec : s \in Signals(work.vec[j])
             st == Discount(work.st, work.vec[at])
         IN  [vec |-> [work.vec EXCEPT ![at] = Empty],
              st  |-> [st EXCEPT !.subs = (s :> NotNormalized(work.vec[at], s)) @@ @, !.order = <<s>> \o @]]
    ELSE work
Process4(constraints) ==
    LET count == [s \in UNION {Takeable(constraints[i]) : i \in DOMAIN constraints} |->
                    Cardinality({i \in DOMAIN constraints : s \in Signals(constraints[i])})]
        unique == Sorted({s \in DOMAIN count : count[s] = 1})
        first == FoldLeft(TreatUnique, [vec |-> constraints, st |-> [NoSubstitutions EXCEPT !.occurs = count]], unique)
    IN  FoldLeft(LAMBDA st, k : Treat(Discount(st, k), k, TRUE), first.st, Reverse(first.vec))

Normalized(subs) ==
    LET keys == Sorted(DOMAIN subs)
        inverses == MultiInv([i \in DOMAIN keys |-> subs[keys[i]].coef])
        at(s) == CHOOSE i \in DOMAIN keys : keys[i] = s
    IN  [s \in DOMAIN subs |-> Scaled(inverses[at(s)], subs[s].to)]

(* Replaces in turn, in the order given, what earlier ones of it replaced. *)
(* (a fault: the counting heuristic's substitutions resolved in key order) *)
NonOverlappingByKey(subs, order) ==
    LET Add(done, s) ==
          LET apply == Sorted(DOMAIN subs[s] \cap DOMAIN done)
          IN  (s :> FoldLeft(LAMBDA e, t : RawSubstitution(e, [from |-> t, to |-> done[t]]), subs[s], apply)) @@ done
    IN  FoldLeft(Add, [s \in {} |-> NoTerms], Sorted(DOMAIN subs))
NonOverlapping(subs, order) ==
    LET Add(done, s) ==
          LET apply == Sorted(DOMAIN subs[s] \cap DOMAIN done)
          IN  (s :> FoldLeft(LAMBDA e, t : RawSubstitution(e, [from |-> t, to |-> done[t]]), subs[s], apply)) @@ done
    IN  FoldLeft(Add, [s \in {} |-> NoTerms], order)


FullSimplification(constraints) ==
    LET counting == Len(constraints) >= LessOccurrences /\ ~settings.old
        st == IF counting THEN Process4(constraints) ELSE Process3(constraints)
        done == NonOverlapping(Normalized(st.subs), IF counting THEN st.order ELSE Sorted(DOMAIN st.subs))
    IN  [subs |-> {[from |-> s, to |-> done[s]] : s \in DOMAIN done}, cons |-> st.lconst]

-----------------------------------------------------------------------------
(* Substitutions are applied one signal after the other. *)
Encoded(subs) == [s \in {x.from : x \in subs} |-> (CHOOSE x \in subs : x.from = s).to]
ApplyEncoded(k, enc) ==
    FoldLeft(LAMBDA c, s : ApplySubstitution(c, [from |-> s, to |-> enc[s]]),
             k, Sorted(Signals(k) \cap DOMAIN enc))
FastSubstitution(k, enc) ==
    IF Signals(k) \cap DOMAIN enc = {} THEN k ELSE Fix(ApplyEncoded(k, enc))
Substituted(list, enc) == [i \in DOMAIN list |-> FastSubstitution(list[i], enc)]

Restricted(enc, S) == [s \in DOMAIN enc \cap S |-> enc[s]]
Occurring(list) == UNION {Signals(list[i]) : i \in DOMAIN list}
(* The signals the non-linear constraints have once renamed, less the constants *)
RelevantUnrenamed(renames, deletes) == Occurring(nonLinear) \ DOMAIN deletes
Relevant(renames, deletes) ==
    {IF s \in DOMAIN renames THEN CHOOSE t \in DOMAIN renames[s] : TRUE ELSE s : s \in Occurring(nonLinear)}
      \ DOMAIN deletes
NoFrame == [s \in {} |-> NoTerms]
-----------------------------------------------------------------------------
(* map_tree sorts the constraints of the circuit by their form. *)
Init == /\ circuit \in Circuits
        /\ settings \in Settings
        /\ pc = "equalities"
        /\ constants = SelectSeq(circuit, IsConstantEquality)
        /\ clusters = Clusters(SelectSeq(circuit, LAMBDA k : ~IsConstantEquality(k) /\ IsEquality(k)))
        /\ linear = SelectSeq(circuit, LAMBDA k : ~IsConstantEquality(k) /\ ~IsEquality(k) /\ IsLinear(k))
        /\ nonLinear = SelectSeq(circuit, LAMBDA k : ~IsLinear(k))
        /\ aux = [i \in DOMAIN clusters |-> <<>>]
        /\ found = {} /\ lconst = <<>> /\ frames = <<>>
        /\ log = {} /\ deleted = {}
        /\ storage = <<>> /\ mapped = [s \in 0 .. MaxSignal |-> {}]
        /\ rounds = settings.rounds
        /\ witness = <<>> /\ privateInWitness = 0

(* A worker of eq_simplification sends the result of its cluster. *)
EqualityCluster(id) ==
    /\ pc = "equalities"
    /\ LET result == EqCluster(clusters[id])
       IN  /\ aux' = [aux EXCEPT ![id] = result.cons]
           /\ found' = found \cup result.subs
    /\ clusters' = [i \in DOMAIN clusters \ {id} |-> clusters[i]]
    /\ UNCHANGED <<untouched, pc, constants, linear, nonLinear, lconst, frames, log, deleted, storage, mapped, rounds, final>>

(* All have arrived: the constraints in the order of the clusters. *)
EqualitiesDone ==
    /\ pc = "equalities" /\ DOMAIN clusters = {}
    /\ LET enc == Encoded(found) ids == Sorted(DOMAIN aux)
       IN  /\ lconst' = FlattenSeq([i \in DOMAIN ids |-> aux[ids[i]]])
           /\ linear' = Substituted(linear, enc)
           /\ constants' = Substituted(constants, enc)
           /\ deleted' = DOMAIN enc
           /\ frames' = <<Restricted(enc, Occurring(nonLinear))>>
           /\ log' = found
    /\ found' = {} /\ aux' = <<>>
    /\ pc' = "constants"
    /\ UNCHANGED <<untouched, nonLinear, clusters, storage, mapped, rounds, final>>

(* constant_eq_simplification: a signal of two of the equalities gets the     *)
(* last one's value.                                                          *)
ConstantsDone ==
    LET free == SelectSeq(constants, LAMBDA k : Takeable(k) # {})
        signal(k) == MaxOf(Signals(k))
        subs == [i \in DOMAIN free |-> ClearSignal(free[i], signal(free[i]))]
        enc == [s \in {subs[i].from : i \in DOMAIN subs} |->
                  subs[MaxOf({i \in DOMAIN subs : subs[i].from = s})].to]
        left == Substituted(linear, enc)
    IN  /\ pc = "constants"
        /\ log' = log \cup {subs[i] : i \in DOMAIN subs}
        /\ deleted' = deleted \cup DOMAIN enc
        /\ frames' = Append(frames, enc)
        /\ LET stay == lconst \o SelectSeq(constants, LAMBDA k : Takeable(k) = {})
           IN  lconst' = IF settings.flagS THEN stay \o left ELSE stay
        /\ clusters' = IF settings.flagS THEN <<>> ELSE Clusters(left)
        /\ pc' = IF settings.flagS THEN "storage" ELSE "linear"
        /\ constants' = <<>> /\ linear' = <<>>
        /\ UNCHANGED <<untouched, nonLinear, aux, found, storage, mapped, rounds, final>>

(* A worker of linear_simplification sends the result of its cluster; the     *)
(* kept constraints are in the order of arrival.                              *)
LinearCluster(id) ==
    /\ pc \in {"linear", "round"}
    /\ LET result == FullSimplification(clusters[id])
       IN  /\ linear' = linear \o result.cons
           /\ found' = found \cup result.subs
    /\ clusters' = [i \in DOMAIN clusters \ {id} |-> clusters[i]]
    /\ UNCHANGED <<untouched, pc, constants, nonLinear, aux, lconst, frames, log, deleted, storage, mapped, rounds, final>>

(* The substitutions of signals that no non-linear constraint has are dropped. *)
LinearDone ==
    /\ pc = "linear" /\ DOMAIN clusters = {}
    /\ LET enc == Restricted(Encoded(found), Relevant(frames[1], frames[2]))
       IN  /\ frames' = Append(frames, enc)
           /\ lconst' = Substituted(lconst \o linear, enc)
    /\ log' = log \cup found
    /\ deleted' = deleted \cup {x.from : x \in found}
    /\ found' = {} /\ linear' = <<>>
    /\ pc' = "storage"
    /\ UNCHANGED <<untouched, constants, nonLinear, clusters, aux, storage, mapped, rounds, final>>

(* obtain_and_simplify_non_linear: every frame applied to every non-linear    *)
(* constraint; those that became linear start the rounds.                     *)
NextRoundAlways(list) == ~settings.flagS /\ rounds' > 0   \* (a fault: a round with nothing to do)
NextRound(list) == ~settings.flagS /\ rounds' > 0 /\ Len(list) > 0
BuildStorage ==
    /\ pc = "storage"
    /\ LET done == [i \in DOMAIN nonLinear |-> Fix(FoldLeft(ApplyEncoded, nonLinear[i], frames))]
           stored == SelectSeq(done, LAMBDA k : ~IsLinear(k))
           other == SelectSeq(done, IsLinear)
       IN  /\ storage' = stored
           /\ mapped' = [s \in 0 .. MaxSignal |-> {i \in DOMAIN stored : s \in Signals(stored[i])}]
           /\ rounds' = IF rounds > 0 THEN rounds - 1 ELSE 0
           /\ IF NextRound(other)
              THEN pc' = "round" /\ clusters' = Clusters(other) /\ linear' = <<>>
              ELSE pc' = "finish" /\ clusters' = <<>> /\ linear' = other
    /\ nonLinear' = <<>> /\ frames' = <<>>
    /\ UNCHANGED <<untouched, constants, aux, found, lconst, log, deleted, final>>

(* apply_substitution_to_map, one substitution: the constraints listed for its *)
(* signal; all of them are listed from then on for the signals it brings.      *)
(* (a fault: constraints that become linear are not collected) *)
ApplyToMapUncollected(st, sub) ==
    LET ids == st.mapped[sub.from]
        stored == [i \in DOMAIN st.storage |-> IF i \in ids THEN Fix(ApplySubstitution(st.storage[i], sub))
                                               ELSE st.storage[i]]
    IN  [storage |-> stored,
         mapped |-> [s \in DOMAIN st.mapped |-> IF s \in DOMAIN sub.to THEN st.mapped[s] \cup ids ELSE st.mapped[s]],
         linear |-> st.linear]
ApplyToMap(st, sub) ==
    LET ids == st.mapped[sub.from]
        stored == [i \in DOMAIN st.storage |-> IF i \in ids THEN Fix(ApplySubstitution(st.storage[i], sub))
                                               ELSE st.storage[i]]
    IN  [storage |-> stored,
         mapped |-> [s \in DOMAIN st.mapped |-> IF s \in DOMAIN sub.to THEN st.mapped[s] \cup ids ELSE st.mapped[s]],
         linear |-> st.linear \cup {i \in ids : IsLinear(stored[i])}]

RoundDone ==
    /\ pc = "round" /\ DOMAIN clusters = {}
    /\ LET st == FoldLeft(ApplyToMap, [storage |-> storage, mapped |-> mapped, linear |-> {}], SetToSeq(found))
           ids == Sorted(st.linear)
           next == [i \in DOMAIN ids |-> st.storage[ids[i]]]
       IN  /\ lconst' = Substituted(lconst \o linear, Encoded(found))
           /\ storage' = [i \in DOMAIN st.storage |-> IF i \in st.linear THEN Empty ELSE st.storage[i]]
           /\ mapped' = st.mapped
           /\ rounds' = rounds - 1
           /\ IF NextRound(next)
              THEN pc' = "round" /\ clusters' = Clusters(next) /\ linear' = <<>>
              ELSE pc' = "finish" /\ clusters' = <<>> /\ linear' = next
    /\ log' = log \cup found
    /\ deleted' = deleted \cup {x.from : x \in found}
    /\ found' = {}
    /\ UNCHANGED <<untouched, constants, nonLinear, aux, frames, final>>

(* rebuild_witness: the signals that stay move to the places that are free *)
(* (a fault: the place a signal leaves is not free for the next) *)
RebuiltLost(unused) ==
    LET Place(st, s) ==
          IF s \in unused THEN [st EXCEPT !.free = Append(@, s)]
          ELSE IF st.free = <<>> THEN [st EXCEPT !.map = (s :> s) @@ @]
          ELSE [map |-> (s :> Head(st.free)) @@ st.map, free |-> Tail(st.free)]
    IN  FoldLeft(Place, [map |-> [x \in {} |-> 0], free |-> <<>>], [i \in 1 .. MaxSignal + 1 |-> i - 1]).map
Rebuilt(unused) ==
    LET Place(st, s) ==
          IF s \in unused THEN [st EXCEPT !.free = Append(@, s)]
          ELSE IF st.free = <<>> THEN [st EXCEPT !.map = (s :> s) @@ @]
          ELSE [map |-> (s :> Head(st.free)) @@ st.map, free |-> Append(Tail(st.free), s)]
    IN  FoldLeft(Place, [map |-> [x \in {} |-> 0], free |-> <<>>], [i \in 1 .. MaxSignal + 1 |-> i - 1]).map

(* Everything left is stored, empty constraints and unused signals are        *)
(* dropped.                                                                   *)
Finish ==
    LET all == storage \o linear \o [i \in DOMAIN lconst |-> Fix(lconst[i])]
        listed == {s \in SignalIds : mapped[s] # {}} \cup Occurring(linear) \cup Occurring(lconst)
        unused == deleted \cup {s \in SignalIds : s \notin Forbidden /\ s \notin listed}
        inputs == Outputs + 1 .. Outputs + PublicInputs + PrivateInputs
    IN  /\ pc = "finish"
        /\ storage' = SelectSeq(all, LAMBDA k : k # Empty)
        /\ deleted' = unused
        /\ witness' = Rebuilt(unused)
        /\ privateInWitness' = PrivateInputs - Cardinality(unused \cap inputs)
        /\ pc' = "done"
        /\ linear' = <<>> /\ lconst' = <<>>
        /\ UNCHANGED <<untouched, constants, nonLinear, clusters, aux, found, frames, log, mapped, rounds>>

Next == \/ \E id \in DOMAIN clusters : EqualityCluster(id) \/ LinearCluster(id)
        \/ EqualitiesDone \/ ConstantsDone \/ LinearDone \/ BuildStorage \/ RoundDone \/ Finish
Done == pc = "done" /\ UNCHANGED vars
Spec == Init /\ [][Next \/ Done]_vars

-----------------------------------------------------------------------------
TypeOK ==
    /\ pc \in {"equalities", "constants", "linear", "storage", "round", "finish", "done"}
    /\ deleted \subseteq SignalIds
    /\ rounds \in 0 .. settings.rounds
    /\ \A x \in log \cup found : x.from \in SignalIds /\ \A s \in DOMAIN x.to : x.to[s] \in Field
    /\ privateInWitness \in 0 .. PrivateInputs

(* No two workers have a constraint on the same signal: what each removes is  *)
(* of no interest to the others (build_clusters, constraint_simplification).  *)
WorkersApart ==
    \A i, j \in DOMAIN clusters : i # j => Occurring(clusters[i]) \cap Occurring(clusters[j]) = {}

Points == {p \in [0 .. MaxSignal -> Field] : p[0] = 1}
Solutions(list) == {p \in Points : \A i \in DOMAIN list : HoldsAt(list[i], p)}
Pending == FlattenSeq([i \in 1 .. Len(Sorted(DOMAIN clusters)) |-> clusters[Sorted(DOMAIN clusters)[i]]])
AuxPending == FlattenSeq([i \in 1 .. Len(Sorted(DOMAIN aux)) |-> aux[Sorted(DOMAIN aux)[i]]])
Equations == LET all == SetToSeq(log \cup found) IN [i \in DOMAIN all |-> Equation(all[i].from, all[i].to)]

(* At every moment the constraints left together with the substitutions made  *)
(* have the solutions of the circuit, whichever worker has answered.          *)
SystemEquivalent ==
    Solutions(constants \o linear \o nonLinear \o lconst \o storage \o Pending \o AuxPending \o Equations)
      = Solutions(circuit)

Projected(solutions, S) == {[s \in S |-> p[s]] : p \in solutions}
Kept == (0 .. MaxSignal) \ deleted
(* The constraints that are written say of the signals that stay exactly what *)
(* the circuit says of them (simplification.md: the statement is unchanged).  *)
StatementKept ==
    pc = "done" => Projected(Solutions(storage), Kept) = Projected(Solutions(circuit), Kept)

(* The substitutions made in one go do not mention a signal removed by then   *)
(* (debug_substitution_check): the frames can be applied one after the other. *)
SubstitutionsClosed ==
    /\ pc # "equalities" => \A x \in log : x.from \in deleted
    /\ \A x \in found : DOMAIN Clean(x.to) \cap (deleted \cup {y.from : y \in found}) = {}

(* The witness is numbered without gaps, in the order of the signals, keeps   *)
(* the public signals and every signal of a constraint that is written.       *)
WitnessNumbered ==
    pc = "done" =>
        /\ DOMAIN witness = Kept
        /\ {witness[s] : s \in Kept} = 0 .. Cardinality(Kept) - 1
        /\ \A s, t \in Kept : s < t => witness[s] < witness[t]
        /\ Forbidden \cup Occurring(storage) \subseteq Kept
        /\ privateInWitness = Cardinality(Kept \cap (Outputs + PublicInputs + 1 .. Outputs + PublicInputs + PrivateInputs))

(* With rounds to spare, --O2 leaves no linear constraint with a signal that  *)
(* may go (simplification.md: as many rounds as needed).                      *)
NoLinearLeft ==
    (pc = "done" /\ ~settings.flagS /\ rounds > 0) =>
        \A i \in DOMAIN storage : IsLinear(storage[i]) => Signals(storage[i]) \subseteq Forbidden

(* The rounds end by themselves: each one that leads to another removes a     *)
(* signal, so --O2 needs no bound (its number of rounds is the largest usize).*)
RoundsEnd ==
    (pc = "done" /\ settings.rounds > Cardinality(SignalIds \ Forbidden) + 2) => rounds > 0
=============================================================================
