--------------------------- MODULE WitnessThreads ---------------------------
(***************************************************************************)
(* The C++ witness calculator that the compiler generates for a circuit   *)
(* with `parallel` components, as a set of threads.  Every component of   *)
(* the circuit has a body (the statements of its template); a component   *)
(* whose last input has been stored is run, by a call or, when it is      *)
(* parallel, by a thread of its own, and a load of an output of a         *)
(* parallel component waits until that output is set.  At most MaxThread  *)
(* threads are meant to run: a thread gives its slot back while it waits. *)
(*                                                                         *)
(* Left out: the values of the signals (only whether each was stored),    *)
(* arrays of components (a load or store names one component), the        *)
(* decrements of inputCounter (module InputStatus).                       *)
(***************************************************************************)
EXTENDS Naturals, Integers, Sequences, FiniteSets

CONSTANTS
  Comps,      \* the components of the circuit, also the names of the threads
  Main,       \* the main component; its thread is the one of main()
  Father,     \* Father[c]: the component whose body creates c
  Parallel,   \* Parallel[c]: c runs in a thread of its own
  Outputs,    \* Outputs[c]: the number of output signals of c
  Body,       \* Body[c]: the statements of c, see Statement
  MaxThread,  \* the slots (NMUTEXES, 32, in calcwit.hpp)
  None        \* nobody holds a mutex

Statement ==
  [op : {"create", "input", "load"}, cmp : Comps, out : Nat] \cup
  [op : {"output"}, out : Nat]

ASSUME CircuitAssumption ==
  /\ Main \in Comps /\ None \notin Comps
  /\ MaxThread \in Nat \ {0}
  /\ Parallel \in [Comps -> BOOLEAN]
  /\ \A c \in Comps : Body[c] \in Seq(Statement) /\ Outputs[c] \in Nat

Children(c) == {d \in Comps \ {Main} : Father[d] = c}
Stores(c, d) == {k \in 1..Len(Body[c]) : Body[c][k].op = "input" /\ Body[c][k].cmp = d}
Inputs(d) == Cardinality(Stores(Father[d], d))

\* (a fault: the run of the component is started by its first input)
FirstInput(c, k) == \A j \in Stores(c, Body[c][k].cmp) : j >= k

\* The status Last that the compiler gives to a store in straight-line code.
IsLast(c, k) == \A j \in Stores(c, Body[c][k].cmp) : j <= k

\* Statement k of c calls the run of a component: as its last input is stored and it
\* is not parallel, or as it is created and has no inputs.
Calls(c, k) ==
  \/ Body[c][k].op = "input" /\ IsLast(c, k) /\ ~ Parallel[Body[c][k].cmp]
  \/ Body[c][k].op = "create" /\ Inputs(Body[c][k].cmp) = 0

\* The circuits considered: a template assigns all its outputs, and loads an output
\* of a component that is not parallel after the statement that runs it.
ASSUME OutputsAssumption ==
  \A c \in Comps :
    /\ \A o \in 1..Outputs[c] : \E k \in 1..Len(Body[c]) :
         Body[c][k].op = "output" /\ Body[c][k].out = o
    /\ \A k \in 1..Len(Body[c]) :
         Body[c][k].op = "load" /\ ~ Parallel[Body[c][k].cmp] =>
           /\ Body[c][k].out \in 1..Outputs[Body[c][k].cmp]
           /\ \E j \in 1..(k - 1) : Calls(c, j) /\ Body[c][j].cmp = Body[c][k].cmp

\* ... and a component is used only by the template that declares it, which creates it
\* once, before it stores any of its inputs.
ASSUME CreationAssumption ==
  /\ IsFiniteSet(Comps)
  /\ \A d \in Comps \ {Main} : Father[d] \in Comps
  /\ \A c \in Comps : \A k \in 1..Len(Body[c]) :
       /\ Body[c][k].op # "output" => Body[c][k].cmp \in Children(c)
       /\ Body[c][k].op = "create" =>
            \A j \in 1..Len(Body[c]) :
              Body[c][j].op = "create" /\ Body[c][j].cmp = Body[c][k].cmp => j = k
       /\ Body[c][k].op = "input" =>
            \E j \in 1..(k - 1) : Body[c][j].op = "create" /\ Body[c][j].cmp = Body[c][k].cmp

VARIABLES
  stack,      \* per thread, the calls it is in: a sequence of frames, the top last
  asleep,     \* per thread: "no", or the condition variable it sleeps on
  numThread,  \* the slots in use
  holder,     \* mutexes[out] of each component: the thread that holds it, or None
  isSet,      \* outputIsSet of each component
  written,    \* the outputs whose value is in signalValues
  stored,     \* how many inputs of each component have been stored
  created, started, finished, released,   \* components and threads
  misread     \* outputs read before they were written

vars == <<stack, asleep, numThread, holder, isSet, written, stored, created,
          started, finished, released, misread>>

\* A frame: the component that runs, the statement it is at, the step inside
\* that statement, and whether the code is the _run_parallel variant.
Frame(c, par) == [cmp |-> c, at |-> 1, step |-> "run", par |-> par, out |-> 0]

Top(t) == stack[t][Len(stack[t])]
Running(t) == stack[t] # <<>> /\ asleep[t] = "no"
AtStatement(t) == Running(t) /\ Top(t).at <= Len(Body[Top(t).cmp])
Current(t) == Body[Top(t).cmp][Top(t).at]
ReplaceTop(q, f) == [k \in 1..Len(q) |-> IF k = Len(q) THEN f ELSE q[k]]
WithTop(t, f) == [stack EXCEPT ![t] = ReplaceTop(@, f)]
Advance(t) == WithTop(t, [Top(t) EXCEPT !.at = @ + 1, !.step = "run"])
AtStep(t, s) == WithTop(t, [Top(t) EXCEPT !.step = s])

\* The circuit: main_create, then main_run on the thread of main().
Init ==
  /\ stack = [c \in Comps |-> IF c = Main THEN <<Frame(Main, Parallel[Main])>> ELSE <<>>]
  /\ asleep = [c \in Comps |-> "no"]
  /\ numThread = 0
  /\ holder = [c \in Comps |-> [o \in 1..Outputs[c] |-> None]]
  /\ isSet = [c \in Comps |-> {}]
  /\ written = [c \in Comps |-> {}]
  /\ stored = [c \in Comps |-> 0]
  /\ created = {Main} /\ started = {Main} /\ finished = {} /\ released = {}
  /\ misread = {}

-----------------------------------------------------------------------------
(* Slots: numThreadMutex, numThread and the condition variable ntcvs.      *)

\* (a fault: the slot is given back without waking anybody)
GiveSlotSilently == numThread' = numThread - 1 /\ UNCHANGED asleep

\* numThread-- under its mutex, then notify_one: one sleeper wakes, if any.
GiveSlot ==
  /\ numThread' = numThread - 1
  /\ LET sleepers == {t \in Comps : asleep[t] = "slot"}
     IN IF sleepers = {} THEN UNCHANGED asleep
        ELSE \E t \in sleepers : asleep' = [asleep EXCEPT ![t] = "no"]

\* ntcvs.wait(numThread < maxThread) finds no slot: the thread sleeps, and keeps
\* the mutex of the output it is reading.
WaitSlot(t) ==
  /\ Running(t) /\ Top(t).step \in {"start", "slot"}
  /\ numThread >= MaxThread
  /\ asleep' = [asleep EXCEPT ![t] = "slot"]
  /\ UNCHANGED <<stack, numThread, holder, isSet, written, stored, created,
                 started, finished, released, misread>>

\* (a fault: the slot is taken without looking whether one is free)
TakeAnySlot(t) ==
  /\ Running(t) /\ Top(t).step = "start"
  /\ numThread' = numThread + 1
  /\ stack' = Advance(t)
  /\ UNCHANGED <<asleep, holder, isSet, written, stored, created, started,
                 finished, released, misread>>

\* The slot a father takes for the thread it has already started.
TakeStartSlot(t) ==
  /\ Running(t) /\ Top(t).step = "start"
  /\ numThread < MaxThread
  /\ numThread' = numThread + 1
  /\ stack' = Advance(t)
  /\ UNCHANGED <<asleep, holder, isSet, written, stored, created, started,
                 finished, released, misread>>

-----------------------------------------------------------------------------
(* The statements of a body.                                               *)

\* X_create or X_create_parallel; a component without inputs is run at once, by
\* a call of X_run, whatever it is.
Create(t) ==
  /\ AtStatement(t) /\ Top(t).step = "run" /\ Current(t).op = "create"
  /\ LET d == Current(t).cmp
     IN /\ created' = created \cup {d}
        /\ stack' = [Advance(t) EXCEPT ![t] =
                       IF Inputs(d) = 0 THEN Append(@, Frame(d, FALSE)) ELSE @]
  /\ UNCHANGED <<asleep, numThread, holder, isSet, written, stored, started,
                 finished, released, misread>>

\* A store to an input of a subcomponent; the last one runs the subcomponent,
\* in a new thread when it is parallel, by a call when it is not.
StoreInput(t) ==
  /\ AtStatement(t) /\ Top(t).step = "run" /\ Current(t).op = "input"
  /\ LET c == Top(t).cmp
         d == Current(t).cmp
     IN /\ stored' = [stored EXCEPT ![d] = @ + 1]
        /\ \/ ~ IsLast(c, Top(t).at) /\ stack' = Advance(t) /\ UNCHANGED started
           \/ /\ IsLast(c, Top(t).at) /\ Parallel[d]
              /\ started' = started \cup {d}
              /\ stack' = [AtStep(t, "start") EXCEPT ![d] = <<Frame(d, TRUE)>>]
           \/ /\ IsLast(c, Top(t).at) /\ ~ Parallel[d]
              /\ stack' = [Advance(t) EXCEPT ![t] = Append(@, Frame(d, FALSE))]
              /\ UNCHANGED started
  /\ UNCHANGED <<asleep, numThread, holder, isSet, written, created, finished,
                 released, misread>>

\* The value of an output is read from signalValues.
Read(d, o) == misread' = IF o \in written[d] THEN misread ELSE misread \cup {<<d, o>>}

\* A load of an output of a component that is not parallel reads it at once.
LoadPlain(t) ==
  /\ AtStatement(t) /\ Top(t).step = "run" /\ Current(t).op = "load"
  /\ ~ Parallel[Current(t).cmp]
  /\ Read(Current(t).cmp, Current(t).out)
  /\ stack' = Advance(t)
  /\ UNCHANGED <<asleep, numThread, holder, isSet, written, stored, created,
                 started, finished, released>>

\* A load of an output of a parallel component first gives the slot back ...
LoadGivesSlot(t) ==
  /\ AtStatement(t) /\ Top(t).step = "run" /\ Current(t).op = "load"
  /\ Parallel[Current(t).cmp]
  /\ GiveSlot
  /\ stack' = AtStep(t, "lock")
  /\ UNCHANGED <<holder, isSet, written, stored, created, started, finished,
                 released, misread>>

\* (a fault: the load takes the mutex and does not look at outputIsSet)
LoadLocksBlindly(t) ==
  /\ AtStatement(t) /\ Top(t).step = "lock"
  /\ LET d == Current(t).cmp
         o == Current(t).out
     IN /\ holder[d][o] = None
        /\ holder' = [holder EXCEPT ![d][o] = t]
        /\ stack' = AtStep(t, "slot")
  /\ UNCHANGED <<asleep, numThread, isSet, written, stored, created, started,
                 finished, released, misread>>

\* ... then takes the mutex of the output and, while the output is not set,
\* sleeps on its condition variable without the mutex ...
LoadLocks(t) ==
  /\ AtStatement(t) /\ Top(t).step = "lock"
  /\ LET d == Current(t).cmp
         o == Current(t).out
     IN /\ holder[d][o] = None
        /\ \/ /\ o \in isSet[d]
              /\ holder' = [holder EXCEPT ![d][o] = t]
              /\ stack' = AtStep(t, "slot") /\ UNCHANGED asleep
           \/ /\ o \notin isSet[d]
              /\ asleep' = [asleep EXCEPT ![t] = "output"]
              /\ UNCHANGED <<holder, stack>>
  /\ UNCHANGED <<numThread, isSet, written, stored, created, started, finished,
                 released, misread>>

\* (a fault: the slot given back before the wait is not taken again)
LoadReadsUncounted(t) ==
  /\ AtStatement(t) /\ Top(t).step = "slot"
  /\ numThread < MaxThread
  /\ holder' = [holder EXCEPT ![Current(t).cmp][Current(t).out] = None]
  /\ Read(Current(t).cmp, Current(t).out)
  /\ stack' = Advance(t)
  /\ UNCHANGED <<asleep, numThread, isSet, written, stored, created, started, finished, released>>

\* (a fault: the loop over the outputs stays at the one it has read)
LoadReadsAgain(t) ==
  /\ AtStatement(t) /\ Top(t).step = "slot"
  /\ numThread < MaxThread
  /\ numThread' = numThread + 1
  /\ holder' = [holder EXCEPT ![Current(t).cmp][Current(t).out] = None]
  /\ Read(Current(t).cmp, Current(t).out)
  /\ stack' = AtStep(t, "run")
  /\ UNCHANGED <<asleep, isSet, written, stored, created, started, finished, released>>

\* ... then takes a slot again, and leaves the block: both locks are released.
LoadReads(t) ==
  /\ AtStatement(t) /\ Top(t).step = "slot"
  /\ numThread < MaxThread
  /\ numThread' = numThread + 1
  /\ holder' = [holder EXCEPT ![Current(t).cmp][Current(t).out] = None]
  /\ Read(Current(t).cmp, Current(t).out)
  /\ stack' = Advance(t)
  /\ UNCHANGED <<asleep, isSet, written, stored, created, started, finished, released>>

\* A store to an output of the component itself.
StoreOutput(t) ==
  /\ AtStatement(t) /\ Top(t).step = "run" /\ Current(t).op = "output"
  /\ written' = [written EXCEPT ![Top(t).cmp] = @ \cup {Current(t).out}]
  /\ stack' = IF Top(t).par THEN AtStep(t, "set") ELSE Advance(t)
  /\ UNCHANGED <<asleep, numThread, holder, isSet, stored, created, started,
                 finished, released, misread>>

\* outputIsSet[o] = true under the mutex of the output, then notify_all.
SetOutput(c, o) ==
  /\ holder[c][o] = None
  /\ isSet' = [isSet EXCEPT ![c] = @ \cup {o}]
  /\ asleep' = [t \in Comps |->
       IF asleep[t] = "output" /\ Current(t).cmp = c /\ Current(t).out = o
       THEN "no" ELSE asleep[t]]

\* The _run_parallel variant tells whoever waits for the output it stored.
NotifyOutput(t) ==
  /\ AtStatement(t) /\ Top(t).step = "set"
  /\ SetOutput(Top(t).cmp, Current(t).out)
  /\ stack' = Advance(t)
  /\ UNCHANGED <<numThread, holder, written, stored, created, started, finished,
                 released, misread>>

-----------------------------------------------------------------------------
(* The end of a run.                                                       *)

AtEnd(t, s) == Running(t) /\ Top(t).at > Len(Body[Top(t).cmp]) /\ Top(t).step = s

\* (a fault: the threads of the subcomponents are not joined)
EndNow(t) ==
  /\ AtEnd(t, "run")
  /\ stack' = AtStep(t, IF Top(t).par THEN "outputs" ELSE "release")
  /\ UNCHANGED <<asleep, numThread, holder, isSet, written, stored, created,
                 started, finished, released, misread>>

\* sbct[i].join() for every subcomponent that has a thread.
Join(t) ==
  /\ AtEnd(t, "run")
  /\ Children(Top(t).cmp) \cap started \subseteq finished
  /\ stack' = AtStep(t, IF Top(t).par THEN "outputs" ELSE "release")
  /\ UNCHANGED <<asleep, numThread, holder, isSet, written, stored, created,
                 started, finished, released, misread>>

\* A parallel run sets every output, stored or not ...
SetAllOutputs(t) ==
  /\ AtEnd(t, "outputs") /\ Top(t).out < Outputs[Top(t).cmp]
  /\ SetOutput(Top(t).cmp, Top(t).out + 1)
  /\ stack' = WithTop(t, [Top(t) EXCEPT !.out = @ + 1])
  /\ UNCHANGED <<numThread, holder, written, stored, created, started, finished,
                 released, misread>>

\* ... and gives its slot back.
EndGivesSlot(t) ==
  /\ AtEnd(t, "outputs") /\ Top(t).out = Outputs[Top(t).cmp]
  /\ GiveSlot
  /\ stack' = AtStep(t, "release")
  /\ UNCHANGED <<holder, isSet, written, stored, created, started, finished,
                 released, misread>>

\* The memory of the subcomponents is released and the call returns.
Release(t) ==
  /\ AtEnd(t, "release")
  /\ released' = released \cup (Children(Top(t).cmp) \cap created)
  /\ stack' = [stack EXCEPT ![t] = SubSeq(@, 1, Len(@) - 1)]
  /\ finished' = IF Len(stack[t]) = 1 THEN finished \cup {t} ELSE finished
  /\ UNCHANGED <<asleep, numThread, holder, isSet, written, stored, created,
                 started, misread>>

Step(t) ==
  \/ WaitSlot(t) \/ TakeStartSlot(t)
  \/ Create(t) \/ StoreInput(t) \/ LoadPlain(t) \/ StoreOutput(t) \/ NotifyOutput(t)
  \/ LoadGivesSlot(t) \/ LoadLocks(t) \/ LoadReads(t)
  \/ Join(t) \/ SetAllOutputs(t) \/ EndGivesSlot(t) \/ Release(t)

\* run() has returned: the witness is written.
Done == Main \in finished /\ UNCHANGED vars

Next == (\E t \in Comps : Step(t)) \/ Done

Spec == Init /\ [][Next]_vars
FairSpec == Spec /\ WF_vars(\E t \in Comps : Step(t))

-----------------------------------------------------------------------------
(* Properties.                                                             *)

\* The shape of the state; numThread never exceeds the slots there are, and may be
\* negative, as the thread of main() gives back a slot it never took.
TypeOK ==
  /\ \A t \in Comps : asleep[t] \in {"no", "slot", "output"}
  /\ \A t \in Comps : \A k \in 1..Len(stack[t]) :
       stack[t][k].step \in {"run", "start", "lock", "slot", "set", "outputs", "release"}
  /\ numThread \in Int /\ numThread <= MaxThread
  /\ finished \subseteq started /\ started \subseteq created
  /\ \A c \in Comps : \A o \in 1..Outputs[c] : holder[c][o] \in Comps \cup {None}

\* A component runs only when every one of its inputs has been stored: its code
\* reads them without looking at any counter.
RunsWithInputs ==
  \A t \in Comps : \A k \in 1..Len(stack[t]) :
    LET c == stack[t][k].cmp IN c # Main => stored[c] = Inputs(c)

\* No load reads an output before the value is in signalValues.
ReadsSeeValues == misread = {}

\* A mutex or a flag of a component is not touched after its father freed it: no
\* thread is inside a component that is released, or waits for one.
NoUseAfterRelease ==
  \A t \in Comps : \A k \in 1..Len(stack[t]) :
    LET f == stack[t][k]
    IN /\ f.cmp \notin released
       /\ f.at <= Len(Body[f.cmp]) /\ f.step \in {"start", "lock", "slot"} =>
            Body[f.cmp][f.at].cmp \notin released

\* What numThread counts: a thread between its father's start and its own end,
\* less the threads that have given their slot back.  The thread of main() has
\* no slot: it gives one back at its first wait all the same.
Waiting == {t \in Comps : stack[t] # <<>> /\ Top(t).step \in {"lock", "slot"}}
Unpaid == {t \in Comps : stack[t] # <<>> /\ Top(t).step = "start"}
Over == {t \in started : t \in finished \/ (Len(stack[t]) = 1 /\ Top(t).step = "release")}
SlotsAccounted ==
  numThread = Cardinality(started \ {Main}) - Cardinality(Unpaid)
              - Cardinality(Waiting)
              - Cardinality({t \in Over : t # Main \/ Parallel[Main]})

\* No wake-up is lost: when a slot is free, a thread that sleeps for one is not
\* alone: another thread is awake and about to take a slot or to end a step.
NoForgottenSleeper ==
  (\E t \in Comps : asleep[t] = "slot") /\ numThread < MaxThread =>
    \E t \in Comps : Running(t) /\ Top(t).step \in {"start", "slot"}

\* The calculator never stops before the witness is complete: as long as run()
\* has not returned, some thread can take a step.
NeverStuck == Main \in finished \/ ENABLED (\E t \in Comps : Step(t))

\* Every run of the calculator ends with every component run and every thread
\* joined, when the system keeps scheduling threads that can move.
Completes == <>(Main \in finished /\ started = finished)
=============================================================================
