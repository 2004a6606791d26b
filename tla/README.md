# A TLA+ model of ganc-trade: the ob chain and the circom compiler

The repository holds two programs of substance.  `obd` (`src/sw/ob`) is a Cosmos SDK
application with two modules of its own that keep money: an order book (`x/dex`) and
the settlement layer of a zk exchange (`x/zkdex`).  `circom` (`src/circom`) is the
compiler, in Rust, that turns the circuits of such an exchange into constraints (an
r1cs file) and into a program that computes witnesses.  This directory models both,
checks them with TLC and proves theorems about them with TLAPS.

The README has two parts for the system and its modules, the chain and the compiler,
and then the runs, the theorems and what is left out of both.

## The chain

| Part | State | Operations |
| --- | --- | --- |
| `x/zkdex` | state root, deposit, withdraw and batch records, used nullifiers, processed deposits | `Deposit`, `SubmitBatchProof`, `ClaimWithdraw` |
| `x/dex` | markets, orders, order book entries | `PlaceOrder` (escrow and matching), `RegisterPairs`, `CleanOrders`, create/update/delete of markets and orders, purge at the end of a block |
| `x/bank` (SDK) | balances, with one account per module | transfers between users and module accounts |
| `x/backend` | none | `Deposit`: coins into its module account |
| `x/ob`, `x/zproofs` | params only | none |
| genesis | | export and import of every store |
| app, `cmd/obd` | wiring: the stub verifier, the address prefix `cosmos`, module accounts | |

The modules do not call each other.  They share the bank, each through an account
of its own, and they share the order of transactions: a block runs its
transactions one after the other, each one atomically (an error or a panic drops
its writes), then the end blockers.  So the interleavings that matter are those of
*whole messages* of different users and relayers over the same stores, of matching
steps within one message, and of blocks: height is part of the ids of deposits and
orders.  What is hard here:

* ids that are not unique: an order id is `market-height-creator[:6]` and the first
  six letters of every address are `cosmos`; a deposit id ends in four random bytes;
* two stores that say the same thing and can disagree: the book and the orders, the
  processed flag of a deposit record and `DepositProcessed`;
* relayers that prepare batches on the same root, repeat ids or nullifiers within a
  batch or across batches; claims sent twice;
* the escrow of a module as one pool, so that what one user is paid too much is taken
  from another;
* a payment that fails in the middle of matching.

What makes each part correct: `x/zkdex` settles each deposit, withdrawal and
nullifier once, along one chain of roots, and pays each withdrawal once to its
destination; `x/dex` never leaves a crossed book, takes the best price first, keeps
book, orders and escrow in agreement, and purges filled orders.

`PROJECT.json` lists every hazard with its line and the properties aimed at it.

### Modules of the chain

| Module | What it is |
| --- | --- |
| `Bank` | what the modules use of the SDK: transfers and keyed stores (external) |
| `Zkdex` | `x/zkdex`: one action per message handler |
| `Settlement` | what `x/zkdex` promises: deposits settled once, debts paid once |
| `ZkdexSettlement` | the refinement mapping from `Zkdex` to `Settlement` |
| `MCZkdex` | small instances of the three above |
| `ZkdexProofs` | theorems about `Zkdex` and their proofs: types, nullifiers, deposits, withdrawals, payouts, the chain of roots, the escrow, and that `Zkdex` implements `Settlement` |
| `Dex` | `x/dex`: message handlers, the matching loop, the end blocker |
| `MCDex` | small instances of `Dex` |
| `DexProofs` | theorems about `Dex`: types, and of the order book no crossing, price priority, fresh candidates, book and orders, the escrow, matching |
| `BankProofs` | lemmas about transfers, keyed stores and sums over finite sets, used by the proofs above |

Definitions named after a fault (`ValidByRecordFlag`, `IsAny`, ...) stand before the
definition they are a faulty form of and are used by no specification: putting one in
its place must break a property, which shows that the property depends on that code.

#### Zkdex

The variables are the stores of `Keeper` (`zkdex/keeper/keeper.go`), the bank and the
height.  `nullifierUsed` and `depositProcessed` are the sets of keys that hold true.
A handler that returns an error changes nothing, so its guards are the conditions of
the action: `ValidUpdate` is `validateSettlementUpdate` with its two helpers
`ValidDeposits` and `ValidWithdrawals`, and `ApplyUpdate` is `applySettlementUpdate`.

* `Deposit` draws its suffix from `RandomSuffixes`, a constant set that stands for the
  4 random bytes; a set of one element makes every deposit of a user in a block collide.
* An amount is a text.  It is modelled by a number of `1/Scale` parts of a unit, one text
  for each number; `ParseCoin` truncates to whole units as `ParseCoinNormalized` does,
  and a text that does not parse is one of less than a unit (both are refused).
* The JSON forms of the verifier's input and of the bundle, and events, are left out.
  The public inputs stay: the bundle's must equal those that the chain derives.
* `Accept` is the answer of the wired `StubProofVerifier`.  No property relies on the
  verifier to refuse anything, so all of them hold for whatever a relayer submits.
* `Claimed` withdrawals, `Owner` and `DestinationHash` of a withdrawal are stored or
  checked for emptiness only; of these only the emptiness of ids, destination and
  nullifier is kept.

#### Settlement

The contract has open deposits, the deposits that each batch settled, debts, paid
withdrawals and spent nullifiers, and three steps: `Open`, `Settle`, `Pay`.  The mapping
takes a deposit as open while it is on record and not in `DepositProcessed`, *not*
while the flag of its record is unset: a later deposit with the same id resets that
flag.  A deposit under the id of a settled one moves coins into the pool and opens
nothing, which the contract's `Open` allows and the code does.  `batches` is mapped to
the deposit lists of the batch records, so that a code that settled a deposit twice, or
settled it without processing it, would not implement the contract.

#### Dex

The variables are the three stores, the bank, the height and `tx`, the `PlaceOrder` in
progress.  `PlaceOrder` locks the escrow and collects the candidates; `Trade` is one
iteration of the loop of `MatchOrders` (both payments of `SettleAssets`, the maker's
order, the book); `Abort` is an error or a panic in it and restores the stores
that `tx.undo` holds; `FinishOrder` is the end of `MatchOrders`.  Taking the loop one
trade at a time lets properties speak of the states between two trades.  No other
action is enabled while `tx` runs.

* An order id is `<<market, height>>`: that is what the text distinguishes.
* The order in which equal prices are taken is left open, as `sort.Slice` leaves it.
* `KeyRank` is the order of ids in the store, which decides who is purged first.
* `OnePerBlock` restricts the environment to one order per market and block, so that ids
  do not collide.
* Prices and quantities are natural numbers; price 0 asks for a MARKET order.

## The compiler

A compilation is a sequence of phases, each in a crate of its own, that hand one data
structure to the next.

| Phase (crate) | State | Operations | Modules |
| --- | --- | --- | --- |
| reading (`parser`, `program_structure`) | stack of includes, graph of files, archive of definitions | take a file from the stack, check its pragmas, follow its includes, merge | `ProgramFiles`, `Comments` |
| sugar (`parser`) | body of a template, fresh names and counters | check and replace anonymous components, then tuples | `SugarRemover`, `SugarMeaning` |
| static analyses (`type_analysis`) | a tag per variable | analyse a statement, merge branches, repeat a loop | `KnownAnalysis` |
| execution (`constraint_generation`, `circom_algebra`) | variables, signals, tags, components, conditions, constraints, notes about the code | execute one statement; initialize a component; call a template | `AssignmentState`, `SignalAssignment`, `Component`, `Tags`, `Expressions`, `Execution`, `Templates` |
| circuit (`constraint_generation`, `dag`) | executed templates, one DAG node for each | share, number, export to the simplifier and to the code generator | `Dag` |
| simplification (`constraint_list`, `circom_algebra`) | constraints, substitutions, clusters given to a thread pool | phases of `--O1`, rounds of `--O2` | `Algebra`, `Simplification` |
| r1cs file (`constraint_writers`) | a file with a place holder for each section's length | write, end and overwrite sections; read back | `R1csFile` |
| code (`compiler`) | body, instances of functions, marks of stores, buckets | clean, instantiate, mark, create components | `SugarCleaner`, `CleanMeaning`, `FunctionInstances`, `InputStatus`, `ComponentCreation` |
| generated C++ calculator | threads, slots, mutexes, conditions, `outputIsSet` | store an input, load an output, start and join threads | `WitnessThreads`, `WitnessProofs` |

The compiler itself has one thread but for the workers of the simplifier; the programs
it generates have a thread for each `parallel` component.  What is hard:

* a template is *executed while it is compiled*: both branches of a condition that is not
  known are executed one after the other, loops may run never, once or twice, and the
  bookkeeping (conditions of assignments, counters of missing inputs, tags, numbers
  noted for expressions) must say what is true of every execution of the final program;
* a component accepts assignments before it exists, and replays them later;
* one template shared by many components: offsets, numbers and marks are those of
  one instance and must fit all of them;
* rewritings that must keep the order of effects and the scopes of variables;
* clusters that several threads simplify while they share nothing but an order of signals;
* a file whose lengths are known only after they are written, and may be cut anywhere;
* threads that hold a mutex or a slot while they wait for another.

What makes the phases correct: every included file is read once and every error
reported at its place; a rewritten body means what it meant; the accepted templates can
be executed; a signal is assigned exactly once in every run; outputs are read after all
inputs; a tag that is visible was carried by all that was assigned; the simplified
system has the solutions of the original one; every signal and component has one number
and all parts of the output agree on it; what is written is read back; the generated
program runs every subcomponent once, with its inputs, and ends.

### Modules of the compiler

Each module translates the functions that its entries in `PROJECT.json` name, in terms
of the phase's own data with texts and positions taken away.

* `AssignmentState` - the state of a signal (never, under conditions, always assigned) and
  `perform_signal_assignment`.  `SignalAssignment` adds the list of conditions that
  `if`, `else` and loops push and pop.  The template is chosen step by step; `path` and
  `writes` hold the decisions of a real run beside what the compiler believes.
* `Component` - a component with signals and buses as inputs: preinitialization, the three
  lists of delayed assignments, their replay when the tagged inputs are complete, counters
  of what is missing.  `perform_assign` and `execute_component` are its actions.
* `Tags` - a signal array, an array of buses and their field; `carried` remembers the
  tags of every expression assigned, which the code forgets.
* `Algebra`, `Expressions` - the representation of linear and quadratic expressions by
  coefficients, and every operator on them; `MeaningKept` compares each result at a point
  with the value that the documentation gives.
* `SyntaxTree`, `KnownAnalysis`, `Execution`, `Templates` - the static analysis, the
  execution that notes a number for each expression it knows, the filters that put these
  numbers into the code, and an evaluator of the code (`Run`) as the meaning of a template.
* `Dag` - from executed templates to nodes, numbered signals, clusters of components and
  the list of the simplifier, one action for each template executed, inserted and
  exported.
* `Simplification` - equalities, constants and linear constraints become substitutions;
  workers answer in any order; `StatementKept` and `SystemEquivalent` compare sets of
  solutions over a small field.
* `R1csFile` - bytes in a file, a position, place holders; `Fail` ends the writer after any
  write; the reader is a function of the bytes.
* `SugarRemover` with `SugarMeaning`, `SugarCleaner` with `CleanMeaning` - a rewriting and an
  executor of bodies before and after it.  The rewriting is written as the recursive
  functions of the code are; an executor yields what a body does, in order.
* `FunctionInstances` - the queue of calls to be instantiated, the inference of return types
  with its set of open calls, and the linking of calls to instances.
* `InputStatus` - the marks found by one backward visit, and every execution of the code with
  them in C++, in C++ with sanity checks and in WASM.
* `ComponentCreation` - the clusters of `Dag` turned into buckets, and the two texts that are
  generated for a bucket, executed.
* `WitnessThreads` - the generated calculator.  A component's statements are creates, stores
  of inputs, loads and stores of outputs; a thread has a stack of calls; each lock,
  wait, notification and join of the generated text is a step.
* `ProgramFiles` - `run_parser` and the merger, one action for each file read and one for
  each check at the end.  `Comments` - the automaton that blanks comments.

The instances of the compiler's modules are in `MCFrontEnd` (files, comments and sugar; the
projects in `MCProgramFiles`), `MCInterpreter` (execution), `MCCircuit` (DAG, simplification and
file), `MCCodeGeneration` (the compiler crate; the functions in `MCFunctionInstances`) and
`MCWitnessThreads`.  `Algebra`, `Expressions`, `SugarMeaning`, `CleanMeaning`, `Execution` and
others use recursive operators: they are for TLC only.  The others are proved about:
`WitnessThreads` in `WitnessProofs` (what loads see, the order of runs and of releases, slots and
sleepers), `SignalAssignment` in `SignalProofs`, `Component` in `ComponentProofs`, `Tags` in
`TagsProofs`, and `Interpreter`, which joins these three, in `InterpreterProofs`.

## Runs

Twelve runs, one for each question.  Nine hold and three show a departure of the code
from its documents.

| Run | Instance | Shows |
| --- | --- | --- |
| `zkdex_deposits` | one user, two heights, two suffixes, amounts of half a unit and one and a half, lists of up to two deposits, two batches | `DepositsSettledOnce`, `RootChain`, `EscrowBacksRecords`, `ImplementsSettlement`, `TypeOK` |
| `zkdex_withdrawals` | two users and a destination that is nobody, two ids, two nullifiers and the empty one, lists of up to two | `NullifierBinding`, `WithdrawalsSettledOnce`, `PayoutIsClaim` |
| `dex_trading` | two users, one order per block, three orders, prices up to 2, quantities up to 2 with zero, MARKET SELL, one purge per block | `BookMatchesOrders`, `EscrowCoversBook`, `MatchingNeverFails`, `FilledArePurged`, `TypeOK` |
| `dex_burst` | two users, any number of orders per block, MARKET orders of both sides; one of the users creates, rewrites and deletes orders and markets | `NoCrossedBook`, `CandidatesStayFresh`, `PricePriority` |
| `front_end` | projects, texts and templates (below) | `FilesReadRight`, `ReadingEnds`, `CommentsBlanked`, `SugarRemoved` |
| `interpreter` | templates, signals, components, wires and expressions (below) | `SignalsAssignedOnce`, `ComponentsComplete`, `TagsLikeParameters`, `ExpressionsMeanTheirOperators`, `ExecutionSound`, `CodeSound` |
| `circuit` | executed templates, constraints and files (below) | `CircuitNumbered`, `SimplifiedEquivalent`, `FileReadsBack` |
| `code_generation` | bodies, functions, stores and fathers (below) | `CleanedSame`, `CallsHaveInstances`, `InputsTrigger`, `ComponentsPlaced` |
| `witness_threads` | five components in three levels under a parallel main component, two slots | `RunsWithInputs`, `ReadsSeeValues`, `NoUseAfterRelease`, `SlotsAccounted`, `NoForgottenSleeper`, `Completes`, `TypeOK` |
| `dex_refund` | as `dex_trading`, LIMIT only | **violated**: `NoIdleEscrow` |
| `dex_market_buy` | as `dex_trading`, with MARKET BUY | **violated**: `EscrowCoversBook` |
| `signal_twice` | `interpreter`, with a loop under an unknown `if` | **violated**: `LoopsAssignOnce` |

### The runs of the chain

Bounds.  `MaxHeight` bounds the height; two heights tell ids of one block from those of
another, and four let three orders rest and trade.  Two prices are the least that
can be better and worse, two quantities the least that fill partly.  Two batches
compete for a root, two deposits or withdrawals in a list repeat an id or a
nullifier.  `InitialBalance` lets a user run out.  `zkdex` runs may deadlock and say
so: with the last height reached and every id used no message is accepted, and users
may stop.  `Dex` never deadlocks: its height stays at the bound and blocks go on.

`zkdex` has no liveness property: nothing makes a relayer submit or a user claim.

Fairness of `FilledArePurged`.  Weak fairness of `EndBlock`: consensus keeps producing
blocks and the end blocker runs in each.  Weak fairness of `MatchStep`: a transaction
that a block has started runs to its end.  Nothing is assumed about users.  They
place orders in the first three blocks only (the bound), so the purge's limit is set to
one to let filled orders wait behind others.

### The runs of the compiler

The phases of the compiler run one after the other and share no state, so a run holds
several of them side by side: its module has an INSTANCE of each (but of the largest, which
most of them extend), and the variable `running` says to which of them a behaviour belongs; the variables
that one has not are "off".  `MCInterpreter` joins `Templates` and `Expressions` to `Interpreter`,
which is a module of its own because it has no recursive operator and theorems can be
about it.  A property of such a run joins what the modules promise, and
the names in it are those of the modules:

| Property | Parts | Instance |
| --- | --- | --- |
| `FilesReadRight` | `ProgramFiles`: `TypeOK`, `ReadOnce`, `ReadsTheNeeded`, `ReportsTheLacking`, `AcceptedRight` | a main file and three others in two directories, every graph of a few includes, pragmas and custom templates in every combination, every other fault |
| `ReadingEnds` | `ProgramFiles`: `Ends` | the same |
| `CommentsBlanked` | `Comments`: `TypeOK`, `SamePlaces`, `CommentsBlanked`, `RefusedRight` | every text of up to six characters of five kinds |
| `SugarRemoved` | `SugarMeaning`: `TypeOK`, `NothingLeft`, `AcceptedIffLegal`, `SameMeaning` | 1842 bodies, legal and not, in branches and nested loops |
| `SignalsAssignedOnce` | `SignalAssignment`: `TypeOK`, `NeverAssignedTwice`, `AssignedMeansAlways`; with loops under `if`s `ElseFindsItsCondition` | one signal, up to five `if`s and loops nested three deep, three writes |
| `ComponentsComplete` | `Component`: `TypeOK`, `OutputsNeedInputs`, `CountersDoNotWrap`, `DelayedAssignmentsApplied`, `TagsOfOneInstance`; under `if`s `DelayedAssignmentsApplied`, `PlacesWrittenOnce` | an array of two, a tagged signal and a bus with a tagged field, six writes; an anonymous component assigned in both branches of unknown `if`s |
| `TagsLikeParameters` | `Tags`: `TypeOK`, `VisibleTagsCarried`, `AgreedTagsInherited`, `ReadableMeansComplete`, `TagValuedBeforeWire`, `ExportedTagsCarried`, `ValuesOnlyLost`; for buses the second and the last | one tag, two values; a signal array of three, or a bus with a field of two |
| `ExpressionsMeanTheirOperators` | `Expressions`: `TypeOK`, `MeaningKept`, `ErrorsForUndefined` | sequences of three operators over the field of 7 elements, at two points, with shift amounts of three and more that do not fit a `usize` |
| `ExecutionSound` | `Templates`: `TypeOK`, `AcceptedExecutes`, `KnownIsNumber`, `LoopsStable`, `ValuesAgree`, `ConstraintsHold` | 7700 templates, loops in loops and under unknown `if`s among them, three inputs, field of 7 elements |
| `CodeSound` | `Templates`: `CodeKept`, `EffectsKept` | the same |
| `CircuitNumbered` | `Dag`: 14 properties of sharing, numbering, addresses and lists | 128 circuits of up to 16 components, with instances that differ in the tags of a field only |
| `SimplifiedEquivalent` | `Simplification`: `TypeOK`, `WorkersApart`, `SubstitutionsClosed`, `SystemEquivalent`, `NoLinearLeft`, `RoundsEnd`, `StatementKept`, `WitnessNumbered` | three or four constraints over the field of 3 elements, four settings, every order of answers |
| `FileReadsBack` | `R1csFile`: `TypeOK`, `ReadsBack`, `SectionsTile`, `ReadWithinLength`, `FinishedReadable` | 88 circuits, bytes of four values, stopped after any write |
| `CleanedSame` | `CleanMeaning`: `TypeOK`, `Translatable`, `SameMeaning`, `SameCalls` | statements of every kind in blocks, branches, loops and returns |
| `CallsHaveInstances` | `FunctionInstances`: `TypeOK`, `NeverStops`, `CallsLinked`, `ReturnsFit` | 620 programs of two templates and functions that call each other and themselves |
| `InputsTrigger` | `InputStatus`: `TypeOK`, `RunsWithAllInputs`, `RunsAtLastInput`, `AssertsHold` | 8762 templates, stores of no, one and two inputs, every execution, three kinds of code |
| `ComponentsPlaced` | `ComponentCreation`: `TypeOK`, `SlotsRight`, `VariantMatches`, `SourcesRun` | 2590 fathers with an array of two by two and a scalar |

Every part can fail: the modules hold a faulty form of a definition for each (below).

Bounds.  A signal assigned in both branches of an `if` within another needs three levels, an
array of two is the least that can be complete by count and not by cell, a field of 7 has
numbers that are negative to the comparisons, and one of 3 keeps sets of solutions small and
still tells 1 from -1.  Programs are not drawn from a grammar up to a size but composed:
every kind of statement, in every context that the phase treats differently, with operands
that nest twice; this is where the phases' cases come from, and sizes beyond it repeat
them.  The field of `FileReadsBack` has two bytes of four values so that numbers use more than
one byte and overflow none.  Restrictions of an instance that keep a *known* departure out, so
that the rest can be checked, are: no loops within unknown `if`s (`OneTemplate`, lifted
in `WithLoops`), no unknown `if` (`Named`), no `if` without braces and no calls in
conditions of loops (`CleanedSame`), no calls in the condition of a conditional expression
(`CallsHaveInstances`), no conditional expression or log within the loops of `Templates`.
Other departures are within the instances, and a property leaves out the cases that they
break by a condition with a name, beside the plain statement that TLC refutes on the same
instance: `HidesChanges` of `Templates` (`AcceptedMeansKnown`), the amounts and remainders of
`Expressions` (`ShiftsDefined`, `NeverPanics`), `Analysed` of `Dag` (`EveryTemplateReported`),
`Discards`, `Homonyms` and `FirstArmHolds` of `FunctionInstances` (`AcceptedNeverStops`,
`NamesAreFree`, `ArmsFit`), `ZeroStored` of `InputStatus` (`RunsOnce`, `NoAssertFails`).
The section after the next names all these departures.

`interpreter` and `code_generation` do not check deadlock: their phases end, and the last
state has no successor.  The others say explicitly when they are done and check
that nothing else stops them.

Fairness of `Completes`: weak fairness of each thread's steps.  The operating system runs
threads that can run; a thread that waits is not asked to.  In this circuit some
thread can always go on, although there are fewer slots than threads; there are circuits
where none can (below).  Fairness of `ReadingEnds`: weak fairness of the whole step: the
compiler is one thread that goes on while it can.

### What the violated runs show

`NoIdleEscrow` - the module account holds only what resting orders have to deliver - is
what the comment of `HandleRefund` says, "returns unused escrowed funds".  Its BUY
branch is empty, and a LIMIT BUY that trades at a better price than its own is not
given the difference: those coins stay in the module account for ever.

`EscrowCoversBook` fails once MARKET BUY orders are placed: they escrow their price,
which is 0, and `SettleAssets` pays their seller out of the module account, that is, out
of coins that other users' resting orders have locked.  Such an order succeeds as long
as there are enough of those.

The properties of `dex_trading` are stated for the environment `OnePerBlock`: two orders of
one market in one block share an id, the later order takes the place of the earlier in
the store, and book and orders part.  `dex_burst` shows what survives such states.

`LoopsAssignOnce` is the promise that a signal assigned twice is an error.  A loop that is not
known to run pushes a condition and never removes it, so the enclosing `if` removes that one
instead of its own: `if (u) { s <-- 1; } else { while (v) {} } s <-- 2;` is accepted.

## Departures of the compiler from its documents

Met while modelling, each the smallest case in which the code does other than its
documentation, one of its messages or one of its assertions says.  They are outside the
instances of the runs above; where an instance that shows one is defined, or a
property that it violates, it is named.  Paths are below `src/circom`.

* `constraint_generation/src/execute.rs:2669` (`RejectedMeansAssignedTwice` of
  `SignalAssignment`, instance `WithLoops`). constraint_generation/src/execute.rs:4011 says
  "Signal has been already assigned". After a loop in the then branch the last condition of
  the list is the one the loop left behind, and the else branch negates that one (lines
  2668-2669): in if (u) { s <-- 1; while (v) {} } else { s <-- 2; } the two conditions of s
  agree on u and the second assignment is rejected although no run assigns s twice.
* `constraint_generation/src/environment_utils/component_representation.rs:880`
  (`OutputsNeedInputs` of `Component`, instance `UnderIfs` with an array of two).
  mkdocs/docs/circom-language/templates-and-components.md:75 says "The output signals of a
  component can only be used when all inputs are set, otherwise a compiler error is
  generated." The counter of missing cells goes down with every assignment accepted
  (component_representation.rs:880), also when the two branches of an unknown if assign the
  same cell: if (u) { c.in[0] <-- 1; } else { c.in[0] <-- 2; } empties the counter of an
  array of two, in[1] never gets a value, and reading an output and the check at the end of
  the template both succeed.
* `constraint_generation/src/assignment_utils.rs:132` (`AgreedTagsInherited` of `Tags`,
  instance `OfBus`). mkdocs/docs/circom-language/tags.md:38 says "the tags are always
  inherited by it". A bus subtracts the assigned cells from remaining_inserts without
  looking whether so many remain (a signal does look, execute.rs:1732): if (u) { b <-- c; }
  else { b <-- d; } is accepted and subtracts twice, so the counter wraps (a panic in a
  build with overflow checks) and the completely assigned bus never hands on the tags that c
  and d share.
* `constraint_generation/src/assignment_utils.rs:132` (`ReadableMeansComplete` of `Tags`,
  `OfBus` with an array of two buses). constraint_generation/src/execute.rs:2909 says
  "access only allowed when (1) it is value defined by user or (2) it is completely
  assigned". Completeness is counted in assignments, and the two branches of an unknown if
  count twice for one bus of an array of buses, while `<--` between buses hands on tags with
  their values (execute.rs:2423): the value of the tag can be read although a bus of the
  array has no value.
* `constraint_generation/src/execute.rs:2312` (`TagValuedBeforeWire` of `Tags`, instance
  `OfBus`). mkdocs/docs/circom-language/tags.md:74 says "The value of the tag can also be
  modified using the notation `.`, as long as the corresponding signal has not received any
  value", and line 117 that buses are tagged in the same way. Assigning a field of a bus
  marks only the field as initialized (execute.rs:2312-2318), so b.f <== 1; b.maxbit = 3; is
  accepted.
* `constraint_list/src/constraint_simplification.rs:266` (`StatementKept` of
  `Simplification`, `Systems <- DoubleCircuits`).
  mkdocs/docs/circom-language/circom-insight/simplification.md:15 says of the simplification
  that "we are not changing the relation between public inputs and outputs, i.e. the
  statement". Every equality of a removable signal with a constant becomes a substitution
  (constraint_simplification.rs:266-267), and build_encoded_fast_substitutions
  (simplification_utils.rs:520) keeps one per signal: of x === 1; x === 2, directly or
  through x === y; y === 2, one constraint is lost, and a circuit without solutions gets
  some. The linear phase merges such a conflict instead (treat_constraint_3).
* `constraint_generation/src/execute.rs:1222` (`CodeKept` of `Templates`). A conditional
  expression whose condition is unknown executes neither branch, so a branch executed in an
  earlier iteration of a loop keeps the number computed then and filters.rs puts it in the
  code; mkdocs/docs/circom-language/basic-operators.md:21 says "Boolean_condition ?
  true_value : false_value". With x = 1; for k = 0, 1 { y = x == 1 ? k : 3; x = in; } the
  code kept computes y = 0 for in = 1, the template y = 1.
* `constraint_generation/src/execute.rs:702` (`CodeKept` of `Templates`). A loop with an
  unknown condition is executed twice and what it computed is taken as final, though a
  condition of its body may only become unknown in the second pass: the value read before it
  stays in the code. mkdocs/docs/circom-language/control-flow.md:39 says of while "It
  executes the block of code while the condition holds". With x = 1 and while (k < in + 1) {
  y = x; if (k == 0) {} else { x = 2; } k++ } the code kept has y = 1 in every iteration.
* `constraint_generation/src/execute.rs:1262` (`EffectsKept` of `Templates`). The result of
  a call that logs is not recorded as computed, that of an expression it is part of is: the
  expression becomes a number and the log is lost;
  mkdocs/docs/circom-language/code-quality/debugging-operations.md:3 says "The execution of
  this instruction prints the result of the evaluation of the expression".
* `constraint_generation/src/execute.rs:769` (`AssertsFalse` of `Templates`). A known false
  assert fails the compilation even under an unknown condition;
  mkdocs/docs/circom-language/code-quality/code-assertion.md:7 evaluates it at compilation
  "If the assert statement depends on a control flow with only known conditions" and
  otherwise leaves it to the witness.
* `constraint_generation/src/execute.rs:797` (`NoPanic` of `Templates`). The expression of
  "_ <== e" is unwrapped into a constraint (execute.rs:800 ".unwrap()") without the check
  for a non-quadratic expression that every other constraint has: the analysis accepts it
  and the compiler stops there.
* `circom_algebra/src/modular_arithmetic.rs:115` (`ShiftsDefined` of `Expressions`; also line
  128). A shift turns its amount into a usize and reports what does not fit as a division by
  zero (execute.rs:3928 "Division by zero"): so for every amount from 2^64 to half of the
  prime, which `AmountRange` stands for in a field of 7 elements.
  mkdocs/docs/circom-language/basic-operators.md:105 says "For all k with 0=< k <= p/2" that
  x >> k is x/(2**k), which is 0 there. An amount that fits is raised to a power of two in
  memory, however large it is.
* `circom_algebra/src/modular_arithmetic.rs:61` (`NeverPanics` of `Expressions`). The
  remainder by zero divides by zero in modulus and the compiler panics, although mod_op
  returns a Result and the quotient by zero (line 53) is reported as "Division by zero".
* `type_analysis/src/analyzers/unknown_known_analysis.rs:340` (`AcceptedMeansKnown` of
  `Templates`). A loop hands the set of line 109, which stays empty, to the statements around
  it and not what its body modified, so an unknown if and an enclosing loop take what it
  assigns for known: after if (in) { while (k < 1) { x = 1; k++; } } a constraint under if (x)
  is accepted, and only some of these programs are refused by the execution.
  mkdocs/docs/circom-language/circom-insight/unknowns.md:100 says "If if-else or for-loop
  blocks have unknown conditions, then the block is considered unknown and no constraint can
  be generated inside it."
* `dag/src/constraint_correctness_analysis.rs:163` (`EveryTemplateReported` of `Dag`). A
  template is passed over when its name was visited, and the name has the parameters and the
  tags of its inputs but not those of the fields of buses (execute.rs:3404 "TODO: does not
  got inside bus"): of two instances that differ there only the first is looked at.
  mkdocs/docs/circom-language/code-quality/inspect.md:9 says "The compiler throws a warning if
  a signal defined in a template does not appear in any constraint of such template for the
  given instantiation".
* `compiler/src/intermediate_representation/load_bucket.rs:381` (`NeverStuck` of
  `WitnessThreads`, `Chain` with one slot). A load of a parallel output waits for a slot
  while it holds the mutex of the output, and a thread that ends keeps its slot while it
  waits for that mutex (template.rs:434) or joins its subcomponents (template.rs:425): once
  as many threads as there are slots (32 in calcwit.hpp:13; 1 in the run) wait there, no
  slot is ever freed and the calculator stops. templates-and-components.md:166 says of the
  tag parallel that "the resulting C++ file will contain the parallelized code to compute
  the witness".
* `compiler/src/circuit_design/template.rs:274` (`NeverStuck` of `WitnessThreads`,
  `Source`). X_create_parallel runs a component without inputs by calling X_run, which sets
  no outputIsSet: a load of its output waits for ever (when no plain instance of the
  template exists, X_run is not even declared, c_code_generator.rs:508).
  templates-and-components.md:166 says of the tag parallel that "the resulting C++ file will
  contain the parallelized code to compute the witness".
* `compiler/src/intermediate_representation/create_component_bucket.rs:162`
  (`WasmSourcesRun` of `ComponentCreation`). The WASM code of an array of components with a
  position that is not assigned creates the others without running those that have no inputs
  (the branches for one component and for a whole array do, lines 93 and 124, and so does
  the C++ code, template.rs:273 "if has no inputs should be runned"): their signals stay
  zero in the witness. computing-the-witness.md:12 says of the WASM module that it "will
  execute the circuit and calculate all the intermediate signals and the output".
* `parser/src/syntax_sugar_remover.rs:298` (`SameMeaning` of `SugarMeaning`,
  `OrderPrograms`). The assignments that an anonymous component stands for are put before
  the whole statement, so in (a, b) = (1, A()(a)) the component receives the old value of a.
  anonymous-components-and-tuples.md:98 says of tuples that "the semantics of this multiple
  assignment is the element-wise assignment" and at :113 that in (a, b, c) = (1,a+1, A(2))
  "the final value of a and b is 1 and 2, respectively".
* `parser/src/syntax_sugar_remover.rs:264` (`NothingLeft` of `SugarMeaning`,
  `ParallelPrograms`). check_anonymous_components_expression returns without a look at the
  parameters and inputs of an anonymous component under parallel: parallel A(B()(x))(y) is
  accepted, and the type checker stops at an assertion that says "Anonymous calls should not
  be reachable at this point." (type_check.rs:986), where the same call without parallel is
  an error of the program.
* `compiler/src/hir/sugar_cleaner.rs:108` (`SameMeaning` of `CleanMeaning`, `LoopPrograms`).
  The call in the condition of a loop is moved to an assignment before the loop and the
  condition becomes the variable assigned: while (f(x) < 3) evaluates f once and never ends
  once entered, where the constraint generation evaluates it at each turn.
  control-flow.md:39 says "The condition is checked every time before executing the block of
  code."
* `compiler/src/hir/sugar_cleaner.rs:127` (`SameCalls` of `CleanMeaning`, `EagerPrograms`).
  What a branch that is not a block moves out of its expressions is put before the
  conditional statement: if (n > 0) return n*f(n-1); calls f whatever n is, so a recursive
  function written without braces never ends in the generated code. The grammar takes
  statements without braces as branches, and control-flow.md:7 documents "if (
  boolean_condition ) block_of_code else block_of_code".
* `compiler/src/hir/sugar_cleaner.rs:680` (`SameMeaning` of `CleanMeaning`, `SwapPrograms`).
  An inline array is assigned element by element, each after the ones before it: a = [a[1],
  a[0]] gives both elements the value of a[1] in the generated code, while the constraint
  generation evaluates the array whole before it assigns it (execute.rs). The header comment
  (sugar_cleaner.rs:27) lists "Inline array removal" as a change of syntax.
* `compiler/src/hir/sugar_cleaner.rs:786` (`SameMeaning` of `CleanMeaning`,
  `EqualityPrograms`). An equality of an inline array with a call or a conditional
  expression matches none of the cases of lhe_array_ce and disappears: the witness code does
  not check it. constraint-generation.md says "Adding such constraint also implies (by
  default) adding an `assert` statement in the witness code generation."
* `compiler/src/hir/sugar_cleaner.rs:88` (`Translatable` of `CleanMeaning`, `LeftPrograms`).
  Arrays and conditional expressions are split only among the statements of a block: if (c)
  a = [1, 2]; without braces keeps its array, and the translation stops at
  unreachable!("This expression is syntactic sugar") (translate.rs:822).
* `compiler/src/hir/merger.rs:314` (`CallsLinked` of `FunctionInstances`,
  `ConditionPrograms`). Neither the production nor the linking looks at the condition of a
  conditional expression: in x = f(n) ? a : b the call gets no instance and keeps the
  generic name of its function, which the generated code does not define. merger.rs:357 says
  "Also, every expression" "will be linked with its vct (very concrete type)."
* `compiler/src/hir/merger.rs:33` (`CallsLinked` of `FunctionInstances`, `BusPrograms`). The
  information on buses is that of the last template when the bodies of functions are looked
  at: a parameter named as a bus of that template gets the size of the bus as one more
  dimension, and the calls made with it an instance for a longer argument. merger.rs:357
  says "Also, every expression" "will be linked with its vct (very concrete type)."
* `compiler/src/hir/type_inference.rs:261` (`NeverStops` of `FunctionInstances`,
  `OpenPrograms`). The inference of a call returns early when an argument has no type yet,
  without removing the call from the open ones: a later call of the same function has no
  type either, and f(n) { if (n) return k(f(n-1)); else return k(0); } stops the compiler at
  unwrap() (type_inference.rs:19). functions.md:14 says "Functions can be recursive."
* `compiler/src/hir/type_inference.rs:84` (`ReturnsFit` of `FunctionInstances`,
  `WidePrograms`). Of several returns the greatest vector of lengths in the order of words
  is the return type: of a 1 by 3 and a 2 by 1 matrix the second, which has no room for the
  first. functions.md:14 says "Functions compute numeric (or arrays of) values or
  expressions" and functions.md:49 "there can be many return statements".
* `compiler/src/hir/type_inference.rs:44` (`AcceptedNeverStops` of `FunctionInstances`,
  `UnderscorePrograms`). The inference of a return type has no case for `_ = e;`, which the
  grammar and the analyses accept in a function (functions_free_of_template_elements.rs:118
  refuses it only with the operators of signals) and the other passes leave out with a
  comment (merger.rs:115 "No code should be produced for an instruction of the form _ <==
  exp;"): the compiler stops at unreachable!() when the function is called.
* `compiler/src/hir/type_inference.rs:166` (`ArmsFit` of `FunctionInstances`,
  `ArmPrograms`; also merger.rs:752). A conditional expression has the type of its first arm,
  and the type checker compares the numbers of dimensions only (type_check.rs:826): return n
  ? v : [n, 0, 1]; with a v of two elements returns three into the room of two. functions.md:14
  says "Functions compute numeric (or arrays of) values or expressions".
* `compiler/src/hir/merger.rs:737` (`NamesAreFree` of `FunctionInstances`,
  `HomonymPrograms`). The type of a call is looked up by its name among those of the
  instances, f_0, f_1 and so on, before the functions are: where a function has the name of an
  instance, a call with its result as argument gets no instance and the linking stops at
  unwrap(). merger.rs:357 says "Also, every expression" "will be linked with its vct (very
  concrete type)."
* `compiler/src/ir_processing/build_inputs_info.rs:131` (`RunsOnce` of `InputStatus`; also line
  89). A store of size zero is passed over and keeps the mark Unknown it was made with, and
  the C++ code for it (store_bucket.rs:719) is !(inputCounter -= 0): after the store that
  brought the counter to zero it runs the subcomponent again, and one without any inputs,
  which was run when it was created, too. build_inputs_info.rs:22 says of the marks that
  "All possible lasts" are "Unknown, NoLast". Such a store of a known size also copies one
  element (store_bucket.rs:620 treats the size "0" like "1"), which `InputStatus` leaves out.
* `compiler/src/ir_processing/build_inputs_info.rs:133` (`NoAssertFails` of `InputStatus`). In
  an array of different components a store may have size zero for one of them only. Then it
  is visited and can be marked Last although the inputs are complete before it: with the
  sanity checks the store before it fails at assert(inputCounter > 0)
  (store_bucket.rs:678).
* `parser/src/include_logic.rs:17` (`ManyMains` of `ProgramFiles`, `Circle`). The stack
  starts with the path of the main file as it was written, while every include is pushed by
  its canonical path: a main file that is also included by a file it includes is read and
  parsed a second time, and the project is refused with two mains. ast.rs:525 says "Multiple
  main components in the project structure" of it.
* `parser/src/include_logic.rs:32` (`DefaultExtension` of `ProgramFiles`, `NoExtension`).
  The name of an include is looked for as it is written, so include "mux3" is not found
  where mux3.circom is. include.md:3 says "with the corresponding name of the file (.circom
  extension is the default)"
* `parser/src/parser_logic.rs:18` (`StartReported` of `Comments`). The place of an open
  comment is counted in characters and reported as a place in bytes, so after any character
  of two bytes the message is about another place. ast.rs:517 says "Comment starts here" of
  it.
* `parser/src/parser_logic.rs:43` (`StringsKept` of `Comments`). The marks of comments count
  inside strings too: log("//") loses the end of its line and include "a/*b" opens a
  comment. debugging-operations.md:11 says "strings written in the standard way" and the
  grammar takes every character but a quote and the end of the line (lang.lalrpop:851).

## The faults

For each property `PROJECT.json` names one definition and a faulty form of it that stands
before it, under which TLC finds the property violated.  The parts of the joint properties of
the compiler's runs have faults of their own, each written as definition -> faulty form:

* `SignalsAssignedOnce`: Merged -> MergedWithoutSure (TypeOK); MayMerge ->
  MayMergeAnyDifference (NeverAssignedTwice); Merged -> MergedAlwaysAssigned
  (AssignedMeansAlways); EndUnknownLoop -> EndUnknownLoopPopsTwice (ElseFindsItsCondition).
* `ComponentsComplete`: Ready -> ReadyAlways (TypeOK); Counted -> CountedWhole
  (OutputsNeedInputs); AssignPlaces -> AssignPlacesUnchecked (CountersDoNotWrap); Replay ->
  ReplayOnlySignals (DelayedAssignmentsApplied); TagsAgree -> TagsAgreeOnce
  (TagsOfOneInstance).
* `TagsLikeParameters`: SignalRemaining -> SignalRemainingUnchecked (TypeOK); Propagated ->
  PropagatedSticky (VisibleTagsCarried); SignalRemaining -> SignalRemainingOne
  (AgreedTagsInherited); SignalRemaining -> SignalRemainingArray (ReadableMeansComplete);
  AssignTag -> AssignTagLate (TagValuedBeforeWire); EndTemplate -> EndTemplateUnfinished
  (ExportedTagsCarried); Propagated -> PropagatedLast (ValuesOnlyLost).
* `ExpressionsMeanTheirOperators`: Complement -> ComplementWide (TypeOK); Div -> DivSilent
  (ErrorsForUndefined); ScaleExpr -> ScaleExprBoth (MeaningKept).
* `SimplifiedEquivalent`: Scaled -> ScaledWide (TypeOK); AddToClusters -> AddToClustersStale
  (WorkersApart); NonOverlapping -> NonOverlappingByKey (SubstitutionsClosed); Merge ->
  MergeUnscaled (SystemEquivalent); ApplyToMap -> ApplyToMapUncollected (NoLinearLeft);
  NextRound -> NextRoundAlways (RoundsEnd); Relevant -> RelevantUnrenamed (StatementKept);
  Rebuilt -> RebuiltLost (WitnessNumbered).
* `CircuitNumbered`: NewNode -> NewNodeUncounted (TypeOK); Identified -> IdentifiedUntagged
  (NodesShared); BuildWires -> BuildWiresInside (ConstraintsReach); AddEdge ->
  AddEdgeShallow (SignalsPartition); AddEdge -> AddEdgeSingle (ComponentsNumbered);
  BuildWires -> BuildWiresMixed (MainInterface); Size -> SizeFlat (WiresAgree); Sorted ->
  SortedAsMade (ClustersAddress); Marked -> MarkedLast (ParallelKnown); Totals ->
  TotalsByNode (StatsMatch); Moved -> MovedNever (ConstraintsResolved); OfKind -> OfKindOnce
  (ListKeeps); GateSignals -> GateSignalsNone (GatesKept); Unconstrained -> UnconstrainedOwn
  (UnconstrainedReported).
* `FileReadsBack`: EndedAt -> EndedAtLength (TypeOK); HeaderBytes -> HeaderBytesSwapped
  (ReadsBack); Grown -> GrownShort (SectionsTile); BlockEnd -> BlockEndNarrow
  (ReadWithinLength); NextSection -> NextSectionTyped (FinishedReadable).
* `ExecutionSound`: RemoveBlock -> RemoveBlockKept (TypeOK); UnderUnknown ->
  UnderUnknownSilent (AcceptedExecutes); MarkUnknown -> MarkUnknownNot (KnownIsNumber);
  AnalyzeLoop -> AnalyzeLoopOnce (LoopsStable); AssignVariable -> AssignVariableKnown
  (ValuesAgree); AssignSignal -> AssignSignalUnchecked (ConstraintsHold).
* `CodeSound`: Reached -> ReachedFlat (CodeKept); ExecuteFunctionCall ->
  ExecuteFunctionCallSimple (EffectsKept).
* `InputsTrigger`: Wasm -> WasmTwice (TypeOK); VisitFirst -> VisitFirstCertain
  (RunsWithAllInputs); VisitEarlier -> VisitEarlierClosed (RunsAtLastInput); Checked ->
  CheckedMarked (AssertsHold).
* `ComponentsPlaced`: IndexOf -> IndexOfOne (TypeOK); Jump -> JumpColumns (SlotsRight);
  MixedBucket -> MixedBucketUnflagged (VariantMatches); RunAtCreation ->
  RunAtCreationThreads (SourcesRun).
* `SugarRemoved`: RemoveAnonymousComponents -> RemoveWithoutDeclarations (TypeOK);
  CheckAssigned -> CheckOperator (NothingLeft); CallMatches -> CallMatchesAnyOp
  (AcceptedIffLegal); Loop -> LoopResets (SameMeaning).
* `CleanedSame`: ExtendBlock -> ExtendBlockKeeps (TypeOK); Filter -> FilterCalls
  (Translatable); SplitReturn -> SplitReturnTwice (SameCalls); ElementAssignments ->
  ElementAssignmentsFlat (SameMeaning).
* `CallsHaveInstances`: AddInstance -> AddInstanceAlways (TypeOK); MaxReturn -> LastReturn
  (NeverStops); InstanceOf -> AnyInstanceOf (CallsLinked); MaxReturn -> FirstReturn
  (ReturnsFit).
* `FilesReadRight`: DirOf -> NameOnly (TypeOK); Remaining -> DropNothing (ReadOnce); Include
  -> LibrariesFirst (ReadsTheNeeded); Reached -> OnlyFirst (ReportsTheLacking); Merged ->
  MergedByKind (AcceptedRight).
* `ReadingEnds`: NothingLeft -> StackEmpty (Ends).
* `CommentsBlanked`: Advanced -> OneATurn (TypeOK); Blanks -> OneBlank (SamePlaces); Kept ->
  CodeOnly (CommentsBlanked); AfterStars -> OneStar (RefusedRight).

## Theorems

The proofs about `x/zkdex` use `ZkdexAssumption` alone, those about `x/dex`
`DexAssumption` alone (constants have their types, the module account is not a user, ids
have different places in the store), and three of the latter two hypotheses about the
environment, named below.  They hold for all values of the constants: any number of
users, ids, amounts, prices and blocks.

### x/zkdex

* `ZkdexProofs!TypeCorrect`, `Spec => []TypeOK`.  `TypeOK` is inductive.  One lemma for each
  handler (`DepositType`, `SubmitType`, `ClaimType`), collected in `NextType`; a transfer
  that the sender can pay keeps balances natural, also to oneself (`SendKeepsNat`).
* `NullifiersBind`, `Spec => []NullifierBinding`: inductive together with `TypeOK`.  The
  step that needs work is `SubmitBatchProof` (`SubmitWithdrawals`): new records have ids
  that are not on record, their nullifiers are unused and differ within the batch, so
  the used nullifiers and those on record grow by the same elements.  `ClaimRecords`
  shows that a claim leaves every nullifier as it is.
* `DepositsSettled` and `WithdrawalsSettled`: both properties are inductive.  `SubmitBatch`
  says what a batch adds to the records; `SubmitDeposits` that its deposits were not
  processed before and do not repeat, which the code checks against
  `DepositProcessed` and a set of what it has seen, never against the record alone.
* `PayoutsAreClaims`, `Spec => PayoutIsClaim`: from `TypeOK`, each handler's step is a
  `PayoutStep`.  A deposit only adds to the pool (`EscrowKeepsPool`), a batch moves no
  coin and overwrites no withdrawal.
* `RefinesSettlement`, `Spec => ImplementsSettlement`.  `InitRefines`, then one
  lemma per handler that maps its step to `Open`, `Settle` or `Pay`.  The mapping is sound only
  in states where `DepositProcessed` is what the batches list (`SettledIsProcessed`), so the
  induction carries `TypeOK` and `DepositsSettledOnce`.
* `RootsChain`, `Spec => []RootChain`.  `RootChain` asks for an order of the
  batches with matching roots and non-decreasing heights; it is not inductive, because the
  length of the chain is a cardinality and a new batch must not be older than the last.
  `ChainInv` adds that the records are finite and that no batch is from a later block.
  `SubmitChain` appends the new batch to the order; `KeepsChain` covers the other steps.
* `EscrowBacked`, `Spec => []EscrowBacksRecords`: what the module account holds and what was
  claimed together cover the deposits on record.  The property adds over a store with a
  fold, and the prover cannot instantiate an induction theorem over sets.  `BankProofs`
  goes round it: `Total(f, S)` is the number of units `<<x, i>>` with `i < f[x]`, so adding,
  removing and changing an element of the sum are statements about cardinalities, and
  `FoldIsTotal` shows once that the fold is this number: a set for which it is not would
  have a least subset for which it is not (`SubsetInduction`).  The induction then is on
  `Total` (`NextBacked`); a deposit under the id of an earlier one replaces a record, so
  the records may fall while the account does not.

### x/dex

* `DexProofs!TypeCorrect`, `Spec => []TypeOK`, one lemma for each handler and for each step
  of matching.  What needs work is a trade: its quantity is no more than either order has
  left (`MatchQtyType`), and its two payments are each covered when they are made.
* `DexProofs!BookNeverCrosses`, `BestPriceFirst` and `CandidatesFresh`.  None of the three
  properties is inductive alone, and `BookInv` joins them.  While an order wants more, each
  trade used its maker up and removed the entry, so the candidates are still what the book
  would give (`TradeBook`); therefore the head of the sorted candidates is the best
  price of the *book*, not only of the list; an order that rests had no candidate
  left, so it does not cross (`FinishBook`); a failed transaction brings back the book of
  before, which `BookInv` says was not crossed.  Nothing is assumed about ids or about
  direct writes of orders: the quantity and status in the store may be anything.
* `BookIsOpenOrders`, `Trading => (Spec => []BookMatchesOrders)`.  `Trading` is `OnePerBlock`
  and `Writers = {}`: without the first, two orders share an id and the later record takes
  the place of the earlier; without the second, `UpdateOrder` writes a status that the book
  does not know.  The property is about states between transactions, `ListInv` about every
  state of the loop and about the stores that a failure brings back.
* `EscrowCovered`, `Trading /\ LimitBuys => (Spec => []EscrowCoversBook)`: the account holds
  what resting orders have to deliver, in each denomination.  `LimitBuys` excludes MARKET
  BUY orders, which lock nothing; the run `dex_market_buy` shows that the property fails with
  them.  `EscrowInv` counts the running order too: a trade takes from the maker's share and
  from the taker's, and what leaves the account is no more than both.
* `OrdersAreMatched`, under the same hypotheses, `Spec => []MatchingNeverFails`: from `EscrowInv`
  each payment of a trade is covered, and from `ListInv` each candidate has its order.

### Assignment of signals

`SignalProofs` is about `SignalAssignment` with any set of signals, any nesting depth, any number
of assignments and of unknown conditions; a loop runs at most twice, as in the model.

* `AssignedOnce`, `Spec => []NeverAssignedTwice`: any two assignments of a signal in an
  accepted template stand in different branches of one `if`.  `AssignedAlways`,
  `Spec => []AssignedMeansAlways`: a signal in the state Assigned gets a value for every
  outcome of the conditions.  `SignalTypeOK` is the type invariant.  All three have the
  hypothesis `~ LoopsUnderIf`; the run `signal_twice` shows that the first fails without it.
* The code remembers of the assignments of a signal one list of conditions, the
  newest, and merges it with the next; that this forgets nothing that matters is the
  point of the proof.  `Inv` (`StackKept`) has two halves.  `Stack` is the shape
  of the interpreter: loops lie below ifs, whose conditions are the decisions on
  the path, one for one; what lies below those belongs to loops that ended; identifiers
  rise.  `SlotInv` relates the remembered list to every assignment made: each of them
  `Meets` the list - it has all its conditions, or parts from it at a condition whose
  negation the list holds (`Remembers`) -, and either the list covers no run that those
  assignments do not cover (`Covered`), or it holds a condition that no `else` can negate
  any more (`Dead`), so that no further assignment can merge with it.  `NothingBack` and
  `NoFlipBack` say of a step that it brings no old condition back, which is all that the
  slots need to know of it (`SlotKept`).
* `ElseNeverPanics`, `Spec => []ElseFindsItsCondition`, for all loops wherever they stand: the
  `else` turns the last condition into its negation with an `unwrap`, and loops outside
  of ifs take more conditions out of the list than they put in.  `Balance` counts: every
  open `if` owns a condition, a loop within one may, and the list is never shorter than
  what the open statements own below any of them (`Reserve`).

### Components

`ComponentProofs` is about `Component` with any inputs, any number of cells and of fields, any tags
and any number of assignments, under `ComponentAssumption`.

* `DelayedApplied`, `Spec => []DelayedAssignmentsApplied`, and `WrittenOnce`,
  `Spec => []PlacesWrittenOnce`, for any number of unknown `if`s.  The code forgets each assignment
  in the state of its place, and replays those that waited list by list, not in the order
  of the program.  `ComponentInv` relates both to `written`, the history: before the initialization
  the lists hold what was written, as often as it was (`Waiting`); after it the state of a place
  is `no` when nothing was assigned, `might` with the conditions of the one assignment
  there was, and any two assignments are in different branches of one `if` (`Accounts`).
  `Accounts` speaks of a set of assignments, so one more of them keeps it whichever came first
  (`AccountsNext`), and this is why the order does not matter.  The claim would not hold
  for deeper conditions by this argument; `Component` opens one `if` at a time, and nested ones are
  in `SignalAssignment`.
* The replay is a recursive function over a list of any length.  `StagesExist` shows that there is
  such a function and `ReplayedList` that all its values are in order, both by the least number
  for which it would not be so (`LeastNumber`).
* `OneInstance`, `Spec => []TagsOfOneInstance`: every accepted assignment brought the tag values
  that the template is executed with, whether it waited or not.  `ComponentTypeOK` is the type
  invariant.
* `InputsAreCounted`, with the hypothesis `MaxIfs = 0`, `Spec => [](OutputsNeedInputs /\
  CountersDoNotWrap)`: the counter of an input is the number of its cells that miss a value
  (`Counts`), where a cell of a bus misses one until its last field is assigned.  With unknown
  `if`s it is false, which `UnderIfs` shows (above): both branches lower the counter.

### Tags

`TagsProofs` is about `Tags` with any tags and values, wires of any size and any number of unknown
`if`s, under `TagsAssumption`.

* `TagsCarried`, `Spec => []VisibleTagsCarried`, and `TagValuesKept`, `Spec => [][ValuesOnlyLost]_vars`,
  for signals, buses and their fields alike, from `TagsInv`.  The code keeps one value for each tag
  of a wire and no list of what it was assigned; `TagInv` says what that value stands for: while
  the program has not valued the tag itself, a value is what *every* expression so far carried
  (`AllCarry`), and whatever they all carried is the value.  The second half is what makes the
  first inductive: a tag taken away by one expression must not come back with the next.
* `SignalTagsSound` adds, for an array of signals, `TypeOK`, `AgreedTagsInherited`,
  `ReadableMeansComplete`, `TagValuedBeforeWire` and `ExportedTagsCarried`.  `SignalInv` says that
  `remaining_inserts` is the number of cells without a value.  This is false in general (both
  branches of an `if` may assign one cell, and the counter stops at zero), but as long as all
  expressions have one tag in common it is true: `<==`, the only operator that hands on tags, is
  refused under an unknown `if`, so those expressions were assigned to different cells.  Of buses
  the three properties about completeness and order are false (above).

### The interpreter

`InterpreterProofs` composes these results.  `Interpreter` runs one of its modules in each behaviour;
for each instance a lemma shows that a behaviour in which it runs is a behaviour of that module
(`OneSignalsRun`, `SignalTagsRun`, ...), and one that no other behaviour comes to run it
(`OneSignalsOther`, ...).  `SignalsOnce`, `Spec => []SignalsAssignedOnce`, `ComponentsSound`,
`Spec => []ComponentsComplete`, and `TagsAreParameters`, `Spec => TagsLikeParameters`, are the
properties of the run `interpreter` under those names; a behaviour of `MCInterpreter` in which signals, components or tags run is one of `Interpreter`, with
the variables of templates and expressions off.

### The witness calculator

`WitnessProofs!ReadsAreWritten`, `Spec => []ReadsSeeValues`: in every order of the threads' steps,
a load reads an output only after its value was stored.  It holds for every circuit,
every number of threads and slots, under `CircuitAssumption` (bodies are sequences
of statements, there is at least one slot) and `OutputsAssumption` (a template
stores all its outputs, and loads an output of a component that is not parallel after
the statement that runs it; the execution of templates checks the first, the order of
statements gives the second).  `TypeOK` of the threads is not needed.

The property is about one step and is not inductive.  `WitnessInv` says of each call on
each stack what the statements before its place have achieved (`FrameOK`): the outputs they
store have values; a component they ran has all its values, unless it is the call right
above on the same stack; and `outputIsSet` holds only of outputs with values.
`StackKept` shows that a call stays in order when other threads store more.  Each step then
touches the top call of one thread: one lemma for each action.  The return of a call is the
interesting one: the call above has passed all its statements, so by `OutputsAssumption`
all its outputs have values and the caller may count on them.

The other theorems use `CreationAssumption` too: a component is used by the template
that declares it, which creates it once and before it stores its inputs
(`Templates` and `Component` model the checks that give this).

* `WitnessProofs!RunsHaveInputs`, `Spec => []RunsWithInputs`, and `ReleasedUnused`,
  `Spec => []NoUseAfterRelease`, from `RunInv`.  Nothing in a frame says how many inputs of a
  component are stored; `RunInv` computes it from the place of its father's call (`Fed`), says
  that a component is on one stack once, that the calls of a stack are fathers and
  children, and that a father which has joined its threads has no child running.  A
  store brings a component to run exactly when it is the last of its inputs (`FedNext`).
* `WitnessProofs!SlotsAreAccounted`, `SleepersWake` and `WitnessTypeOK`, from `SlotInv`.
  `SlotsAccounted` needs the shape of stacks (only the first call of a thread counts for
  a slot) and the number of threads in each standing (`CardChange`).
  `NoForgottenSleeper` is not inductive: `Enough` adds that while somebody sleeps for a
  slot, the slots in use and the threads awake and about to take one are together
  `MaxThread` at least.  A notification that wakes one of several sleepers keeps this,
  whichever it wakes.

### Only model-checked

`FilledArePurged`, `Completes` and `ReadingEnds`: liveness is out of the prover's reach.  Of the
compiler, all that the runs `front_end`, `circuit` and `code_generation` check, and of `interpreter` the
properties of templates and expressions: those phases recurse over trees and programs, so their
models use recursive operators, or what they promise needs induction over programs.

## Not modelled, and what could come next

1. `Genesis`: export, validation, import and resumption of both modules' stores.
   `ExportGenesis` of `x/zkdex` leaves out all records, and orders that `PlaceOrder`
   stores have no index, which the import uses as key.
2. `Replicas`: two validators that run the same block; `Deposit` draws its id from
   `crypto/rand` inside the handler, so their stores part.
3. `Chain`: both modules and `x/backend` over one bank, with an off-chain relayer that
   settles honestly; under it, which withdrawals are claimable, and liveness of claims.
4. Malformed and negative texts for prices and quantities in `Dex`; texts other than BUY
   and SELL for the side, which no handler refuses; pairs whose `base-quote` texts
   coincide.
5. Of the compiler: buses within buses and ranges of arrays in `Component` and `Tags`;
   the analyses of types, symbols and tags, whose result the models take for granted
   (their programs are well typed); the rest of the translation to instructions
   and the depth of its stack; the reading of inputs by the generated program.

Left out for good: the grammar and its generated parser; the writers of C++, WASM, sym
and JSON texts, which are formatting; the command line; params, queries, application
wiring and generated code of the chain; the vendored Ignite CLI under `cli/`.
