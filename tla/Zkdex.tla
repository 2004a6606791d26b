------------------------------- MODULE Zkdex --------------------------------
(***************************************************************************)
(* x/zkdex: the settlement layer of the zk exchange.  Users escrow coins   *)
(* (Deposit), a relayer settles batches of deposits and withdrawals with a *)
(* proof that moves the state root (SubmitBatchProof), and the destination *)
(* of a settled withdrawal claims its coins (ClaimWithdraw).               *)
(*                                                                         *)
(* One action is one message handler run by a transaction: an error leaves *)
(* the state as it was, so a handler that returns an error is a disabled   *)
(* action.  EndBlock moves the chain to the next height.                   *)
(***************************************************************************)
EXTENDS Naturals, Sequences, FiniteSets, FiniteSetsExt, Bank

CONSTANTS
    Users,            \* addresses that can sign a message
    Denoms,
    Amounts,          \* amount texts, as a number of 1/Scale parts of a coin unit
    Scale,            \* how many parts make one unit
    RandomSuffixes,   \* outcomes of the 4 random bytes of a deposit id
    Destinations,     \* destination texts; some are nobody's address
    BatchIds, WithdrawIds, Nullifiers, Roots, Commitments,
    GenesisRoot,      \* "0xrootA"
    Updates,          \* the settlement updates that relayers may submit
    Accept,           \* what the wired StubProofVerifier answers
    Empty,            \* the empty string
    InitialBalance,   \* of every user in every denomination
    MaxHeight         \* bound: the last height that is explored

ModuleAccount == "zkdex"
Accounts == Users \cup {ModuleAccount}
Heights  == 1 .. MaxHeight

(***************************************************************************)
(* A deposit id is "dep-<creator>-<height>-<4 random bytes>".              *)
(***************************************************************************)
DepositIds == Users \X Heights \X RandomSuffixes

SettlementDeposit ==
    [depositId : DepositIds, owner : Users, denom : Denoms, amount : Amounts]

SettlementWithdrawal ==
    [withdrawId : WithdrawIds, denom : Denoms, amount : Amounts,
     destination : Destinations, nullifier : Nullifiers]

SettlementUpdate ==
    [batchId : BatchIds, oldStateRoot : Roots, newStateRoot : Roots,
     deposits : Seq(SettlementDeposit), withdrawals : Seq(SettlementWithdrawal)]

ASSUME ZkdexAssumption ==
    /\ ModuleAccount \notin Users
    /\ Users \subseteq Destinations
    /\ Amounts \subseteq Nat
    /\ Scale \in Nat \ {0}
    /\ GenesisRoot \in Roots
    /\ Updates \subseteq SettlementUpdate
    /\ Accept \in BOOLEAN
    /\ InitialBalance \in Nat
    /\ MaxHeight \in Nat \ {0}

VARIABLES
    bank,             \* balances (x/bank)
    height,           \* height of the block being executed
    stateRoot,        \* Keeper.StateRoot
    depositRecords,   \* Keeper.DepositRecords
    withdrawRecords,  \* Keeper.WithdrawRecords
    nullifierUsed,    \* Keeper.NullifierUsed, the keys that hold true
    depositProcessed, \* Keeper.DepositProcessed, the keys that hold true
    batchRecords      \* Keeper.BatchRecords

vars == <<bank, height, stateRoot, depositRecords, withdrawRecords,
          nullifierUsed, depositProcessed, batchRecords>>

DepositRecord ==
    [owner : Users, denom : Denoms, amount : Amounts, processed : BOOLEAN,
     createdHeight : Heights]

WithdrawRecord ==
    [denom : Denoms, amount : Amounts, destination : Destinations,
     nullifier : Nullifiers, claimed : BOOLEAN]

BatchRecord ==
    [oldStateRoot : Roots, newStateRoot : Roots, depositIds : Seq(DepositIds),
     withdrawIds : Seq(WithdrawIds), createdHeight : Heights]

-----------------------------------------------------------------------------

\* sdk.ParseCoinNormalized: a decimal amount is truncated to whole units.  A
\* text that does not parse is represented by an amount of zero units: both
\* are refused wherever an amount is parsed.
ParseCoin(amount) == amount \div Scale

EscrowUnchecked(sender, denom, n) ==     \* fault: the balance is not looked at
    bank' = Send(bank, sender, ModuleAccount, denom, n)

\* EscrowFunds and ReleaseFunds
EscrowFunds(sender, denom, n) ==
    /\ CanSend(bank, sender, denom, n)
    /\ bank' = Send(bank, sender, ModuleAccount, denom, n)

ReleaseFunds(recipient, denom, n) ==
    /\ CanSend(bank, ModuleAccount, denom, n)
    /\ bank' = Send(bank, ModuleAccount, recipient, denom, n)

\* The positions of a list hold different keys.
NoRepeats(list) == \A i, j \in DOMAIN list : list[i] = list[j] => i = j

\* The list of one field of the items of a list.
DepositIdsOf(deposits)     == [i \in DOMAIN deposits |-> deposits[i].depositId]
WithdrawIdsOf(withdrawals) == [i \in DOMAIN withdrawals |-> withdrawals[i].withdrawId]
NullifiersOf(withdrawals)  == [i \in DOMAIN withdrawals |-> withdrawals[i].nullifier]

Elements(list) == {list[i] : i \in DOMAIN list}

-----------------------------------------------------------------------------

Init ==
    /\ bank = [a \in Accounts |->
                 [d \in Denoms |-> IF a = ModuleAccount THEN 0 ELSE InitialBalance]]
    /\ height = 1
    /\ stateRoot = GenesisRoot
    /\ depositRecords = EmptyStore
    /\ withdrawRecords = EmptyStore
    /\ nullifierUsed = {}
    /\ depositProcessed = {}
    /\ batchRecords = EmptyStore

(***************************************************************************)
(* Deposit: escrow the parsed coins and store a record under a fresh id,   *)
(* overwriting the record of an equal id.  The record keeps the text.      *)
(***************************************************************************)
Deposit(creator, denom, amount, suffix) ==
    /\ ParseCoin(amount) > 0
    /\ EscrowFunds(creator, denom, ParseCoin(amount))
    /\ depositRecords' =
         Put(depositRecords, <<creator, height, suffix>>,
             [owner |-> creator, denom |-> denom, amount |-> amount,
              processed |-> FALSE, createdHeight |-> height])
    /\ UNCHANGED <<height, stateRoot, withdrawRecords, nullifierUsed,
                   depositProcessed, batchRecords>>

(***************************************************************************)
(* SubmitBatchProof: validate the update against the stores, verify the    *)
(* proof, and apply the update.                                            *)
(***************************************************************************)
DepositMatches(d) ==
    LET record == depositRecords[d.depositId] IN
    record.owner = d.owner /\ record.denom = d.denom /\ record.amount = d.amount

ValidByRecordFlag(deposits) ==           \* fault: only the record's flag is read
    /\ NoRepeats(DepositIdsOf(deposits))
    /\ \A i \in DOMAIN deposits :
         LET d == deposits[i] IN
         /\ d.depositId \in DOMAIN depositRecords
         /\ ~ depositRecords[d.depositId].processed
         /\ DepositMatches(d)

ValidDeposits(deposits) ==
    /\ NoRepeats(DepositIdsOf(deposits))
    /\ \A i \in DOMAIN deposits :
         LET d == deposits[i] IN
         /\ d.depositId \in DOMAIN depositRecords
         /\ d.depositId \notin depositProcessed
         /\ ~ depositRecords[d.depositId].processed
         /\ DepositMatches(d)

ValidNullifiersOneByOne(withdrawals) ==  \* fault: no duplicates check in the batch
    \A i \in DOMAIN withdrawals :
      LET w == withdrawals[i] IN
      /\ Empty \notin {w.withdrawId, w.destination, w.nullifier}
      /\ w.nullifier \notin nullifierUsed
      /\ w.withdrawId \notin DOMAIN withdrawRecords

ValidUnspent(withdrawals) ==             \* fault: an id on record is not refused
    /\ \A i \in DOMAIN withdrawals :
         LET w == withdrawals[i] IN
         /\ Empty \notin {w.withdrawId, w.destination, w.nullifier}
         /\ w.nullifier \notin nullifierUsed
    /\ NoRepeats(WithdrawIdsOf(withdrawals))
    /\ NoRepeats(NullifiersOf(withdrawals))

ValidWithdrawals(withdrawals) ==
    /\ \A i \in DOMAIN withdrawals :
         LET w == withdrawals[i] IN
         /\ Empty \notin {w.withdrawId, w.destination, w.nullifier}
         /\ w.nullifier \notin nullifierUsed
         /\ w.withdrawId \notin DOMAIN withdrawRecords
    /\ NoRepeats(WithdrawIdsOf(withdrawals))
    /\ NoRepeats(NullifiersOf(withdrawals))

\* The public inputs that the chain derives; the four roots of the
\* commitments stand as one.
PublicInputs(update, commitment) ==
    <<update.oldStateRoot, update.newStateRoot, commitment>>

AnyRoot(update) == TRUE                  \* fault: a batch is not tied to the root

CurrentRoot(update) == update.oldStateRoot = stateRoot

ValidUpdate(update) ==
    /\ update.batchId # Empty
    /\ update.batchId \notin DOMAIN batchRecords
    /\ Empty \notin {update.oldStateRoot, update.newStateRoot}
    /\ CurrentRoot(update)
    /\ ~ (update.deposits = <<>> /\ update.withdrawals = <<>>)
    /\ ValidDeposits(update.deposits)
    /\ ValidWithdrawals(update.withdrawals)

MarkRecords(ids) ==                      \* fault: the DepositProcessed store is left out
    /\ depositRecords' =
         [id \in DOMAIN depositRecords |->
            IF id \in ids THEN [depositRecords[id] EXCEPT !.processed = TRUE]
                          ELSE depositRecords[id]]
    /\ UNCHANGED depositProcessed

\* SetDepositProcessed sets the flag in both stores.
MarkProcessed(ids) ==
    /\ depositProcessed' = depositProcessed \cup ids
    /\ depositRecords' =
         [id \in DOMAIN depositRecords |->
            IF id \in ids THEN [depositRecords[id] EXCEPT !.processed = TRUE]
                          ELSE depositRecords[id]]

\* The unclaimed record of the withdrawal that the batch lists under id.
NewWithdrawRecord(withdrawals, id) ==
    LET w == withdrawals[CHOOSE i \in DOMAIN withdrawals : withdrawals[i].withdrawId = id]
    IN  [denom |-> w.denom, amount |-> w.amount, destination |-> w.destination,
         nullifier |-> w.nullifier, claimed |-> FALSE]

StoreWithdrawals(withdrawals) ==
    LET ids == Elements(WithdrawIdsOf(withdrawals)) IN
    /\ nullifierUsed' = nullifierUsed \cup Elements(NullifiersOf(withdrawals))
    /\ withdrawRecords' =
         [id \in DOMAIN withdrawRecords \cup ids |->
            IF id \in ids THEN NewWithdrawRecord(withdrawals, id)
                          ELSE withdrawRecords[id]]

ApplyUpdate(update) ==
    /\ stateRoot' = update.newStateRoot
    /\ MarkProcessed(Elements(DepositIdsOf(update.deposits)))
    /\ StoreWithdrawals(update.withdrawals)
    /\ batchRecords' =
         Put(batchRecords, update.batchId,
             [oldStateRoot |-> update.oldStateRoot,
              newStateRoot |-> update.newStateRoot,
              depositIds |-> DepositIdsOf(update.deposits),
              withdrawIds |-> WithdrawIdsOf(update.withdrawals),
              createdHeight |-> height])

SubmitBatchProof(update, commitment, bundleInputs) ==
    /\ ValidUpdate(update)
    /\ commitment # Empty
    /\ bundleInputs = PublicInputs(update, commitment)
    /\ Accept
    /\ ApplyUpdate(update)
    /\ UNCHANGED <<bank, height>>

(***************************************************************************)
(* ClaimWithdraw: pay an unclaimed withdrawal to its destination, once.    *)
(***************************************************************************)
ClaimableTwice(record, creator) ==       \* fault: the claimed flag is not read
    /\ record.destination = creator
    /\ ParseCoin(record.amount) > 0

Claimable(record, creator) ==
    /\ ~ record.claimed
    /\ record.destination # Empty
    /\ record.destination = creator
    /\ ParseCoin(record.amount) > 0

ClaimWithdraw(creator, id) ==
    /\ id \in DOMAIN withdrawRecords
    /\ LET record == withdrawRecords[id] IN
         /\ Claimable(record, creator)
         /\ ReleaseFunds(creator, record.denom, ParseCoin(record.amount))
         /\ withdrawRecords' = Put(withdrawRecords, id, [record EXCEPT !.claimed = TRUE])
    /\ UNCHANGED <<height, stateRoot, depositRecords, nullifierUsed,
                   depositProcessed, batchRecords>>

\* The next block begins; x/zkdex has no work at the end of a block.
EndBlock ==
    /\ height < MaxHeight
    /\ height' = height + 1
    /\ UNCHANGED <<bank, stateRoot, depositRecords, withdrawRecords,
                   nullifierUsed, depositProcessed, batchRecords>>

-----------------------------------------------------------------------------

Next ==
    \/ \E u \in Users, d \in Denoms, a \in Amounts, s \in RandomSuffixes :
         Deposit(u, d, a, s)
    \/ \E update \in Updates, c \in Commitments, r \in Roots :
         SubmitBatchProof(update, c, <<r, update.newStateRoot, c>>)
    \/ \E u \in Users, id \in WithdrawIds : ClaimWithdraw(u, id)
    \/ EndBlock

Spec == Init /\ [][Next]_vars

-----------------------------------------------------------------------------
(***************************************************************************)
(* Properties.                                                             *)
(***************************************************************************)

\* Every variable keeps its type; in particular no balance goes below zero.
TypeOK ==
    /\ bank \in [Accounts -> [Denoms -> Nat]]
    /\ height \in Heights
    /\ stateRoot \in Roots
    /\ DOMAIN depositRecords \subseteq DepositIds
    /\ depositRecords \in [DOMAIN depositRecords -> DepositRecord]
    /\ DOMAIN withdrawRecords \subseteq WithdrawIds
    /\ withdrawRecords \in [DOMAIN withdrawRecords -> WithdrawRecord]
    /\ nullifierUsed \subseteq Nullifiers
    /\ depositProcessed \subseteq DepositIds
    /\ DOMAIN batchRecords \subseteq BatchIds
    /\ batchRecords \in [DOMAIN batchRecords -> BatchRecord]

\* A nullifier is used exactly when one withdrawal on record carries it, and
\* no two withdrawals carry the same one: a note of the zk ledger leaves it at
\* most once, however its withdrawals are spread over batches and ids.
NullifierBinding ==
    /\ nullifierUsed = {withdrawRecords[w].nullifier : w \in DOMAIN withdrawRecords}
    /\ \A v, w \in DOMAIN withdrawRecords :
         withdrawRecords[v].nullifier = withdrawRecords[w].nullifier => v = w

\* The deposits (withdrawals) that batches settled are exactly those that are
\* marked processed (on record), and each was settled by one batch, once,
\* even when a later deposit draws the id of a settled one.
DepositsSettledOnce ==
    /\ depositProcessed =
         UNION {Elements(batchRecords[b].depositIds) : b \in DOMAIN batchRecords}
    /\ \A b \in DOMAIN batchRecords : NoRepeats(batchRecords[b].depositIds)
    /\ \A b, c \in DOMAIN batchRecords :
         b # c => Elements(batchRecords[b].depositIds)
                    \cap Elements(batchRecords[c].depositIds) = {}

WithdrawalsSettledOnce ==
    /\ DOMAIN withdrawRecords =
         UNION {Elements(batchRecords[b].withdrawIds) : b \in DOMAIN batchRecords}
    /\ \A b \in DOMAIN batchRecords : NoRepeats(batchRecords[b].withdrawIds)
    /\ \A b, c \in DOMAIN batchRecords :
         b # c => Elements(batchRecords[b].withdrawIds)
                    \cap Elements(batchRecords[c].withdrawIds) = {}

\* The batches on record form one chain of state roots that starts at the
\* genesis root, respects the heights of the batches and ends at the current
\* root: of two batches prepared on the same root, one was refused.
ChainOfBatches(order, n) ==
    /\ \A b \in DOMAIN batchRecords : \E i \in 1 .. n : order[i] = b
    /\ \A i, j \in 1 .. n : order[i] = order[j] => i = j
    /\ IF n = 0 THEN stateRoot = GenesisRoot
       ELSE /\ batchRecords[order[1]].oldStateRoot = GenesisRoot
            /\ batchRecords[order[n]].newStateRoot = stateRoot
    /\ \A i \in 1 .. n : i + 1 <= n =>
         LET b == batchRecords[order[i]]
             c == batchRecords[order[i + 1]]
         IN  b.newStateRoot = c.oldStateRoot /\ b.createdHeight <= c.createdHeight

RootChain ==
    LET n == Cardinality(DOMAIN batchRecords)
    IN  \E order \in [1 .. n -> DOMAIN batchRecords] : ChainOfBatches(order, n)

\* The module account loses coins only to the destination of a withdrawal that
\* turns from unclaimed to claimed in the same step, and loses its amount; a
\* claimed withdrawal never changes again.
PayoutStep ==
    /\ (\E d \in Denoms : bank'[ModuleAccount][d] < bank[ModuleAccount][d]) =>
         \E w \in DOMAIN withdrawRecords :
           LET r == withdrawRecords[w] IN
           /\ ~ r.claimed /\ withdrawRecords'[w].claimed
           /\ bank' = Send(bank, ModuleAccount, r.destination, r.denom,
                           ParseCoin(r.amount))
    /\ \A w \in DOMAIN withdrawRecords :
         withdrawRecords[w].claimed =>
           w \in DOMAIN withdrawRecords' /\ withdrawRecords'[w] = withdrawRecords[w]

PayoutIsClaim == [][PayoutStep]_vars

\* The escrow backs the books: what the module account holds, plus what was
\* claimed, covers the deposits on record; it exceeds them by the deposits
\* whose record was overwritten.
DepositedUnits(d) ==
    MapThenSumSet(LAMBDA id : ParseCoin(depositRecords[id].amount),
                  {id \in DOMAIN depositRecords : depositRecords[id].denom = d})

ClaimedUnits(d) ==
    MapThenSumSet(LAMBDA w : ParseCoin(withdrawRecords[w].amount),
                  {w \in DOMAIN withdrawRecords :
                     withdrawRecords[w].claimed /\ withdrawRecords[w].denom = d})

EscrowBacksRecords ==
    \A d \in Denoms :
      bank[ModuleAccount][d] + ClaimedUnits(d) >= DepositedUnits(d)
=============================================================================
