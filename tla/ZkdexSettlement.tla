-------------------------- MODULE ZkdexSettlement ---------------------------
(***************************************************************************)
(* x/zkdex implements Settlement.  A deposit waits to be settled while it  *)
(* is on record and not in DepositProcessed, whatever the flag of its      *)
(* record says; a batch settled the deposits that its record lists; a      *)
(* withdrawal is a debt until it is claimed.                               *)
(***************************************************************************)
EXTENDS Zkdex

OpenDeposits == DOMAIN depositRecords \ depositProcessed

SettledByBatch ==
    [b \in DOMAIN batchRecords |-> Elements(batchRecords[b].depositIds)]

Unclaimed == {w \in DOMAIN withdrawRecords : ~ withdrawRecords[w].claimed}
Claimed   == DOMAIN withdrawRecords \ Unclaimed

DebtOf(record) ==
    [denom |-> record.denom, units |-> ParseCoin(record.amount),
     payee |-> record.destination, nullifier |-> record.nullifier]

Debts == [w \in Unclaimed |-> DebtOf(withdrawRecords[w])]

Contract ==
    INSTANCE Settlement WITH
        Pool <- ModuleAccount, DepositKeys <- DepositIds, DebtKeys <- WithdrawIds,
        BatchKeys <- BatchIds, Payees <- Destinations,
        Units <- {ParseCoin(a) : a \in Amounts},
        funds <- bank, open <- OpenDeposits, batches <- SettledByBatch,
        debts <- Debts, paid <- Claimed, spent <- nullifierUsed

\* Every handler of x/zkdex does to the settlement contract what the contract
\* allows: no interleaving of deposits, competing batches and claims settles a
\* deposit twice, reuses a nullifier, or pays a withdrawal twice or to another.
ImplementsSettlement == Contract!Spec
=============================================================================
