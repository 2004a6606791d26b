----------------------------- MODULE Settlement -----------------------------
(***************************************************************************)
(* What x/zkdex promises to its users.  A deposit is opened against coins  *)
(* moved into the pool and is settled by at most one batch; a withdrawal   *)
(* becomes a debt when a batch settles it, spends a nullifier that nobody  *)
(* spent before, and is paid out of the pool at most once, to the payee    *)
(* and for the units that were settled.  Nothing else touches the pool.    *)
(***************************************************************************)
EXTENDS Naturals, Bank

CONSTANTS Users, Pool, Denoms, DepositKeys, DebtKeys, BatchKeys, Nullifiers,
          Payees, Units, InitialBalance

VARIABLES
    funds,    \* balances of the users and of the pool
    open,     \* deposits that wait to be settled
    batches,  \* the deposits that each batch settled
    debts,    \* withdrawals that were settled and are not yet paid
    paid,     \* withdrawals that were paid
    spent     \* nullifiers

vars == <<funds, open, batches, debts, paid, spent>>

Debt == [denom : Denoms, units : Units, payee : Payees, nullifier : Nullifiers]

Settled == UNION {batches[b] : b \in DOMAIN batches}

Init ==
    /\ funds = [a \in Users \cup {Pool} |->
                  [d \in Denoms |-> IF a = Pool THEN 0 ELSE InitialBalance]]
    /\ open = {} /\ batches = EmptyStore
    /\ debts = EmptyStore /\ paid = {}
    /\ spent = {}

\* A user moves n units into the pool; key names the deposit.
Open(user, denom, n, key) ==
    /\ n > 0
    /\ CanSend(funds, user, denom, n)
    /\ funds' = Send(funds, user, Pool, denom, n)
    /\ open' = open \cup ({key} \ Settled)
    /\ UNCHANGED <<batches, debts, paid, spent>>

\* Batch b settles the open deposits in keys and turns the withdrawals in new,
\* which were never seen before, into debts with nullifiers of their own.
Settle(b, keys, new) ==
    /\ b \notin DOMAIN batches
    /\ keys \subseteq open
    /\ new \cap (DOMAIN debts \cup paid) = {}
    /\ open' = open \ keys
    /\ batches' = Put(batches, b, keys)
    /\ debts' \in [DOMAIN debts \cup new -> Debt]
    /\ \A w \in DOMAIN debts : debts'[w] = debts[w]
    /\ \A w \in new : debts'[w].nullifier \notin spent
    /\ \A v, w \in new : debts'[v].nullifier = debts'[w].nullifier => v = w
    /\ spent' = spent \cup {debts'[w].nullifier : w \in new}
    /\ UNCHANGED <<funds, paid>>

\* A debt is paid in full.
Pay(w) ==
    LET debt == debts[w] IN
    /\ debt.payee \in Users /\ debt.units > 0
    /\ CanSend(funds, Pool, debt.denom, debt.units)
    /\ funds' = Send(funds, Pool, debt.payee, debt.denom, debt.units)
    /\ debts' = Drop(debts, w)
    /\ paid' = paid \cup {w}
    /\ UNCHANGED <<open, batches, spent>>

Next ==
    \/ \E u \in Users, d \in Denoms, n \in Units, k \in DepositKeys :
         Open(u, d, n, k)
    \/ \E b \in BatchKeys, keys \in SUBSET open, new \in SUBSET DebtKeys :
         Settle(b, keys, new)
    \/ \E w \in DOMAIN debts : Pay(w)

Spec == Init /\ [][Next]_vars
=============================================================================
