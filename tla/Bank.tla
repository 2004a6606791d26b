-------------------------------- MODULE Bank --------------------------------
(***************************************************************************)
(* What the modules of ob use of the Cosmos SDK: the x/bank keeper (an     *)
(* external component, modelled from its uses) and the keyed collections   *)
(* of the module stores.                                                   *)
(*                                                                         *)
(* A ledger maps an account to its balance in each denomination.  A        *)
(* transfer is refused, and the transaction that asked for it fails, when  *)
(* the sender holds less than the amount.                                  *)
(***************************************************************************)
EXTENDS Naturals

\* The sender's spendable coins cover the transfer.
CanSend(ledger, from, denom, n) == ledger[from][denom] >= n

\* SendCoinsFromAccountToModule and SendCoinsFromModuleToAccount.
Send(ledger, from, to, denom, n) ==
    LET debited == [ledger EXCEPT ![from][denom] = @ - n]
    IN  [debited EXCEPT ![to][denom] = @ + n]

-----------------------------------------------------------------------------

EmptyStore == [k \in {} |-> {}]

\* collections.Map.Set
Put(store, key, value) ==
    [k \in DOMAIN store \cup {key} |-> IF k = key THEN value ELSE store[k]]

\* collections.Map.Remove
Drop(store, key) == [k \in DOMAIN store \ {key} |-> store[k]]
=============================================================================
