------------------------------ MODULE MCZkdex -------------------------------
(***************************************************************************)
(* Small instances of Zkdex.  The relayers' updates are enumerated: every  *)
(* batch id, pair of roots and list of at most MaxDeposits deposits and    *)
(* MaxWithdrawals withdrawals drawn from the small sets below, valid or    *)
(* not.  Among them are the empty batch id (with empty lists), an          *)
(* unpayable amount, a destination that is nobody's address and a deposit  *)
(* whose amount is not the recorded one.                                   *)
(***************************************************************************)
EXTENDS ZkdexSettlement, SequencesExt

CONSTANTS MaxDeposits, MaxWithdrawals

MCUpdates ==
    LET deps == [depositId : Users \X (1 .. MaxHeight) \X RandomSuffixes, owner : Users,
                 denom : Denoms, amount : Amounts]
        own  == {dep \in deps : dep.owner = dep.depositId[1]}
        outs == [withdrawId : WithdrawIds, denom : Denoms, amount : Amounts,
                 destination : Destinations, nullifier : Nullifiers]
    IN  [batchId : BatchIds \ {Empty}, oldStateRoot : Roots, newStateRoot : Roots,
         deposits : BoundedSeq(own, MaxDeposits),
         withdrawals : BoundedSeq(outs, MaxWithdrawals)]
        \cup [batchId : BatchIds \cap {Empty}, oldStateRoot : Roots, newStateRoot : Roots,
              deposits : {<< >>}, withdrawals : {<< >>}]
=============================================================================
