---------------------------- MODULE ZkdexProofs -----------------------------
(***************************************************************************)
(* Proofs about x/zkdex, for every set of users, amounts, updates and      *)
(* every bound: its invariants, among them the chain of roots and the      *)
(* escrow, the action property on payouts, and the refinement of           *)
(* Settlement.                                                             *)
(***************************************************************************)
EXTENDS ZkdexSettlement, BankProofs, SequenceTheorems, FiniteSetTheorems, TLAPS

-----------------------------------------------------------------------------
(***************************************************************************)
(* Lemmas about the operators.                                             *)
(***************************************************************************)

\* A covered transfer between two accounts leaves every balance a natural.
LEMMA SendType ==
    ASSUME NEW ledger \in [Accounts -> [Denoms -> Nat]],
           NEW from \in Accounts, NEW to \in Accounts, NEW d \in Denoms, NEW n \in Nat,
           CanSend(ledger, from, d, n)
    PROVE  Send(ledger, from, to, d, n) \in [Accounts -> [Denoms -> Nat]]
  BY SendKeepsNat

\* A parsed amount is a natural number of units.
LEMMA ParseCoinType == ASSUME NEW a \in Amounts PROVE ParseCoin(a) \in Nat
  BY ZkdexAssumption, SMT DEF ParseCoin

\* The lists of ids of an update are lists.
LEMMA DepositIdsType ==
    ASSUME NEW deposits \in Seq(SettlementDeposit)
    PROVE  DepositIdsOf(deposits) \in Seq(DepositIds)
  <1>1. PICK n \in Nat : deposits \in [1 .. n -> SettlementDeposit]
    BY SeqDef
  <1>2. DepositIdsOf(deposits) \in [1 .. n -> DepositIds]
    BY <1>1 DEF DepositIdsOf, SettlementDeposit
  <1>3. QED
    BY <1>2, SeqDef

LEMMA WithdrawIdsType ==
    ASSUME NEW withdrawals \in Seq(SettlementWithdrawal)
    PROVE  WithdrawIdsOf(withdrawals) \in Seq(WithdrawIds)
  <1>1. PICK n \in Nat : withdrawals \in [1 .. n -> SettlementWithdrawal]
    BY SeqDef
  <1>2. WithdrawIdsOf(withdrawals) \in [1 .. n -> WithdrawIds]
    BY <1>1 DEF WithdrawIdsOf, SettlementWithdrawal
  <1>3. QED
    BY <1>2, SeqDef

\* The record stored for a listed id is the one of an item with that id.
LEMMA NewRecord ==
    ASSUME NEW withdrawals \in Seq(SettlementWithdrawal),
           NEW id \in Elements(WithdrawIdsOf(withdrawals))
    PROVE  \E i \in DOMAIN withdrawals :
             /\ withdrawals[i] \in SettlementWithdrawal
             /\ withdrawals[i].withdrawId = id
             /\ NewWithdrawRecord(withdrawals, id) =
                  [denom |-> withdrawals[i].denom, amount |-> withdrawals[i].amount,
                   destination |-> withdrawals[i].destination,
                   nullifier |-> withdrawals[i].nullifier, claimed |-> FALSE]
  <1>1. \E i \in DOMAIN withdrawals : withdrawals[i].withdrawId = id
    BY DEF Elements, WithdrawIdsOf
  <1>2. \A i \in DOMAIN withdrawals : withdrawals[i] \in SettlementWithdrawal
    OBVIOUS
  <1>3. QED
    BY <1>1, <1>2 DEF NewWithdrawRecord

-----------------------------------------------------------------------------
(***************************************************************************)
(* Type correctness.                                                       *)
(***************************************************************************)

LEMMA InitType == Init => TypeOK
  BY ZkdexAssumption, SMT
  DEF Init, TypeOK, Accounts, Heights, EmptyStore

LEMMA DepositType ==
    ASSUME TypeOK,
           NEW u \in Users, NEW d \in Denoms, NEW a \in Amounts,
           NEW s \in RandomSuffixes, Deposit(u, d, a, s)
    PROVE  TypeOK'
  <1>1. bank' \in [Accounts -> [Denoms -> Nat]]
    BY SendType, ParseCoinType DEF TypeOK, Deposit, EscrowFunds, Accounts
  <1>2. <<u, height, s>> \in DepositIds
    BY DEF TypeOK, DepositIds
  <1>3. [owner |-> u, denom |-> d, amount |-> a, processed |-> FALSE,
         createdHeight |-> height] \in DepositRecord
    BY DEF TypeOK, DepositRecord
  <1>4. /\ DOMAIN depositRecords' \subseteq DepositIds
        /\ depositRecords' \in [DOMAIN depositRecords' -> DepositRecord]
    BY <1>2, <1>3 DEF TypeOK, Deposit, Put
  <1>5. QED
    BY <1>1, <1>4 DEF TypeOK, Deposit

LEMMA SubmitType ==
    ASSUME TypeOK,
           NEW update \in Updates, NEW c \in Commitments, NEW b,
           SubmitBatchProof(update, c, b)
    PROVE  TypeOK'
  <1> DEFINE ids  == Elements(DepositIdsOf(update.deposits))
             wids == Elements(WithdrawIdsOf(update.withdrawals))
  <1>1. update \in SettlementUpdate
    BY ZkdexAssumption
  <1>2. /\ update.deposits \in Seq(SettlementDeposit)
        /\ update.withdrawals \in Seq(SettlementWithdrawal)
    BY <1>1 DEF SettlementUpdate
  <1>3. ids \subseteq DepositIds /\ wids \subseteq WithdrawIds
    BY <1>2, DepositIdsType, WithdrawIdsType DEF Elements
  <1>4. depositProcessed' \subseteq DepositIds
    BY <1>3 DEF TypeOK, SubmitBatchProof, ApplyUpdate, MarkProcessed
  <1>5. /\ DOMAIN depositRecords' \subseteq DepositIds
        /\ depositRecords' \in [DOMAIN depositRecords' -> DepositRecord]
    <2>1. \A id \in DOMAIN depositRecords :
            [depositRecords[id] EXCEPT !.processed = TRUE] \in DepositRecord
      BY DEF TypeOK, DepositRecord
    <2>2. QED
      BY <2>1 DEF TypeOK, SubmitBatchProof, ApplyUpdate, MarkProcessed
  <1>6. nullifierUsed' \subseteq Nullifiers
    <2>1. \A i \in DOMAIN update.withdrawals :
            update.withdrawals[i] \in SettlementWithdrawal
      BY <1>2
    <2>2. Elements(NullifiersOf(update.withdrawals)) \subseteq Nullifiers
      BY <2>1 DEF Elements, NullifiersOf, SettlementWithdrawal
    <2>3. QED
      BY <2>2 DEF TypeOK, SubmitBatchProof, ApplyUpdate, StoreWithdrawals
  <1>7. /\ DOMAIN withdrawRecords' \subseteq WithdrawIds
        /\ withdrawRecords' \in [DOMAIN withdrawRecords' -> WithdrawRecord]
    <2>1. \A id \in wids : NewWithdrawRecord(update.withdrawals, id) \in WithdrawRecord
      <3> TAKE id \in wids
      <3> PICK i \in DOMAIN update.withdrawals :
             /\ update.withdrawals[i] \in SettlementWithdrawal
             /\ NewWithdrawRecord(update.withdrawals, id) =
                  [denom |-> update.withdrawals[i].denom,
                   amount |-> update.withdrawals[i].amount,
                   destination |-> update.withdrawals[i].destination,
                   nullifier |-> update.withdrawals[i].nullifier, claimed |-> FALSE]
        BY <1>2, NewRecord
      <3> QED
        BY DEF WithdrawRecord, SettlementWithdrawal
    <2>2. QED
      BY <1>3, <2>1 DEF TypeOK, SubmitBatchProof, ApplyUpdate, StoreWithdrawals
  <1>8. /\ DOMAIN batchRecords' \subseteq BatchIds
        /\ batchRecords' \in [DOMAIN batchRecords' -> BatchRecord]
    <2>1. [oldStateRoot |-> update.oldStateRoot, newStateRoot |-> update.newStateRoot,
           depositIds |-> DepositIdsOf(update.deposits),
           withdrawIds |-> WithdrawIdsOf(update.withdrawals),
           createdHeight |-> height] \in BatchRecord
      BY <1>1, <1>2, DepositIdsType, WithdrawIdsType
      DEF TypeOK, BatchRecord, SettlementUpdate
    <2>2. QED
      BY <1>1, <2>1
      DEF TypeOK, SubmitBatchProof, ApplyUpdate, Put, SettlementUpdate
  <1>9. stateRoot' \in Roots
    BY <1>1 DEF SubmitBatchProof, ApplyUpdate, SettlementUpdate
  <1>10. QED
    BY <1>4, <1>5, <1>6, <1>7, <1>8, <1>9 DEF TypeOK, SubmitBatchProof

LEMMA ClaimType ==
    ASSUME TypeOK,
           NEW u \in Users, NEW id \in WithdrawIds, ClaimWithdraw(u, id)
    PROVE  TypeOK'
  <1>1. withdrawRecords[id] \in WithdrawRecord
    BY DEF TypeOK, ClaimWithdraw
  <1>2. bank' \in [Accounts -> [Denoms -> Nat]]
    BY <1>1, SendType, ParseCoinType
    DEF TypeOK, ClaimWithdraw, ReleaseFunds, Accounts, WithdrawRecord
  <1>3. [withdrawRecords[id] EXCEPT !.claimed = TRUE] \in WithdrawRecord
    BY <1>1 DEF WithdrawRecord
  <1>4. /\ DOMAIN withdrawRecords' \subseteq WithdrawIds
        /\ withdrawRecords' \in [DOMAIN withdrawRecords' -> WithdrawRecord]
    BY <1>3 DEF TypeOK, ClaimWithdraw, Put
  <1>5. QED
    BY <1>2, <1>4 DEF TypeOK, ClaimWithdraw

LEMMA NextType == TypeOK /\ [Next]_vars => TypeOK'
  <1> SUFFICES ASSUME TypeOK, [Next]_vars PROVE TypeOK'
    OBVIOUS
  <1>1. ASSUME NEW u \in Users, NEW d \in Denoms, NEW a \in Amounts,
               NEW s \in RandomSuffixes, Deposit(u, d, a, s)
        PROVE  TypeOK'
    BY <1>1, DepositType
  <1>2. ASSUME NEW update \in Updates, NEW c \in Commitments, NEW r \in Roots,
               SubmitBatchProof(update, c, <<r, update.newStateRoot, c>>)
        PROVE  TypeOK'
    BY <1>2, SubmitType
  <1>3. ASSUME NEW u \in Users, NEW id \in WithdrawIds, ClaimWithdraw(u, id)
        PROVE  TypeOK'
    BY <1>3, ClaimType
  <1>4. CASE EndBlock
    BY <1>4, ZkdexAssumption DEF EndBlock, TypeOK, Heights
  <1>5. CASE UNCHANGED vars
    BY <1>5 DEF vars, TypeOK
  <1>6. QED
    BY <1>1, <1>2, <1>3, <1>4, <1>5 DEF Next

\* Every reachable state of x/zkdex is well typed: balances, of the users and of
\* the module account, are never negative.
THEOREM TypeCorrect == Spec => []TypeOK
  BY InitType, NextType, PTL DEF Spec

-----------------------------------------------------------------------------
(***************************************************************************)
(* Nullifiers.                                                             *)
(***************************************************************************)

\* What a batch does to the withdrawals on record: it adds the ones it lists,
\* each under its own id with its own nullifier, and changes no other.
LEMMA SubmitWithdrawals ==
    ASSUME TypeOK,
           NEW update \in Updates, NEW c \in Commitments, NEW b,
           SubmitBatchProof(update, c, b)
    PROVE  LET ws    == update.withdrawals
               wids  == Elements(WithdrawIdsOf(ws))
               nulls == Elements(NullifiersOf(ws))
           IN  /\ DOMAIN withdrawRecords' = DOMAIN withdrawRecords \cup wids
               /\ wids \cap DOMAIN withdrawRecords = {}
               /\ \A w \in DOMAIN withdrawRecords : withdrawRecords'[w] = withdrawRecords[w]
               /\ nullifierUsed' = nullifierUsed \cup nulls
               /\ nulls \cap nullifierUsed = {}
               /\ nulls = {withdrawRecords'[w].nullifier : w \in wids}
               /\ \A v, w \in wids :
                    withdrawRecords'[v].nullifier = withdrawRecords'[w].nullifier => v = w
               /\ \A w \in wids : ~ withdrawRecords'[w].claimed
  <1> DEFINE ws    == update.withdrawals
             wids  == Elements(WithdrawIdsOf(ws))
             nulls == Elements(NullifiersOf(ws))
  <1>1. ws \in Seq(SettlementWithdrawal)
    BY ZkdexAssumption DEF SettlementUpdate
  <1>2. ValidWithdrawals(ws) /\ StoreWithdrawals(ws)
    BY DEF SubmitBatchProof, ValidUpdate, ApplyUpdate
  <1>3. /\ wids = {ws[i].withdrawId : i \in DOMAIN ws}
        /\ nulls = {ws[i].nullifier : i \in DOMAIN ws}
    BY DEF Elements, WithdrawIdsOf, NullifiersOf
  <1>4. \A i, j \in DOMAIN ws :
          /\ ws[i].withdrawId = ws[j].withdrawId => i = j
          /\ ws[i].nullifier = ws[j].nullifier => i = j
    BY <1>2 DEF ValidWithdrawals, NoRepeats, WithdrawIdsOf, NullifiersOf
  <1>5. wids \cap DOMAIN withdrawRecords = {} /\ nulls \cap nullifierUsed = {}
    BY <1>2, <1>3 DEF ValidWithdrawals
  <1>6. /\ DOMAIN withdrawRecords' = DOMAIN withdrawRecords \cup wids
        /\ \A w \in wids : withdrawRecords'[w] = NewWithdrawRecord(ws, w)
        /\ \A w \in DOMAIN withdrawRecords : withdrawRecords'[w] = withdrawRecords[w]
        /\ nullifierUsed' = nullifierUsed \cup nulls
    BY <1>2, <1>5 DEF StoreWithdrawals
  <1>7. \A i \in DOMAIN ws :
          /\ ws[i].withdrawId \in wids
          /\ withdrawRecords'[ws[i].withdrawId].nullifier = ws[i].nullifier
          /\ ~ withdrawRecords'[ws[i].withdrawId].claimed
    <2> TAKE i \in DOMAIN ws
    <2>1. ws[i].withdrawId \in wids
      BY <1>3
    <2>2. PICK j \in DOMAIN ws :
            /\ ws[j].withdrawId = ws[i].withdrawId
            /\ NewWithdrawRecord(ws, ws[i].withdrawId) =
                 [denom |-> ws[j].denom, amount |-> ws[j].amount,
                  destination |-> ws[j].destination,
                  nullifier |-> ws[j].nullifier, claimed |-> FALSE]
      BY <1>1, <2>1, NewRecord
    <2>3. withdrawRecords'[ws[i].withdrawId] = NewWithdrawRecord(ws, ws[i].withdrawId)
      BY <1>6, <2>1
    <2>4. j = i
      BY <1>4, <2>2
    <2>5. QED
      BY <2>1, <2>2, <2>3, <2>4
  <1>8. nulls = {withdrawRecords'[w].nullifier : w \in wids}
    BY <1>3, <1>7
  <1>9. \A v, w \in wids :
          withdrawRecords'[v].nullifier = withdrawRecords'[w].nullifier => v = w
    BY <1>3, <1>4, <1>7
  <1>10. \A w \in wids : ~ withdrawRecords'[w].claimed
    BY <1>3, <1>7
  <1>11. QED
    BY <1>5, <1>6, <1>8, <1>9, <1>10

\* A claim changes only the claimed flag of one withdrawal.
LEMMA ClaimRecords ==
    ASSUME TypeOK,
           NEW u \in Users, NEW id \in WithdrawIds, ClaimWithdraw(u, id)
    PROVE  /\ DOMAIN withdrawRecords' = DOMAIN withdrawRecords
           /\ \A w \in DOMAIN withdrawRecords :
                /\ withdrawRecords'[w].denom = withdrawRecords[w].denom
                /\ withdrawRecords'[w].amount = withdrawRecords[w].amount
                /\ withdrawRecords'[w].destination = withdrawRecords[w].destination
                /\ withdrawRecords'[w].nullifier = withdrawRecords[w].nullifier
                /\ w # id => withdrawRecords'[w] = withdrawRecords[w]
           /\ ~ withdrawRecords[id].claimed /\ withdrawRecords'[id].claimed
  BY DEF TypeOK, WithdrawRecord, ClaimWithdraw, Claimable, Put

LEMMA InitNullifiers == Init => NullifierBinding
  BY DEF Init, NullifierBinding, EmptyStore

LEMMA NextNullifiers ==
    TypeOK /\ NullifierBinding /\ [Next]_vars => NullifierBinding'
  <1> SUFFICES ASSUME TypeOK, NullifierBinding, [Next]_vars PROVE NullifierBinding'
    OBVIOUS
  <1>1. ASSUME NEW u \in Users, NEW d \in Denoms, NEW a \in Amounts,
               NEW s \in RandomSuffixes, Deposit(u, d, a, s)
        PROVE  NullifierBinding'
    BY <1>1 DEF Deposit, NullifierBinding
  <1>2. ASSUME NEW update \in Updates, NEW c \in Commitments, NEW r \in Roots,
               SubmitBatchProof(update, c, <<r, update.newStateRoot, c>>)
        PROVE  NullifierBinding'
    <2> DEFINE wids  == Elements(WithdrawIdsOf(update.withdrawals))
               nulls == Elements(NullifiersOf(update.withdrawals))
    <2>1. /\ DOMAIN withdrawRecords' = DOMAIN withdrawRecords \cup wids
          /\ \A w \in DOMAIN withdrawRecords : withdrawRecords'[w] = withdrawRecords[w]
          /\ nullifierUsed' = nullifierUsed \cup nulls
          /\ nulls \cap nullifierUsed = {}
          /\ nulls = {withdrawRecords'[w].nullifier : w \in wids}
          /\ \A v, w \in wids :
               withdrawRecords'[v].nullifier = withdrawRecords'[w].nullifier => v = w
      BY <1>2, SubmitWithdrawals
    <2> HIDE DEF wids, nulls
    <2>2. nullifierUsed' = {withdrawRecords'[w].nullifier : w \in DOMAIN withdrawRecords'}
      BY <2>1 DEF NullifierBinding
    <2>3. \A v, w \in DOMAIN withdrawRecords' :
            withdrawRecords'[v].nullifier = withdrawRecords'[w].nullifier => v = w
      BY <2>1 DEF NullifierBinding
    <2>4. QED
      BY <2>2, <2>3 DEF NullifierBinding
  <1>3. ASSUME NEW u \in Users, NEW id \in WithdrawIds, ClaimWithdraw(u, id)
        PROVE  NullifierBinding'
    <2>1. nullifierUsed' = nullifierUsed
      BY <1>3 DEF ClaimWithdraw
    <2>2. QED
      BY <1>3, <2>1, ClaimRecords DEF NullifierBinding
  <1>4. CASE EndBlock
    BY <1>4 DEF EndBlock, NullifierBinding
  <1>5. CASE UNCHANGED vars
    BY <1>5 DEF vars, NullifierBinding
  <1>6. QED
    BY <1>1, <1>2, <1>3, <1>4, <1>5 DEF Next

\* For every set of updates that relayers may submit, in any order: a nullifier
\* is used exactly when one withdrawal carries it, and never by two.
THEOREM NullifiersBind == Spec => []NullifierBinding
  <1>1. Init => NullifierBinding
    BY InitNullifiers
  <1>2. []TypeOK /\ NullifierBinding /\ [][Next]_vars => []NullifierBinding
    BY NextNullifiers, PTL
  <1>3. QED
    BY <1>1, <1>2, TypeCorrect, PTL DEF Spec

-----------------------------------------------------------------------------
(***************************************************************************)
(* Batches.                                                                *)
(***************************************************************************)

\* What a batch does to the batches on record: it adds itself.
LEMMA SubmitBatch ==
    ASSUME NEW update \in Updates, NEW c \in Commitments, NEW b,
           SubmitBatchProof(update, c, b)
    PROVE  /\ update.batchId \notin DOMAIN batchRecords
           /\ DOMAIN batchRecords' = DOMAIN batchRecords \cup {update.batchId}
           /\ \A k \in DOMAIN batchRecords : batchRecords'[k] = batchRecords[k]
           /\ batchRecords'[update.batchId].depositIds = DepositIdsOf(update.deposits)
           /\ batchRecords'[update.batchId].withdrawIds = WithdrawIdsOf(update.withdrawals)
  BY DEF SubmitBatchProof, ValidUpdate, ApplyUpdate, Put

\* What a batch does to the processed deposits: it adds the ones it lists, which
\* were on record and not processed.
LEMMA SubmitDeposits ==
    ASSUME NEW update \in Updates, NEW c \in Commitments, NEW b,
           SubmitBatchProof(update, c, b)
    PROVE  LET ids == Elements(DepositIdsOf(update.deposits))
           IN  /\ NoRepeats(DepositIdsOf(update.deposits))
               /\ ids \subseteq DOMAIN depositRecords \ depositProcessed
               /\ depositProcessed' = depositProcessed \cup ids
               /\ DOMAIN depositRecords' = DOMAIN depositRecords
  <1>1. ValidDeposits(update.deposits)
    BY DEF SubmitBatchProof, ValidUpdate
  <1>2. MarkProcessed(Elements(DepositIdsOf(update.deposits)))
    BY DEF SubmitBatchProof, ApplyUpdate
  <1>3. Elements(DepositIdsOf(update.deposits))
          \subseteq DOMAIN depositRecords \ depositProcessed
    BY <1>1 DEF ValidDeposits, Elements, DepositIdsOf
  <1>4. QED
    BY <1>1, <1>2, <1>3 DEF ValidDeposits, MarkProcessed

LEMMA NextDepositsSettled ==
    DepositsSettledOnce /\ [Next]_vars => DepositsSettledOnce'
  <1> SUFFICES ASSUME DepositsSettledOnce, [Next]_vars PROVE DepositsSettledOnce'
    OBVIOUS
  <1>1. ASSUME NEW u \in Users, NEW d \in Denoms, NEW a \in Amounts,
               NEW s \in RandomSuffixes, Deposit(u, d, a, s)
        PROVE  DepositsSettledOnce'
    BY <1>1 DEF Deposit, DepositsSettledOnce
  <1>2. ASSUME NEW update \in Updates, NEW c \in Commitments, NEW r \in Roots,
               SubmitBatchProof(update, c, <<r, update.newStateRoot, c>>)
        PROVE  DepositsSettledOnce'
    <2> DEFINE k     == update.batchId
               list  == DepositIdsOf(update.deposits)
               of(j) == Elements(batchRecords[j].depositIds)
    <2>1. /\ k \notin DOMAIN batchRecords
          /\ DOMAIN batchRecords' = DOMAIN batchRecords \cup {k}
          /\ \A j \in DOMAIN batchRecords : batchRecords'[j] = batchRecords[j]
          /\ batchRecords'[k].depositIds = list
      BY <1>2, SubmitBatch
    <2>2. /\ NoRepeats(list)
          /\ Elements(list) \cap depositProcessed = {}
          /\ depositProcessed' = depositProcessed \cup Elements(list)
      BY <1>2, SubmitDeposits
    <2>3. \A j \in DOMAIN batchRecords : of(j) \subseteq depositProcessed
      BY DEF DepositsSettledOnce
    <2>4. \A j \in DOMAIN batchRecords : of(j)' = of(j)
      BY <2>1 DEF Elements
    <2>5. of(k)' = Elements(list)
      BY <2>1 DEF Elements
    <2> HIDE DEF list, k
    <2>6. depositProcessed' = UNION {of(j)' : j \in DOMAIN batchRecords'}
      BY <2>1, <2>2, <2>4, <2>5 DEF DepositsSettledOnce
    <2>7. \A j \in DOMAIN batchRecords' : NoRepeats(batchRecords'[j].depositIds)
      BY <2>1, <2>2 DEF DepositsSettledOnce
    <2>8. \A i, j \in DOMAIN batchRecords' : i # j => of(i)' \cap of(j)' = {}
      BY <2>1, <2>2, <2>3, <2>4, <2>5 DEF DepositsSettledOnce
    <2>9. QED
      BY <2>6, <2>7, <2>8 DEF DepositsSettledOnce
  <1>3. ASSUME NEW u \in Users, NEW id \in WithdrawIds, ClaimWithdraw(u, id)
        PROVE  DepositsSettledOnce'
    BY <1>3 DEF ClaimWithdraw, DepositsSettledOnce
  <1>4. CASE EndBlock
    BY <1>4 DEF EndBlock, DepositsSettledOnce
  <1>5. CASE UNCHANGED vars
    BY <1>5 DEF vars, DepositsSettledOnce
  <1>6. QED
    BY <1>1, <1>2, <1>3, <1>4, <1>5 DEF Next

\* The processed deposits are those that batches list, and no deposit is listed
\* twice, in one batch or in two, whatever ids later deposits draw.
THEOREM DepositsSettled == Spec => []DepositsSettledOnce
  <1>1. Init => DepositsSettledOnce
    BY DEF Init, DepositsSettledOnce, EmptyStore
  <1>2. QED
    BY <1>1, NextDepositsSettled, PTL DEF Spec

LEMMA NextWithdrawalsSettled ==
    TypeOK /\ WithdrawalsSettledOnce /\ [Next]_vars => WithdrawalsSettledOnce'
  <1> SUFFICES ASSUME TypeOK, WithdrawalsSettledOnce, [Next]_vars
               PROVE  WithdrawalsSettledOnce'
    OBVIOUS
  <1>1. ASSUME NEW u \in Users, NEW d \in Denoms, NEW a \in Amounts,
               NEW s \in RandomSuffixes, Deposit(u, d, a, s)
        PROVE  WithdrawalsSettledOnce'
    BY <1>1 DEF Deposit, WithdrawalsSettledOnce
  <1>2. ASSUME NEW update \in Updates, NEW c \in Commitments, NEW r \in Roots,
               SubmitBatchProof(update, c, <<r, update.newStateRoot, c>>)
        PROVE  WithdrawalsSettledOnce'
    <2> DEFINE k     == update.batchId
               list  == WithdrawIdsOf(update.withdrawals)
               of(j) == Elements(batchRecords[j].withdrawIds)
    <2>1. /\ k \notin DOMAIN batchRecords
          /\ DOMAIN batchRecords' = DOMAIN batchRecords \cup {k}
          /\ \A j \in DOMAIN batchRecords : batchRecords'[j] = batchRecords[j]
          /\ batchRecords'[k].withdrawIds = list
      BY <1>2, SubmitBatch
    <2>2. NoRepeats(list)
      BY <1>2 DEF SubmitBatchProof, ValidUpdate, ValidWithdrawals
    <2>3. /\ Elements(list) \cap DOMAIN withdrawRecords = {}
          /\ DOMAIN withdrawRecords' = DOMAIN withdrawRecords \cup Elements(list)
      BY <1>2, SubmitWithdrawals
    <2>4. \A j \in DOMAIN batchRecords : of(j) \subseteq DOMAIN withdrawRecords
      BY DEF WithdrawalsSettledOnce
    <2>5. \A j \in DOMAIN batchRecords : of(j)' = of(j)
      BY <2>1 DEF Elements
    <2>6. of(k)' = Elements(list)
      BY <2>1 DEF Elements
    <2> HIDE DEF list, k
    <2>7. DOMAIN withdrawRecords' = UNION {of(j)' : j \in DOMAIN batchRecords'}
      BY <2>1, <2>3, <2>5, <2>6 DEF WithdrawalsSettledOnce
    <2>8. \A j \in DOMAIN batchRecords' : NoRepeats(batchRecords'[j].withdrawIds)
      BY <2>1, <2>2 DEF WithdrawalsSettledOnce
    <2>9. \A i, j \in DOMAIN batchRecords' : i # j => of(i)' \cap of(j)' = {}
      BY <2>1, <2>3, <2>4, <2>5, <2>6 DEF WithdrawalsSettledOnce
    <2>10. QED
      BY <2>7, <2>8, <2>9 DEF WithdrawalsSettledOnce
  <1>3. ASSUME NEW u \in Users, NEW id \in WithdrawIds, ClaimWithdraw(u, id)
        PROVE  WithdrawalsSettledOnce'
    <2>1. batchRecords' = batchRecords
      BY <1>3 DEF ClaimWithdraw
    <2>2. DOMAIN withdrawRecords' = DOMAIN withdrawRecords
      BY <1>3, ClaimRecords
    <2>3. QED
      BY <2>1, <2>2 DEF WithdrawalsSettledOnce
  <1>4. CASE EndBlock
    BY <1>4 DEF EndBlock, WithdrawalsSettledOnce
  <1>5. CASE UNCHANGED vars
    BY <1>5 DEF vars, WithdrawalsSettledOnce
  <1>6. QED
    BY <1>1, <1>2, <1>3, <1>4, <1>5 DEF Next

\* The withdrawals on record are those that batches list, each listed once.
THEOREM WithdrawalsSettled == Spec => []WithdrawalsSettledOnce
  <1>1. Init => WithdrawalsSettledOnce
    BY DEF Init, WithdrawalsSettledOnce, EmptyStore
  <1>2. QED
    BY <1>1, NextWithdrawalsSettled, TypeCorrect, PTL DEF Spec

-----------------------------------------------------------------------------
(***************************************************************************)
(* Payouts.                                                                *)
(***************************************************************************)

\* An escrow takes nothing from the module account.
LEMMA EscrowKeepsPool ==
    ASSUME TypeOK, NEW u \in Users, NEW d \in Denoms, NEW n \in Nat,
           bank' = Send(bank, u, ModuleAccount, d, n)
    PROVE  \A e \in Denoms : bank'[ModuleAccount][e] >= bank[ModuleAccount][e]
  <1>1. u # ModuleAccount /\ ModuleAccount \in Accounts /\ u \in Accounts
    BY ZkdexAssumption DEF Accounts
  <1>2. bank \in [Accounts -> [Denoms -> Nat]] /\ bank[ModuleAccount] \in [Denoms -> Nat]
    BY <1>1 DEF TypeOK
  <1> DEFINE debited == [bank EXCEPT ![u][d] = @ - n]
  <1>3. debited[ModuleAccount] = bank[ModuleAccount] /\ DOMAIN debited = Accounts
    BY <1>1, <1>2
  <1>4. bank' = [debited EXCEPT ![ModuleAccount][d] = @ + n]
    BY DEF Send
  <1> HIDE DEF debited
  <1>5. bank'[ModuleAccount] = [bank[ModuleAccount] EXCEPT ![d] = @ + n]
    BY <1>1, <1>3, <1>4
  <1>6. QED
    BY <1>2, <1>5

LEMMA NextPayout == TypeOK /\ [Next]_vars => [PayoutStep]_vars
  <1> SUFFICES ASSUME TypeOK, Next PROVE PayoutStep
    OBVIOUS
  <1> USE DEF PayoutStep
  <1>0. bank' = bank => ~ \E d \in Denoms : bank'[ModuleAccount][d] < bank[ModuleAccount][d]
    BY ZkdexAssumption DEF TypeOK, Accounts
  <1>1. ASSUME NEW u \in Users, NEW d \in Denoms, NEW a \in Amounts,
               NEW s \in RandomSuffixes, Deposit(u, d, a, s)
        PROVE  PayoutStep
    <2>1. \A e \in Denoms : bank'[ModuleAccount][e] >= bank[ModuleAccount][e]
      BY <1>1, EscrowKeepsPool, ParseCoinType DEF Deposit, EscrowFunds
    <2>2. /\ bank \in [Accounts -> [Denoms -> Nat]]
          /\ bank' \in [Accounts -> [Denoms -> Nat]]
      BY <1>1, DepositType DEF TypeOK
    <2>3. ~ \E e \in Denoms : bank'[ModuleAccount][e] < bank[ModuleAccount][e]
      BY <2>1, <2>2 DEF Accounts
    <2>4. withdrawRecords' = withdrawRecords
      BY <1>1 DEF Deposit
    <2>5. QED
      BY <2>3, <2>4
  <1>2. ASSUME NEW update \in Updates, NEW c \in Commitments, NEW r \in Roots,
               SubmitBatchProof(update, c, <<r, update.newStateRoot, c>>)
        PROVE  PayoutStep
    <2>1. bank' = bank
      BY <1>2 DEF SubmitBatchProof
    <2>2. \A w \in DOMAIN withdrawRecords :
            w \in DOMAIN withdrawRecords' /\ withdrawRecords'[w] = withdrawRecords[w]
      BY <1>2, SubmitWithdrawals
    <2>3. QED
      BY <1>0, <2>1, <2>2
  <1>3. ASSUME NEW u \in Users, NEW id \in WithdrawIds, ClaimWithdraw(u, id)
        PROVE  PayoutStep
    <2> DEFINE r == withdrawRecords[id]
    <2>1. /\ id \in DOMAIN withdrawRecords
          /\ ~ r.claimed /\ withdrawRecords'[id].claimed
          /\ \A w \in DOMAIN withdrawRecords :
               /\ w \in DOMAIN withdrawRecords'
               /\ w # id => withdrawRecords'[w] = withdrawRecords[w]
      BY <1>3, ClaimRecords DEF ClaimWithdraw
    <2>2. bank' = Send(bank, ModuleAccount, r.destination, r.denom, ParseCoin(r.amount))
      BY <1>3 DEF ClaimWithdraw, Claimable, ReleaseFunds
    <2>3. QED
      BY <2>1, <2>2
  <1>4. CASE EndBlock
    BY <1>0, <1>4 DEF EndBlock
  <1>5. QED
    BY <1>1, <1>2, <1>3, <1>4 DEF Next

\* Coins leave the module account only by the first claim of a withdrawal, to
\* its destination and in its amount.
THEOREM PayoutsAreClaims == Spec => PayoutIsClaim
  BY NextPayout, TypeCorrect, PTL DEF Spec, PayoutIsClaim
-----------------------------------------------------------------------------
(***************************************************************************)
(* The batches form one chain of state roots.  An accepted batch starts at *)
(* the current root, which is where the chain ends, so the chain grows by  *)
(* it at its end.                                                          *)
(***************************************************************************)

\* The inductive invariant: the chain, of finitely many batches, none of which is
\* of a later block than the current one.
ChainInv ==
    /\ RootChain
    /\ IsFiniteSet(DOMAIN batchRecords)
    /\ \A b \in DOMAIN batchRecords : batchRecords[b].createdHeight <= height

LEMMA InitChain == Init => ChainInv
  <1> SUFFICES ASSUME Init PROVE ChainInv
    OBVIOUS
  <1>1. DOMAIN batchRecords = {}
    BY DEF Init, EmptyStore
  <1>2. Cardinality(DOMAIN batchRecords) = 0 /\ IsFiniteSet(DOMAIN batchRecords)
    BY <1>1, FS_EmptySet
  <1> DEFINE order == [i \in 1 .. 0 |-> GenesisRoot]
  <1>3. 1 .. 0 = {}
    OBVIOUS
  <1>4. order \in [1 .. 0 -> DOMAIN batchRecords]
    BY <1>3
  <1>5. ChainOfBatches(order, 0)
    BY <1>1, <1>3 DEF ChainOfBatches, Init
  <1>6. RootChain
    BY <1>2, <1>4, <1>5 DEF RootChain
  <1>7. QED
    BY <1>1, <1>2, <1>6 DEF ChainInv

\* A chain stays one when the batches and the root stay.
LEMMA KeepsChain ==
    ASSUME ChainInv, batchRecords' = batchRecords, stateRoot' = stateRoot,
           height' \in Nat, height \in Nat, height <= height', TypeOK
    PROVE  ChainInv'
  <1>1. RootChain'
    <2>1. PICK n : n = Cardinality(DOMAIN batchRecords)
      OBVIOUS
    <2>2. PICK order \in [1 .. n -> DOMAIN batchRecords] : ChainOfBatches(order, n)
      BY <2>1 DEF ChainInv, RootChain
    <2>3. ChainOfBatches(order, n)'
      BY <2>2 DEF ChainOfBatches
    <2>4. n = Cardinality(DOMAIN batchRecords')
      BY <2>1
    <2>5. QED
      BY <2>2, <2>3, <2>4 DEF RootChain
  <1>2. \A b \in DOMAIN batchRecords : batchRecords[b].createdHeight \in Nat
    BY DEF TypeOK, BatchRecord, Heights
  <1>3. \A b \in DOMAIN batchRecords' : batchRecords'[b].createdHeight <= height'
    BY <1>2 DEF ChainInv
  <1>4. QED
    BY <1>1, <1>3 DEF ChainInv

LEMMA SubmitChain ==
    ASSUME TypeOK, ChainInv,
           NEW update \in Updates, NEW c \in Commitments, NEW b,
           SubmitBatchProof(update, c, b)
    PROVE  ChainInv'
  <1> DEFINE k == update.batchId
             n == Cardinality(DOMAIN batchRecords)
             new == batchRecords'[k]
  <1>1. /\ k \notin DOMAIN batchRecords
        /\ DOMAIN batchRecords' = DOMAIN batchRecords \cup {k}
        /\ \A j \in DOMAIN batchRecords : batchRecords'[j] = batchRecords[j]
    BY SubmitBatch
  <1>2. /\ new.oldStateRoot = stateRoot
        /\ new.newStateRoot = stateRoot'
        /\ new.createdHeight = height
        /\ height' = height
    BY DEF SubmitBatchProof, ValidUpdate, CurrentRoot, ApplyUpdate, Put
  <1>3. /\ IsFiniteSet(DOMAIN batchRecords')
        /\ n \in Nat
        /\ Cardinality(DOMAIN batchRecords') = n + 1
    BY <1>1, FS_AddElement, FS_CardinalityType DEF ChainInv
  <1>4. height \in Nat
    BY DEF TypeOK, Heights
  <1>5. \A j \in DOMAIN batchRecords' : batchRecords'[j].createdHeight <= height'
    BY <1>1, <1>2, <1>4 DEF ChainInv
  <1>6. PICK order \in [1 .. n -> DOMAIN batchRecords] : ChainOfBatches(order, n)
    BY DEF ChainInv, RootChain
  <1> DEFINE longer == [i \in 1 .. (n + 1) |-> IF i = n + 1 THEN k ELSE order[i]]
  <1> HIDE DEF n, k, new
  <1>7. /\ longer[n + 1] = k
        /\ \A i \in 1 .. n : longer[i] = order[i] /\ order[i] \in DOMAIN batchRecords
        /\ \A i \in 1 .. (n + 1) : i \in 1 .. n \/ i = n + 1
        /\ DOMAIN longer = 1 .. (n + 1)
    BY <1>3
  <1>8. longer \in [1 .. (n + 1) -> DOMAIN batchRecords']
    BY <1>1, <1>3, <1>7
  <1> HIDE DEF longer
  <1>9. \A j \in DOMAIN batchRecords' : \E i \in 1 .. (n + 1) : longer[i] = j
    <2>1. \A j \in DOMAIN batchRecords : \E i \in 1 .. n : order[i] = j
      BY <1>6 DEF ChainOfBatches
    <2>2. n + 1 \in 1 .. (n + 1) /\ 1 .. n \subseteq 1 .. (n + 1)
      BY <1>3
    <2>3. QED
      BY <1>1, <1>7, <2>1, <2>2
  <1>10. \A i, j \in 1 .. (n + 1) : longer[i] = longer[j] => i = j
    <2>1. \A i, j \in 1 .. n : order[i] = order[j] => i = j
      BY <1>6 DEF ChainOfBatches
    <2>2. QED
      BY <1>1, <1>7, <2>1
  <1>11. /\ batchRecords'[longer[1]].oldStateRoot = GenesisRoot
         /\ batchRecords'[longer[n + 1]].newStateRoot = stateRoot'
    <2>1. CASE n = 0
      <3>1. stateRoot = GenesisRoot /\ longer[1] = k
        BY <1>6, <1>7, <2>1 DEF ChainOfBatches
      <3>2. QED
        BY <1>2, <1>7, <3>1 DEF new
    <2>2. CASE n # 0
      <3>1. batchRecords[order[1]].oldStateRoot = GenesisRoot
        BY <1>6, <2>2 DEF ChainOfBatches
      <3>2. 1 \in 1 .. n
        BY <1>3, <2>2
      <3>3. QED
        BY <1>1, <1>2, <1>7, <3>1, <3>2 DEF new
    <2>3. QED
      BY <2>1, <2>2
  <1>12. \A i \in 1 .. (n + 1) : i + 1 <= n + 1 =>
           LET e == batchRecords'[longer[i]]
               f == batchRecords'[longer[i + 1]]
           IN  e.newStateRoot = f.oldStateRoot /\ e.createdHeight <= f.createdHeight
    <2> TAKE i \in 1 .. (n + 1)
    <2> HAVE i + 1 <= n + 1
    <2>1. i \in 1 .. n /\ batchRecords'[longer[i]] = batchRecords[order[i]]
      BY <1>1, <1>3, <1>7
    <2>2. CASE i + 1 <= n
      <3>1. i + 1 \in 1 .. n
        BY <1>3, <2>2
      <3>2. batchRecords'[longer[i + 1]] = batchRecords[order[i + 1]]
        BY <1>1, <1>7, <3>1
      <3>3. /\ batchRecords[order[i]].newStateRoot = batchRecords[order[i + 1]].oldStateRoot
            /\ batchRecords[order[i]].createdHeight
                 <= batchRecords[order[i + 1]].createdHeight
        BY <1>6, <2>1, <2>2 DEF ChainOfBatches
      <3>4. QED
        BY <2>1, <3>2, <3>3
    <2>3. CASE ~ (i + 1 <= n)
      <3>1. i = n /\ n # 0
        BY <1>3, <2>1, <2>3
      <3>2. batchRecords'[longer[i + 1]] = new
        BY <1>7, <3>1 DEF new
      <3>3. batchRecords[order[i]].newStateRoot = stateRoot
        BY <1>6, <3>1 DEF ChainOfBatches
      <3>4. batchRecords[order[i]].createdHeight <= height
        BY <1>7, <2>1 DEF ChainInv
      <3>5. QED
        BY <1>2, <2>1, <3>2, <3>3, <3>4
    <2>4. QED
      BY <2>2, <2>3
  <1>13. PICK m, o : m = n + 1 /\ o = longer
    OBVIOUS
  <1>14. RootChain'
    <2>1. m # 0 /\ m = Cardinality(DOMAIN batchRecords')
      BY <1>3, <1>13
    <2>2. ChainOfBatches(o, m)'
      BY <1>9, <1>10, <1>11, <1>12, <1>13, <2>1 DEF ChainOfBatches
    <2>3. o \in [1 .. m -> DOMAIN batchRecords']
      BY <1>8, <1>13
    <2>4. QED
      BY <2>1, <2>2, <2>3 DEF RootChain
  <1>15. QED
    BY <1>3, <1>5, <1>14 DEF ChainInv

LEMMA NextChain == TypeOK /\ TypeOK' /\ ChainInv /\ [Next]_vars => ChainInv'
  <1> SUFFICES ASSUME TypeOK, TypeOK', ChainInv, [Next]_vars PROVE ChainInv'
    OBVIOUS
  <1>0. height \in Nat /\ height' \in Nat
    BY DEF TypeOK, Heights
  <1>1. ASSUME NEW u \in Users, NEW d \in Denoms, NEW a \in Amounts,
               NEW s \in RandomSuffixes, Deposit(u, d, a, s)
        PROVE  ChainInv'
    BY <1>0, <1>1, KeepsChain DEF Deposit
  <1>2. ASSUME NEW update \in Updates, NEW c \in Commitments, NEW r \in Roots,
               SubmitBatchProof(update, c, <<r, update.newStateRoot, c>>)
        PROVE  ChainInv'
    BY <1>2, SubmitChain
  <1>3. ASSUME NEW u \in Users, NEW id \in WithdrawIds, ClaimWithdraw(u, id)
        PROVE  ChainInv'
    BY <1>0, <1>3, KeepsChain DEF ClaimWithdraw
  <1>4. CASE EndBlock
    BY <1>0, <1>4, KeepsChain DEF EndBlock
  <1>5. CASE UNCHANGED vars
    BY <1>0, <1>5, KeepsChain DEF vars
  <1>6. QED
    BY <1>1, <1>2, <1>3, <1>4, <1>5 DEF Next

\* However many relayers compete, the batches on record form one chain of state
\* roots from the genesis root to the current one, in the order of their blocks.
THEOREM RootsChain == Spec => []RootChain
  <1>1. ChainInv => RootChain
    BY DEF ChainInv
  <1>2. QED
    BY <1>1, InitChain, NextChain, TypeCorrect, PTL DEF Spec

-----------------------------------------------------------------------------
(***************************************************************************)
(* The escrow backs the books.  A deposit adds what it escrows to its      *)
(* record, a claim takes from the escrow what its record says, and no      *)
(* other step touches an amount on record.                                 *)
(***************************************************************************)

\* The units of the records of a store, and their sum over some keys.
RecordUnits(records) == [k \in DOMAIN records |-> ParseCoin(records[k].amount)]

LEMMA SumOfRecords ==
    ASSUME NEW records, NEW S \in SUBSET (DOMAIN records), IsFiniteSet(S),
           RecordUnits(records) \in [DOMAIN records -> Nat]
    PROVE  MapThenSumSet(LAMBDA k : ParseCoin(records[k].amount), S)
             = Total(RecordUnits(records), S)
  <1> DEFINE f == [k \in S |-> RecordUnits(records)[k]]
             G(h) == [s \in SUBSET S |->
                        IF s = {} THEN 0
                        ELSE ParseCoin(records[CHOOSE k \in s : TRUE].amount)
                               + h[s \ {CHOOSE k \in s : TRUE}]]
             it == CHOOSE h : h = G(h)
  <1>1. MapThenSumSet(LAMBDA k : ParseCoin(records[k].amount), S) = it[S]
    BY DEF MapThenSumSet, MapThenFoldSet
  <1>2. ASSUME NEW h PROVE FoldStep(f, S, h) = G(h)
    BY DEF FoldStep, RecordUnits
  <1>3. f \in [S -> Nat]
    OBVIOUS
  <1>4. Total(f, S) = Total(RecordUnits(records), S)
    BY TotalSame
  <1> HIDE DEF f, G
  <1>5. it = FoldStep(f, S, it)
    <2>1. \E h : h = FoldStep(f, S, h)
      BY <1>3, FoldExists
    <2>2. \E h : h = G(h)
      BY <1>2, <2>1
    <2>3. it = G(it)
      BY <2>2
    <2>4. QED
      BY <1>2, <2>3
  <1> HIDE DEF it
  <1>6. QED
    BY <1>1, <1>3, <1>4, <1>5, FoldIsTotal

\* The deposits on record, and the withdrawals claimed, of a denomination.
DepositsIn(records, d) == {id \in DOMAIN records : records[id].denom = d}
ClaimsIn(records, d) ==
    {w \in DOMAIN records : records[w].claimed /\ records[w].denom = d}

LEMMA DepositUnitsType ==
    TypeOK => RecordUnits(depositRecords) \in [DOMAIN depositRecords -> Nat]
  BY ParseCoinType DEF RecordUnits, TypeOK, DepositRecord

LEMMA WithdrawUnitsType ==
    TypeOK => RecordUnits(withdrawRecords) \in [DOMAIN withdrawRecords -> Nat]
  BY ParseCoinType DEF RecordUnits, TypeOK, WithdrawRecord

LEMMA DepositedIsTotal ==
    TypeOK /\ IsFiniteSet(DOMAIN depositRecords) =>
      \A d \in Denoms :
        DepositedUnits(d) = Total(RecordUnits(depositRecords), DepositsIn(depositRecords, d))
  <1> SUFFICES ASSUME TypeOK, IsFiniteSet(DOMAIN depositRecords), NEW d \in Denoms
               PROVE  DepositedUnits(d)
                        = Total(RecordUnits(depositRecords), DepositsIn(depositRecords, d))
    OBVIOUS
  <1> DEFINE S == DepositsIn(depositRecords, d)
  <1>1. S \in SUBSET (DOMAIN depositRecords)
    BY DEF DepositsIn
  <1>2. IsFiniteSet(S)
    BY <1>1, FS_Subset
  <1> HIDE DEF S
  <1>3. MapThenSumSet(LAMBDA k : ParseCoin(depositRecords[k].amount), S)
          = Total(RecordUnits(depositRecords), S)
    BY <1>1, <1>2, DepositUnitsType, SumOfRecords
  <1>4. QED
    BY <1>3 DEF DepositedUnits, DepositsIn, S

LEMMA ClaimedIsTotal ==
    TypeOK /\ IsFiniteSet(DOMAIN withdrawRecords) =>
      \A d \in Denoms :
        ClaimedUnits(d) = Total(RecordUnits(withdrawRecords), ClaimsIn(withdrawRecords, d))
  <1> SUFFICES ASSUME TypeOK, IsFiniteSet(DOMAIN withdrawRecords), NEW d \in Denoms
               PROVE  ClaimedUnits(d)
                        = Total(RecordUnits(withdrawRecords), ClaimsIn(withdrawRecords, d))
    OBVIOUS
  <1> DEFINE S == ClaimsIn(withdrawRecords, d)
  <1>1. S \in SUBSET (DOMAIN withdrawRecords)
    BY DEF ClaimsIn
  <1>2. IsFiniteSet(S)
    BY <1>1, FS_Subset
  <1> HIDE DEF S
  <1>3. MapThenSumSet(LAMBDA k : ParseCoin(withdrawRecords[k].amount), S)
          = Total(RecordUnits(withdrawRecords), S)
    BY <1>1, <1>2, WithdrawUnitsType, SumOfRecords
  <1>4. QED
    BY <1>3 DEF ClaimedUnits, ClaimsIn, S

\* The invariant in sums.
Backed(d) ==
    bank[ModuleAccount][d] + Total(RecordUnits(withdrawRecords), ClaimsIn(withdrawRecords, d))
      >= Total(RecordUnits(depositRecords), DepositsIn(depositRecords, d))

BackedInv ==
    /\ IsFiniteSet(DOMAIN depositRecords)
    /\ IsFiniteSet(DOMAIN withdrawRecords)
    /\ \A d \in Denoms : Backed(d)

LEMMA BackedIsEscrow == TypeOK /\ BackedInv => EscrowBacksRecords
  BY DepositedIsTotal, ClaimedIsTotal DEF BackedInv, Backed, EscrowBacksRecords

LEMMA InitBacked == Init => BackedInv
  <1> SUFFICES ASSUME Init PROVE BackedInv
    OBVIOUS
  <1>1. DOMAIN depositRecords = {} /\ DOMAIN withdrawRecords = {}
    BY DEF Init, EmptyStore
  <1>2. ASSUME NEW d \in Denoms PROVE Backed(d)
    <2>1. DepositsIn(depositRecords, d) = {} /\ ClaimsIn(withdrawRecords, d) = {}
      BY <1>1 DEF DepositsIn, ClaimsIn
    <2>2. bank[ModuleAccount][d] = 0
      BY DEF Init, Accounts
    <2>3. QED
      BY <2>1, <2>2, TotalEmpty DEF Backed
  <1>3. QED
    BY <1>1, <1>2, FS_EmptySet DEF BackedInv

\* A deposit adds at least what its record adds to the books, and loses no record
\* but the one that it may overwrite.
LEMMA DepositBacked ==
    ASSUME TypeOK, BackedInv,
           NEW u \in Users, NEW d \in Denoms, NEW a \in Amounts, NEW s \in RandomSuffixes,
           Deposit(u, d, a, s), TypeOK'
    PROVE  BackedInv'
  <1> DEFINE id == <<u, height, s>>
             n  == ParseCoin(a)
             R  == RecordUnits(depositRecords)
             R1 == RecordUnits(depositRecords')
  <1>1. u # ModuleAccount /\ u \in Accounts /\ ModuleAccount \in Accounts
    BY ZkdexAssumption DEF Accounts
  <1>2. bank \in [Accounts -> [Denoms -> Nat]] /\ n \in Nat /\ CanSend(bank, u, d, n)
    BY ParseCoinType DEF TypeOK, Deposit, EscrowFunds
  <1>3. \A e \in Denoms : bank'[ModuleAccount][e]
          = IF e = d THEN bank[ModuleAccount][e] + n ELSE bank[ModuleAccount][e]
    <2>1. bank' = Send(bank, u, ModuleAccount, d, n)
      BY DEF Deposit, EscrowFunds
    <2> HIDE DEF n
    <2>2. \A e \in Denoms : Send(bank, u, ModuleAccount, d, n)[ModuleAccount][e]
            = IF e = d THEN bank[ModuleAccount][e] + n ELSE bank[ModuleAccount][e]
      BY <1>1, <1>2, SendMoves
    <2>3. QED
      BY <2>1, <2>2
  <1>4. /\ DOMAIN depositRecords' = DOMAIN depositRecords \cup {id}
        /\ depositRecords'[id].denom = d /\ depositRecords'[id].amount = a
        /\ \A k \in DOMAIN depositRecords : k # id => depositRecords'[k] = depositRecords[k]
    BY DEF Deposit, Put
  <1>5. IsFiniteSet(DOMAIN depositRecords) /\ IsFiniteSet(DOMAIN depositRecords')
    BY <1>4, FS_AddElement DEF BackedInv
  <1>6. withdrawRecords' = withdrawRecords
    BY DEF Deposit
  <1>7. /\ R \in [DOMAIN depositRecords -> Nat]
        /\ R1 \in [DOMAIN depositRecords' -> Nat]
        /\ R1[id] = n
        /\ \A k \in DOMAIN depositRecords : k # id => R1[k] = R[k]
    <2>1. R \in [DOMAIN depositRecords -> Nat]
      BY DepositUnitsType
    <2>2. depositRecords' \in [DOMAIN depositRecords' -> DepositRecord]
      BY DEF TypeOK
    <2>3. R1 \in [DOMAIN depositRecords' -> Nat]
      BY <2>2, ParseCoinType DEF RecordUnits, DepositRecord
    <2>4. QED
      BY <1>4, <2>1, <2>3 DEF RecordUnits
  <1> HIDE DEF id, n, R, R1
  <1>8. ASSUME NEW e \in Denoms PROVE Backed(e)'
    <2> DEFINE S  == DepositsIn(depositRecords, e)
               S1 == DepositsIn(depositRecords', e)
               C  == Total(RecordUnits(withdrawRecords), ClaimsIn(withdrawRecords, e))
    <2>1. S \in SUBSET (DOMAIN depositRecords) /\ IsFiniteSet(S)
      BY <1>5, FS_Subset DEF DepositsIn
    <2>2. S1 \in SUBSET (DOMAIN depositRecords') /\ IsFiniteSet(S1)
      BY <1>5, FS_Subset DEF DepositsIn
    <2>3. S1 \ {id} = S \ {id} /\ (id \in S1 <=> e = d)
      BY <1>4 DEF DepositsIn
    <2> HIDE DEF S, S1
    <2>4. Total(R1, S1 \ {id}) <= Total(R, S)
      <3>1. Total(R1, S1 \ {id}) = Total(R, S1 \ {id})
        BY <1>4, <1>7, <2>2, TotalSame
      <3>2. Total(R, S \ {id}) <= Total(R, S)
        BY <1>7, <2>1, TotalPart
      <3>3. QED
        BY <2>3, <3>1, <3>2
    <2>5. bank[ModuleAccount][e] + C >= Total(R, S)
      BY DEF BackedInv, Backed, R, S
    <2>6. /\ Total(R, S) \in Nat /\ Total(R1, S1 \ {id}) \in Nat
          /\ C \in Nat /\ bank[ModuleAccount][e] \in Nat
      <3>1. Total(R, S) \in Nat
        BY <1>7, <2>1, TotalType
      <3>2. Total(R1, S1 \ {id}) \in Nat
        <4>1. IsFiniteSet(S1 \ {id}) /\ S1 \ {id} \in SUBSET (DOMAIN depositRecords')
          BY <2>2, FS_Subset
        <4>2. QED
          BY <1>7, <4>1, TotalType
      <3>3. C \in Nat
        <4>1. IsFiniteSet(ClaimsIn(withdrawRecords, e))
              /\ ClaimsIn(withdrawRecords, e) \in SUBSET (DOMAIN withdrawRecords)
          BY FS_Subset DEF ClaimsIn, BackedInv
        <4>2. QED
          BY <4>1, WithdrawUnitsType, TotalType
      <3>4. QED
        BY <1>1, <1>2, <3>1, <3>2, <3>3
    <2>7. Backed(e)' <=> (bank'[ModuleAccount][e] + C >= Total(R1, S1))
      BY <1>6 DEF Backed, R1, S1
    <2> HIDE DEF C
    <2>8. CASE e = d
      <3>1. Total(R1, S1) = n + Total(R1, S1 \ {id})
        BY <1>7, <2>2, <2>3, <2>8, TotalSplit
      <3>2. bank'[ModuleAccount][e] = bank[ModuleAccount][e] + n
        BY <1>1, <1>2, <1>3, <2>8
      <3>3. QED
        BY <1>2, <2>4, <2>5, <2>6, <2>7, <3>1, <3>2
    <2>9. CASE e # d
      <3>1. Total(R1, S1) = Total(R1, S1 \ {id})
        <4>1. S1 = S1 \ {id}
          BY <2>3, <2>9
        <4>2. QED
          BY <4>1
      <3>2. bank'[ModuleAccount][e] = bank[ModuleAccount][e]
        BY <1>1, <1>2, <1>3, <2>9
      <3>3. QED
        BY <2>4, <2>5, <2>6, <2>7, <3>1, <3>2
    <2>10. QED
      BY <2>8, <2>9
  <1>9. QED
    BY <1>5, <1>6, <1>8 DEF BackedInv

\* A claim adds to the claimed withdrawals what it takes from the escrow.
LEMMA ClaimBacked ==
    ASSUME TypeOK, BackedInv,
           NEW u \in Users, NEW id \in WithdrawIds, ClaimWithdraw(u, id), TypeOK'
    PROVE  BackedInv'
  <1> DEFINE n  == ParseCoin(withdrawRecords[id].amount)
             d  == withdrawRecords[id].denom
             R  == RecordUnits(withdrawRecords)
             R1 == RecordUnits(withdrawRecords')
             D  == DOMAIN withdrawRecords
  <1>1. u # ModuleAccount /\ u \in Accounts /\ ModuleAccount \in Accounts
    BY ZkdexAssumption DEF Accounts
  <1>2. id \in D /\ d \in Denoms /\ n \in Nat
    BY ParseCoinType DEF ClaimWithdraw, TypeOK, WithdrawRecord
  <1>3. /\ bank \in [Accounts -> [Denoms -> Nat]]
        /\ CanSend(bank, ModuleAccount, d, n)
        /\ bank' = Send(bank, ModuleAccount, u, d, n)
    BY DEF TypeOK, ClaimWithdraw, ReleaseFunds
  <1>4. bank[ModuleAccount][d] >= n
    BY <1>3 DEF CanSend
  <1>5. /\ DOMAIN withdrawRecords' = D
        /\ \A w \in D : /\ withdrawRecords'[w].denom = withdrawRecords[w].denom
                        /\ withdrawRecords'[w].amount = withdrawRecords[w].amount
                        /\ w # id => withdrawRecords'[w] = withdrawRecords[w]
        /\ ~ withdrawRecords[id].claimed /\ withdrawRecords'[id].claimed
    BY ClaimRecords
  <1>6. depositRecords' = depositRecords
    BY DEF ClaimWithdraw
  <1>7. IsFiniteSet(D)
    BY DEF BackedInv
  <1>8. R \in [D -> Nat] /\ R1 = R /\ R[id] = n
    BY <1>2, <1>5, WithdrawUnitsType DEF RecordUnits
  <1> HIDE DEF n, R, R1
  <1>9. \A e \in Denoms : bank'[ModuleAccount][e]
          = IF e = d THEN bank[ModuleAccount][e] - n ELSE bank[ModuleAccount][e]
    <2> HIDE DEF d
    <2>1. QED
      BY <1>1, <1>2, <1>3, SendMoves
  <1>10. ASSUME NEW e \in Denoms PROVE Backed(e)'
    <2> DEFINE C  == ClaimsIn(withdrawRecords, e)
               C1 == ClaimsIn(withdrawRecords', e)
               T  == Total(RecordUnits(depositRecords), DepositsIn(depositRecords, e))
    <2>1. C \in SUBSET D /\ IsFiniteSet(C)
      BY <1>7, FS_Subset DEF ClaimsIn
    <2>2. C1 \in SUBSET D /\ IsFiniteSet(C1)
      BY <1>5, <1>7, FS_Subset DEF ClaimsIn
    <2>3. C1 \ {id} = C /\ (id \in C1 <=> e = d)
      BY <1>2, <1>5 DEF ClaimsIn
    <2>4. bank[ModuleAccount][e] + Total(R, C) >= T
      BY DEF BackedInv, Backed, R
    <2>5. /\ T \in Nat /\ Total(R, C) \in Nat
          /\ bank[ModuleAccount][e] \in Nat
      <3>1. Total(R, C) \in Nat
        BY <1>8, <2>1, TotalType
      <3>2. T \in Nat
        <4>1. IsFiniteSet(DepositsIn(depositRecords, e))
              /\ DepositsIn(depositRecords, e) \in SUBSET (DOMAIN depositRecords)
          BY FS_Subset DEF DepositsIn, BackedInv
        <4>2. QED
          BY <4>1, DepositUnitsType, TotalType
      <3>3. QED
        BY <1>1, <1>3, <3>1, <3>2
    <2>6. Backed(e)' <=> (bank'[ModuleAccount][e] + Total(R, C1) >= T)
      BY <1>6, <1>8 DEF Backed, R, R1
    <2> HIDE DEF C, C1, T, d
    <2>7. CASE e = d
      <3>1. Total(R, C1) = n + Total(R, C)
        BY <1>8, <2>2, <2>3, <2>7, TotalSplit
      <3>2. bank'[ModuleAccount][e] = bank[ModuleAccount][e] - n
        BY <1>9, <2>7
      <3>3. QED
        BY <1>2, <2>4, <2>5, <2>6, <3>1, <3>2
    <2>8. CASE e # d
      <3>1. C1 = C
        BY <2>3, <2>8
      <3>2. bank'[ModuleAccount][e] = bank[ModuleAccount][e]
        BY <1>9, <2>8
      <3>3. QED
        BY <2>4, <2>6, <3>1, <3>2
    <2>9. QED
      BY <2>7, <2>8
  <1>11. QED
    BY <1>5, <1>6, <1>7, <1>10 DEF BackedInv

\* A batch moves no coins, changes no amount on record and adds unclaimed
\* withdrawals only.
LEMMA SubmitBacked ==
    ASSUME TypeOK, BackedInv,
           NEW update \in Updates, NEW c \in Commitments, NEW b,
           SubmitBatchProof(update, c, b)
    PROVE  BackedInv'
  <1> DEFINE wids == Elements(WithdrawIdsOf(update.withdrawals))
  <1>1. /\ DOMAIN withdrawRecords' = DOMAIN withdrawRecords \cup wids
        /\ wids \cap DOMAIN withdrawRecords = {}
        /\ \A w \in DOMAIN withdrawRecords : withdrawRecords'[w] = withdrawRecords[w]
        /\ \A w \in wids : ~ withdrawRecords'[w].claimed
    BY SubmitWithdrawals
  <1>2. /\ bank' = bank
        /\ DOMAIN depositRecords' = DOMAIN depositRecords
        /\ \A id \in DOMAIN depositRecords :
             /\ depositRecords'[id].denom = depositRecords[id].denom
             /\ depositRecords'[id].amount = depositRecords[id].amount
    BY DEF SubmitBatchProof, ApplyUpdate, MarkProcessed, TypeOK, DepositRecord
  <1>3. IsFiniteSet(wids)
    <2>1. update.withdrawals \in Seq(SettlementWithdrawal)
      BY ZkdexAssumption DEF SettlementUpdate
    <2> DEFINE ws  == update.withdrawals
               ids == [i \in DOMAIN ws |-> ws[i].withdrawId]
    <2>2. IsFiniteSet(DOMAIN ws)
      <3>1. DOMAIN ws = 1 .. Len(ws) /\ Len(ws) \in Nat
        BY <2>1
      <3>2. QED
        BY <3>1, FS_Interval
    <2>3. wids = {ids[i] : i \in DOMAIN ws}
      BY DEF Elements, WithdrawIdsOf
    <2> HIDE DEF ws
    <2>4. ids \in Surjection(DOMAIN ws, wids)
      BY <2>3 DEF Surjection
    <2> HIDE DEF ids, wids
    <2>5. QED
      BY <2>2, <2>4, FS_Surjection
  <1>4. /\ IsFiniteSet(DOMAIN depositRecords) /\ IsFiniteSet(DOMAIN depositRecords')
        /\ IsFiniteSet(DOMAIN withdrawRecords) /\ IsFiniteSet(DOMAIN withdrawRecords')
    BY <1>1, <1>2, <1>3, FS_Union DEF BackedInv
  <1> HIDE DEF wids
  <1>5. RecordUnits(depositRecords') = RecordUnits(depositRecords)
    BY <1>2 DEF RecordUnits
  <1>6. ASSUME NEW d \in Denoms PROVE Backed(d)'
    <2>1. DepositsIn(depositRecords', d) = DepositsIn(depositRecords, d)
      BY <1>2 DEF DepositsIn
    <2>2. ClaimsIn(withdrawRecords', d) = ClaimsIn(withdrawRecords, d)
      BY <1>1 DEF ClaimsIn
    <2>3. \A w \in ClaimsIn(withdrawRecords, d) :
            RecordUnits(withdrawRecords')[w] = RecordUnits(withdrawRecords)[w]
      BY <1>1 DEF ClaimsIn, RecordUnits
    <2>4. Total(RecordUnits(withdrawRecords'), ClaimsIn(withdrawRecords, d))
            = Total(RecordUnits(withdrawRecords), ClaimsIn(withdrawRecords, d))
      BY <2>3, TotalSame
    <2>5. QED
      BY <1>2, <1>5, <2>1, <2>2, <2>4 DEF Backed, BackedInv
  <1>7. QED
    BY <1>4, <1>6 DEF BackedInv

LEMMA NextBacked == TypeOK /\ TypeOK' /\ BackedInv /\ [Next]_vars => BackedInv'
  <1> SUFFICES ASSUME TypeOK, TypeOK', BackedInv, [Next]_vars PROVE BackedInv'
    OBVIOUS
  <1>1. ASSUME NEW u \in Users, NEW d \in Denoms, NEW a \in Amounts,
               NEW s \in RandomSuffixes, Deposit(u, d, a, s)
        PROVE  BackedInv'
    BY <1>1, DepositBacked
  <1>2. ASSUME NEW update \in Updates, NEW c \in Commitments, NEW r \in Roots,
               SubmitBatchProof(update, c, <<r, update.newStateRoot, c>>)
        PROVE  BackedInv'
    BY <1>2, SubmitBacked
  <1>3. ASSUME NEW u \in Users, NEW id \in WithdrawIds, ClaimWithdraw(u, id)
        PROVE  BackedInv'
    BY <1>3, ClaimBacked
  <1>4. CASE EndBlock \/ UNCHANGED vars
    BY <1>4 DEF EndBlock, vars, BackedInv, Backed
  <1>5. QED
    BY <1>1, <1>2, <1>3, <1>4 DEF Next

\* What the module account holds, plus what was claimed, covers the deposits on
\* record.
THEOREM EscrowBacked == Spec => []EscrowBacksRecords
  BY InitBacked, NextBacked, BackedIsEscrow, TypeCorrect, PTL DEF Spec
-----------------------------------------------------------------------------
(***************************************************************************)
(* x/zkdex implements Settlement.  Every handler maps to one step of the   *)
(* contract and the end of a block to a stutter.  The mapping needs two    *)
(* invariants: types, and that the processed deposits are the ones that    *)
(* batches list.                                                           *)
(***************************************************************************)

\* The deposits that the contract sees as settled are the processed ones.
LEMMA SettledIsProcessed == DepositsSettledOnce => Contract!Settled = depositProcessed
  BY DEF DepositsSettledOnce, Contract!Settled, SettledByBatch

LEMMA DebtsOnly == DOMAIN Debts = Unclaimed /\ Unclaimed \cup Claimed = DOMAIN withdrawRecords
  BY DEF Debts, Unclaimed, Claimed

\* A record of x/zkdex is a debt of the contract.
LEMMA DebtOfType ==
    ASSUME NEW record \in WithdrawRecord PROVE DebtOf(record) \in Contract!Debt
  BY DEF WithdrawRecord, DebtOf, Contract!Debt

LEMMA DebtNullifier == ASSUME NEW record PROVE DebtOf(record).nullifier = record.nullifier
  BY DEF DebtOf

LEMMA InitRefines == Init => Contract!Init
  <1> SUFFICES ASSUME Init PROVE Contract!Init
    OBVIOUS
  <1>1. OpenDeposits = {} /\ Claimed = {} /\ Unclaimed = {}
    BY DEF Init, OpenDeposits, Claimed, Unclaimed, EmptyStore
  <1>2. Debts = Contract!EmptyStore
    BY <1>1 DEF Debts, Contract!EmptyStore
  <1>3. SettledByBatch = Contract!EmptyStore
    BY DEF Init, SettledByBatch, EmptyStore, Contract!EmptyStore
  <1>4. QED
    BY <1>1, <1>2, <1>3 DEF Init, Contract!Init, Accounts

LEMMA DepositRefines ==
    ASSUME TypeOK, DepositsSettledOnce,
           NEW u \in Users, NEW d \in Denoms, NEW a \in Amounts,
           NEW s \in RandomSuffixes, Deposit(u, d, a, s)
    PROVE  Contract!Open(u, d, ParseCoin(a), <<u, height, s>>)
  <1>1. /\ ParseCoin(a) > 0
        /\ Contract!CanSend(bank, u, d, ParseCoin(a))
        /\ bank' = Contract!Send(bank, u, ModuleAccount, d, ParseCoin(a))
    BY DEF Deposit, EscrowFunds, CanSend, Send, Contract!CanSend, Contract!Send
  <1>2. OpenDeposits' = OpenDeposits \cup ({<<u, height, s>>} \ Contract!Settled)
    BY SettledIsProcessed DEF Deposit, OpenDeposits, Put
  <1>3. UNCHANGED <<SettledByBatch, Debts, Claimed, nullifierUsed>>
    BY DEF Deposit, SettledByBatch, Debts, Claimed, Unclaimed
  <1>4. QED
    BY <1>1, <1>2, <1>3 DEF Contract!Open

LEMMA SubmitRefines ==
    ASSUME TypeOK, TypeOK', NEW update \in Updates, NEW c \in Commitments, NEW b,
           SubmitBatchProof(update, c, b)
    PROVE  Contract!Settle(update.batchId, Elements(DepositIdsOf(update.deposits)),
                           Elements(WithdrawIdsOf(update.withdrawals)))
  <1> DEFINE k    == update.batchId
             ids  == Elements(DepositIdsOf(update.deposits))
             wids == Elements(WithdrawIdsOf(update.withdrawals))
             nulls == Elements(NullifiersOf(update.withdrawals))
  <1>1. /\ ids \subseteq OpenDeposits
        /\ OpenDeposits' = OpenDeposits \ ids
    BY SubmitDeposits DEF OpenDeposits
  <1>2. /\ k \notin DOMAIN SettledByBatch
        /\ SettledByBatch' = Contract!Put(SettledByBatch, k, ids)
    BY SubmitBatch DEF SettledByBatch, Contract!Put, Elements
  <1>3. /\ DOMAIN withdrawRecords' = DOMAIN withdrawRecords \cup wids
        /\ wids \cap DOMAIN withdrawRecords = {}
        /\ \A w \in DOMAIN withdrawRecords : withdrawRecords'[w] = withdrawRecords[w]
        /\ nullifierUsed' = nullifierUsed \cup nulls
        /\ nulls \cap nullifierUsed = {}
        /\ nulls = {withdrawRecords'[w].nullifier : w \in wids}
        /\ \A v, w \in wids :
             withdrawRecords'[v].nullifier = withdrawRecords'[w].nullifier => v = w
        /\ \A w \in wids : ~ withdrawRecords'[w].claimed
    BY SubmitWithdrawals
  <1> HIDE DEF ids, wids, nulls, k
  <1>4. Unclaimed' = Unclaimed \cup wids /\ Claimed' = Claimed
    BY <1>3 DEF Unclaimed, Claimed
  <1>5. \A w \in Unclaimed' : Debts'[w] = DebtOf(withdrawRecords'[w])
    BY DEF Debts
  <1>6. Debts' \in [DOMAIN Debts \cup wids -> Contract!Debt]
    <2>1. \A w \in Unclaimed' : DebtOf(withdrawRecords'[w]) \in Contract!Debt
      BY DebtOfType DEF Unclaimed, TypeOK
    <2>2. Debts' = [w \in Unclaimed' |-> DebtOf(withdrawRecords'[w])]
      BY DEF Debts
    <2>3. QED
      BY <1>4, <2>1, <2>2, DebtsOnly
  <1>7. \A w \in DOMAIN Debts : Debts'[w] = Debts[w]
    BY <1>3, <1>4, <1>5 DEF Debts, Unclaimed
  <1>8. \A w \in wids : Debts'[w].nullifier = withdrawRecords'[w].nullifier
    <2> TAKE w \in wids
    <2>1. Debts'[w] = DebtOf(withdrawRecords'[w])
      BY <1>4, <1>5
    <2>2. QED
      BY <2>1, DebtNullifier
  <1>9. wids \cap (DOMAIN Debts \cup Claimed) = {}
    BY <1>3, DebtsOnly
  <1>10. \A w \in wids : Debts'[w].nullifier \notin nullifierUsed
    BY <1>3, <1>8
  <1>11. nullifierUsed' = nullifierUsed \cup {Debts'[w].nullifier : w \in wids}
    BY <1>3, <1>8
  <1>12. \A v, w \in wids : Debts'[v].nullifier = Debts'[w].nullifier => v = w
    BY <1>3, <1>8
  <1>13. bank' = bank
    BY DEF SubmitBatchProof
  <1>14. Contract!Settle(k, ids, wids)
    BY <1>1, <1>2, <1>4, <1>6, <1>7, <1>9, <1>10, <1>11, <1>12, <1>13
    DEF Contract!Settle
  <1>15. QED
    BY <1>14 DEF k, ids, wids

LEMMA ClaimRefines ==
    ASSUME TypeOK, NEW u \in Users, NEW id \in WithdrawIds, ClaimWithdraw(u, id)
    PROVE  id \in DOMAIN Debts /\ Contract!Pay(id)
  <1> DEFINE r == withdrawRecords[id]
  <1>1. /\ id \in DOMAIN withdrawRecords
        /\ ~ r.claimed /\ r.destination = u /\ ParseCoin(r.amount) > 0
        /\ CanSend(bank, ModuleAccount, r.denom, ParseCoin(r.amount))
        /\ bank' = Send(bank, ModuleAccount, u, r.denom, ParseCoin(r.amount))
    BY DEF ClaimWithdraw, Claimable, ReleaseFunds
  <1>2. id \in Unclaimed /\ Debts[id] = DebtOf(r)
    BY <1>1 DEF Unclaimed, Debts
  <1>3. /\ Contract!CanSend(bank, ModuleAccount, Debts[id].denom, Debts[id].units)
        /\ bank' = Contract!Send(bank, ModuleAccount, Debts[id].payee,
                                 Debts[id].denom, Debts[id].units)
        /\ Debts[id].payee \in Users /\ Debts[id].units > 0
    BY <1>1, <1>2 DEF DebtOf, CanSend, Send, Contract!CanSend, Contract!Send
  <1>4. /\ DOMAIN withdrawRecords' = DOMAIN withdrawRecords
        /\ \A w \in DOMAIN withdrawRecords :
             w # id => withdrawRecords'[w] = withdrawRecords[w]
        /\ withdrawRecords'[id].claimed
    BY ClaimRecords
  <1>5. Unclaimed' = Unclaimed \ {id} /\ Claimed' = Claimed \cup {id}
    BY <1>1, <1>4 DEF Unclaimed, Claimed
  <1>6. Debts' = Contract!Drop(Debts, id)
    BY <1>4, <1>5 DEF Debts, Contract!Drop, Unclaimed
  <1>7. UNCHANGED <<OpenDeposits, SettledByBatch, nullifierUsed>>
    BY DEF ClaimWithdraw, OpenDeposits, SettledByBatch
  <1>8. QED
    BY <1>2, <1>3, <1>5, <1>6, <1>7, DebtsOnly DEF Contract!Pay

LEMMA StutterRefines ==
    ASSUME UNCHANGED <<bank, depositRecords, withdrawRecords, nullifierUsed,
                       depositProcessed, batchRecords>>
    PROVE  UNCHANGED Contract!vars
  BY DEF Contract!vars, OpenDeposits, SettledByBatch, Debts, Claimed, Unclaimed

LEMMA NextRefines ==
    TypeOK /\ TypeOK' /\ DepositsSettledOnce /\ [Next]_vars
      => [Contract!Next]_(Contract!vars)
  <1> SUFFICES ASSUME TypeOK, TypeOK', DepositsSettledOnce, [Next]_vars
               PROVE  [Contract!Next]_(Contract!vars)
    OBVIOUS
  <1>1. ASSUME NEW u \in Users, NEW d \in Denoms, NEW a \in Amounts,
               NEW s \in RandomSuffixes, Deposit(u, d, a, s)
        PROVE  Contract!Next
    <2>1. <<u, height, s>> \in DepositIds
      BY DEF TypeOK, DepositIds
    <2>2. Contract!Open(u, d, ParseCoin(a), <<u, height, s>>)
      BY <1>1, DepositRefines
    <2>3. QED
      BY <2>1, <2>2 DEF Contract!Next
  <1>2. ASSUME NEW update \in Updates, NEW c \in Commitments, NEW r \in Roots,
               SubmitBatchProof(update, c, <<r, update.newStateRoot, c>>)
        PROVE  Contract!Next
    <2>1. Contract!Settle(update.batchId, Elements(DepositIdsOf(update.deposits)),
                          Elements(WithdrawIdsOf(update.withdrawals)))
      BY <1>2, SubmitRefines
    <2>2. /\ update.batchId \in BatchIds
          /\ update.withdrawals \in Seq(SettlementWithdrawal)
      BY ZkdexAssumption DEF SettlementUpdate
    <2>3. Elements(WithdrawIdsOf(update.withdrawals)) \in SUBSET WithdrawIds
      BY <2>2, WithdrawIdsType DEF Elements
    <2>4. Elements(DepositIdsOf(update.deposits)) \in SUBSET OpenDeposits
      BY <1>2, SubmitDeposits DEF OpenDeposits
    <2>5. QED
      BY <2>1, <2>2, <2>3, <2>4 DEF Contract!Next
  <1>3. ASSUME NEW u \in Users, NEW id \in WithdrawIds, ClaimWithdraw(u, id)
        PROVE  Contract!Next
    BY <1>3, ClaimRefines DEF Contract!Next
  <1>4. CASE EndBlock
    BY <1>4, StutterRefines DEF EndBlock
  <1>5. CASE UNCHANGED vars
    BY <1>5, StutterRefines DEF vars
  <1>6. QED
    BY <1>1, <1>2, <1>3, <1>4, <1>5 DEF Next

\* For all users, amounts and updates, every behaviour of x/zkdex is a behaviour of
\* the settlement contract.
THEOREM RefinesSettlement == Spec => ImplementsSettlement
  BY InitRefines, NextRefines, TypeCorrect, DepositsSettled, PTL
  DEF Spec, ImplementsSettlement, Contract!Spec
=============================================================================
