\* Deposits: one user over two heights, two outcomes of the random bytes, so that
\* ids collide; lists of up to two deposits; amounts 0.5 and 1.5 units.
CONSTANTS
    Users = {u1}
    Denoms = {usd}
    Amounts = {1, 3}
    Scale = 2
    RandomSuffixes = {r1, r2}
    Destinations = {u1}
    BatchIds = {b1, b2, Empty}
    WithdrawIds = {w1}
    Nullifiers = {n1}
    Roots = {A, B}
    Commitments = {c1}
    GenesisRoot = A
    Updates <- MCUpdates
    Accept = TRUE
    Empty = Empty
    InitialBalance = 3
    MaxHeight = 2
    MaxDeposits = 2
    MaxWithdrawals = 1
SPECIFICATION Spec
INVARIANTS
    TypeOK
    DepositsSettledOnce
    RootChain
    EscrowBacksRecords
PROPERTY ImplementsSettlement
CHECK_DEADLOCK FALSE
