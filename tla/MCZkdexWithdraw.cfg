\* Withdrawals: lists of up to two withdrawals over two ids, two nullifiers and
\* two destinations, one of which is nobody's address, settled by two batches.
CONSTANTS
    Users = {u1, u2}
    Denoms = {usd}
    Amounts = {2}
    Scale = 2
    RandomSuffixes = {r1}
    Destinations = {u1, u2, nobody}
    BatchIds = {b1, b2}
    WithdrawIds = {w1, w2}
    Nullifiers = {n1, n2, Empty}
    Roots = {A, B}
    Commitments = {c1, Empty}
    GenesisRoot = A
    Updates <- MCUpdates
    Accept = TRUE
    Empty = Empty
    InitialBalance = 1
    MaxHeight = 1
    MaxDeposits = 0
    MaxWithdrawals = 2
SPECIFICATION Spec
INVARIANTS
    NullifierBinding
    WithdrawalsSettledOnce
PROPERTY PayoutIsClaim
CHECK_DEADLOCK FALSE
