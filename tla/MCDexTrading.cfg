\* One order per market and block, LIMIT orders of both sides and MARKET SELL
\* orders; nobody writes orders or markets directly.
CONSTANTS
    Users = {u1, u2}
    Base = atom
    Quote = usd
    Denoms = {atom, usd}
    OtherMarket = other
    MarketIds <- OneMarket
    BuyPrices = {1, 2}
    SellPrices = {0, 1, 2}
    Quantities = {0, 1, 2}
    Writers = {}
    OrderForms <- NoForms
    Pairs <- OneForm
    MarketForms <- OneForm
    CleanLimits = {1}
    EndBlockLimit = 1
    KeyRank <- MCKeyRank
    OnePerBlock = TRUE
    Nobody = Nobody
    InitialBalance = 3
    MaxHeight = 4
SPECIFICATION LiveSpec
INVARIANTS
    TypeOK
    BookMatchesOrders
    EscrowCoversBook
    MatchingNeverFails
PROPERTY FilledArePurged
