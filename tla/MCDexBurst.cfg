\* Orders of the market by two users, any number in a block, so that their ids collide, and
\* MARKET orders of both sides, while u1 creates, rewrites and deletes orders and
\* markets directly.
CONSTANTS
    Users = {u1, u2}
    Base = atom
    Quote = usd
    Denoms = {atom, usd}
    OtherMarket = other
    MarketIds <- OneMarket
    BuyPrices = {0, 2}
    SellPrices = {0, 1, 2}
    Quantities = {1, 2}
    Writers = {u1}
    OrderForms <- Rewrites
    Pairs <- OneForm
    MarketForms <- SwappedForm
    CleanLimits = {}
    EndBlockLimit = 1
    KeyRank <- MCKeyRank
    OnePerBlock = FALSE
    Nobody = Nobody
    InitialBalance = 2
    MaxHeight = 2
SPECIFICATION Spec
INVARIANTS
    NoCrossedBook
    CandidatesStayFresh
    PricePriority
