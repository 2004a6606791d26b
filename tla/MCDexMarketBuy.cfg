\* MARKET BUY orders: do the two parties of a trade pay for it?
CONSTANTS
    Users = {u1, u2}
    Base = atom
    Quote = usd
    Denoms = {atom, usd}
    OtherMarket = other
    MarketIds <- OneMarket
    BuyPrices = {0, 1, 2}
    SellPrices = {0, 1, 2}
    Quantities = {0, 1, 2}
    Writers = {}
    OrderForms <- NoForms
    Pairs <- OneForm
    MarketForms <- OneForm
    CleanLimits = {1}
    EndBlockLimit = 5
    KeyRank <- MCKeyRank
    OnePerBlock = TRUE
    Nobody = Nobody
    InitialBalance = 3
    MaxHeight = 4
SPECIFICATION Spec
INVARIANT EscrowCoversBook
