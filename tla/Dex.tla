-------------------------------- MODULE Dex ---------------------------------
(***************************************************************************)
(* x/dex: the order book.  PlaceOrder escrows the coins of a new order and *)
(* matches it against the resting orders of the other side of its market,  *)
(* best price first; what a LIMIT order has left rests in the book.        *)
(*                                                                         *)
(* Transactions of a block run one after the other.  The matching loop of  *)
(* PlaceOrder is taken one iteration at a time, so tx holds the progress   *)
(* of the running PlaceOrder and the stores to roll back to when it fails. *)
(* Every other handler is one action; a handler that returns an error      *)
(* changes nothing, so it is a disabled action.  EndBlock purges filled    *)
(* orders and moves the chain to the next height.                          *)
(***************************************************************************)
EXTENDS Naturals, FiniteSets, FiniteSetsExt, Bank

CONSTANTS
    Users,           \* addresses that can sign a message
    Denoms,
    MarketIds,       \* texts of market ids; <<base, quote>> is "base-quote"
    BuyPrices,       \* price texts of orders, as numbers; 0 asks for a MARKET
    SellPrices,      \* order
    Quantities,
    Writers,         \* users that write orders and markets directly
    Pairs,           \* base and quote denominations that may be registered
    OrderForms,      \* what CreateOrder and UpdateOrder may write in an order
    MarketForms,     \* what CreateMarket and UpdateMarket may write in a market
    CleanLimits,     \* limits that CleanOrders may be asked for
    EndBlockLimit,   \* orders purged at the end of a block: 5
    KeyRank,         \* place of an order id in the key order of the store
    OnePerBlock,     \* the environment places one order per market and block
    Nobody,          \* the empty text
    InitialBalance,
    MaxHeight        \* bound: no order is placed at or above this height

ModuleAccount == "dex"
Accounts == Users \cup {ModuleAccount}
Heights  == 1 .. MaxHeight

Sides    == {"BUY", "SELL"}
Types    == {"LIMIT", "MARKET"}
Statuses == {"OPEN", "PARTIAL", "FILLED", "CANCELLED_PARTIAL"}

(***************************************************************************)
(* An order id is "<market>-<height>-<creator[:6]>", and the first six     *)
(* letters of every address are the prefix "cosmos".                       *)
(***************************************************************************)
OrderIds == MarketIds \X Heights

Order ==
    [index : OrderIds \cup {Nobody}, market : MarketIds, orderType : Types,
     side : Sides, price : Nat, quantity : Nat, remaining : Nat,
     status : Statuses, creator : Users]

Market == [creator : Users \cup {Nobody}, base : Denoms, quote : Denoms]

\* A book entry; its key is the text of its four fields.
Entry == [market : MarketIds, side : Sides, price : Nat, orderId : OrderIds]

OrderForm ==
    [market : MarketIds, orderType : Types, side : Sides, price : Nat,
     quantity : Nat, remaining : Nat, status : Statuses]

ASSUME DexAssumption ==
    /\ ModuleAccount \notin Users
    /\ Nobody \notin Users
    /\ BuyPrices \subseteq Nat /\ SellPrices \subseteq Nat /\ Quantities \subseteq Nat
    /\ Writers \subseteq Users
    /\ OrderForms \subseteq OrderForm
    /\ Pairs \subseteq (Denoms \X Denoms) \cap MarketIds
    /\ MarketForms \subseteq Denoms \X Denoms
    /\ CleanLimits \subseteq Nat /\ EndBlockLimit \in Nat
    /\ KeyRank \in [OrderIds -> Nat]
    /\ \A i, j \in OrderIds : KeyRank[i] = KeyRank[j] => i = j
    /\ OnePerBlock \in BOOLEAN
    /\ InitialBalance \in Nat
    /\ MaxHeight \in Nat \ {0}

VARIABLES
    bank,       \* balances (x/bank)
    height,     \* height of the block being executed
    markets,    \* Keeper.Market
    orders,     \* Keeper.Order
    orderbook,  \* Keeper.Orderbook, the values
    tx          \* the PlaceOrder in progress

vars == <<bank, height, markets, orders, orderbook, tx>>

Idle == [running |-> FALSE]

-----------------------------------------------------------------------------

Init ==
    /\ bank = [a \in Accounts |->
                 [d \in Denoms |-> IF a = ModuleAccount THEN 0 ELSE InitialBalance]]
    /\ height = 1
    /\ markets = EmptyStore
    /\ orders = EmptyStore
    /\ orderbook = {}
    /\ tx = Idle

-----------------------------------------------------------------------------
(***************************************************************************)
(* PlaceOrder and MatchOrders.                                             *)
(***************************************************************************)
OtherSide(side) == IF side = "SELL" THEN "BUY" ELSE "SELL"

StrictlyCompatible(order, e) ==          \* fault: an equal price is left out
    /\ e.market = order.market
    /\ e.side = OtherSide(order.side)
    /\ order.orderType = "LIMIT" =>
         IF order.side = "BUY" THEN e.price < order.price ELSE e.price > order.price

\* The new order may trade with entry e: a LIMIT order takes no price worse than
\* its own.
Compatible(order, e) ==
    /\ e.market = order.market
    /\ e.side = OtherSide(order.side)
    /\ order.orderType = "LIMIT" =>
         IF order.side = "BUY" THEN e.price <= order.price ELSE e.price >= order.price

Candidates(order) == {e \in orderbook : Compatible(order, e)}

\* Entry e has a strictly better price than entry f of the same side.
Better(e, f) == IF e.side = "BUY" THEN e.price > f.price ELSE e.price < f.price

EscrowOfOneUnit(order, market) ==        \* fault: a BUY locks the price of one unit
    IF order.side = "SELL" THEN [denom |-> market.base, n |-> order.quantity]
    ELSE [denom |-> market.quote, n |-> order.price]

\* The coins that the order locks: a MARKET BUY locks its price, zero.
EscrowOf(order, market) ==
    IF order.side = "SELL" THEN [denom |-> market.base, n |-> order.quantity]
    ELSE [denom |-> market.quote,
          n |-> IF order.orderType = "MARKET" THEN order.price
                ELSE order.price * order.quantity]

NewOrder(creator, m, side, price, quantity) ==
    [index |-> Nobody, market |-> m,
     orderType |-> IF price = 0 THEN "MARKET" ELSE "LIMIT",
     side |-> side, price |-> price, quantity |-> quantity,
     remaining |-> quantity, status |-> "OPEN", creator |-> creator]

PlaceOrder(creator, m, side, price, quantity) ==
    /\ ~ tx.running
    /\ height < MaxHeight
    /\ OnePerBlock => <<m, height>> \notin DOMAIN orders
    /\ m \in DOMAIN markets
    /\ LET order  == NewOrder(creator, m, side, price, quantity)
           escrow == EscrowOf(order, markets[m])
       IN  /\ CanSend(bank, creator, escrow.denom, escrow.n)
           /\ bank' = Send(bank, creator, ModuleAccount, escrow.denom, escrow.n)
           /\ tx' = [running |-> TRUE, id |-> <<m, height>>, order |-> order,
                     market |-> markets[m], candidates |-> Candidates(order),
                     undo |-> [bank |-> bank, orders |-> orders, orderbook |-> orderbook]]
    /\ UNCHANGED <<height, markets, orders, orderbook>>

\* The matching loop goes on.
Matching == tx.running /\ tx.order.remaining > 0 /\ tx.candidates # {}

IsAny(e) == e \in tx.candidates          \* fault: the candidates are not sorted

\* The next candidate in the sorted list: nothing left has a better price.
\* sort.Slice leaves the order of equal prices open.
IsNext(e) == e \in tx.candidates /\ \A f \in tx.candidates : ~ Better(f, e)

Lesser(m, n) == IF m < n THEN m ELSE n

WholeTaker(maker) == tx.order.remaining  \* fault: what the maker has left is ignored

\* The quantity that the running order trades with a resting one.
MatchQty(maker) == Lesser(tx.order.remaining, maker.remaining)

\* SettleAssets: the taker's coins, then the maker's, out of the escrow.
Payments(maker, n) ==
    LET qty   == [denom |-> tx.market.base, n |-> n]
        quote == [denom |-> tx.market.quote, n |-> n * maker.price]
    IN  IF tx.order.side = "BUY" THEN [taker |-> qty, maker |-> quote]
        ELSE [taker |-> quote, maker |-> qty]

PayTaker(pay) ==
    Send(bank, ModuleAccount, tx.order.creator, pay.taker.denom, pay.taker.n)

CanSettle(pay) ==
    /\ CanSend(bank, ModuleAccount, pay.taker.denom, pay.taker.n)
    /\ CanSend(PayTaker(pay), ModuleAccount, pay.maker.denom, pay.maker.n)

SettleAssets(maker, pay) ==
    bank' = Send(PayTaker(pay), ModuleAccount, maker.creator, pay.maker.denom, pay.maker.n)

\* The trade with entry e can be made: its order is there (matching with the
\* amount of a missing order panics) and the escrow covers both payments.
CanTrade(e) ==
    /\ e.orderId \in DOMAIN orders
    /\ LET maker == orders[e.orderId]
       IN  CanSettle(Payments(maker, MatchQty(maker)))

TradedStillPartial(maker, n) ==          \* fault: the status is not written
    [maker EXCEPT !.remaining = @ - n]

\* The maker's order after a trade of n.
Traded(maker, n) ==
    [maker EXCEPT !.remaining = @ - n,
                  !.status = IF maker.remaining = n THEN "FILLED" ELSE @]

RemovedByOtherKey(e, maker, n) == orderbook  \* fault: the key is not that of the entry

\* The book after a trade of n with entry e.
BookAfter(e, maker, n) == IF maker.remaining = n THEN orderbook \ {e} ELSE orderbook

Trade(e) ==
    /\ Matching
    /\ IsNext(e)
    /\ CanTrade(e)
    /\ LET maker == orders[e.orderId]
           n     == MatchQty(maker)
       IN  /\ SettleAssets(maker, Payments(maker, n))
           /\ orders' = Put(orders, e.orderId, Traded(maker, n))
           /\ orderbook' = BookAfter(e, maker, n)
           /\ tx' = [tx EXCEPT !.order.remaining = @ - n, !.candidates = @ \ {e}]
    /\ UNCHANGED <<height, markets>>

\* An error or a panic in the loop fails the transaction: its writes are dropped.
Abort(e) ==
    /\ Matching
    /\ IsNext(e)
    /\ ~ CanTrade(e)
    /\ bank' = tx.undo.bank
    /\ orders' = tx.undo.orders
    /\ orderbook' = tx.undo.orderbook
    /\ tx' = Idle
    /\ UNCHANGED <<height, markets>>

RefundQuantity(order) ==                 \* fault: the whole quantity goes back
    IF /\ order.side = "SELL"
       /\ CanSend(bank, ModuleAccount, tx.market.base, order.quantity)
    THEN bank' = Send(bank, ModuleAccount, order.creator, tx.market.base, order.quantity)
    ELSE bank' = bank

\* HandleRefund: the rest of a SELL goes back to its owner; an error of the bank
\* is ignored, and nothing goes back to a BUY.
HandleRefund(order) ==
    IF /\ order.side = "SELL"
       /\ CanSend(bank, ModuleAccount, tx.market.base, order.remaining)
    THEN bank' = Send(bank, ModuleAccount, order.creator, tx.market.base, order.remaining)
    ELSE bank' = bank

FinalStatus(order) ==
    CASE order.remaining = 0         -> "FILLED"
      [] order.remaining # 0 /\ order.orderType = "MARKET" -> "CANCELLED_PARTIAL"
      [] OTHER                       -> "PARTIAL"

FinishOrder ==
    /\ tx.running
    /\ ~ Matching
    /\ LET order == [tx.order EXCEPT !.status = FinalStatus(tx.order)] IN
         /\ orders' = Put(orders, tx.id, order)
         /\ orderbook' =
              IF order.status = "PARTIAL"
              THEN orderbook \cup {[market |-> order.market, side |-> order.side,
                                    price |-> order.price, orderId |-> tx.id]}
              ELSE orderbook
         /\ IF order.status = "CANCELLED_PARTIAL" THEN HandleRefund(order)
            ELSE UNCHANGED bank
    /\ tx' = Idle
    /\ UNCHANGED <<height, markets>>

-----------------------------------------------------------------------------
(***************************************************************************)
(* Markets.                                                                *)
(***************************************************************************)

\* Anyone may register a pair; it replaces a market of that id.
RegisterPairs(base, quote) ==
    /\ ~ tx.running
    /\ markets' = Put(markets, <<base, quote>>,
                      [creator |-> Nobody, base |-> base, quote |-> quote])
    /\ UNCHANGED <<bank, height, orders, orderbook, tx>>

CreateMarket(creator, id, base, quote) ==
    /\ ~ tx.running
    /\ id \notin DOMAIN markets
    /\ markets' = Put(markets, id, [creator |-> creator, base |-> base, quote |-> quote])
    /\ UNCHANGED <<bank, height, orders, orderbook, tx>>

UpdateMarket(creator, id, base, quote) ==
    /\ ~ tx.running
    /\ id \in DOMAIN markets
    /\ markets[id].creator = creator
    /\ markets' = Put(markets, id, [creator |-> creator, base |-> base, quote |-> quote])
    /\ UNCHANGED <<bank, height, orders, orderbook, tx>>

DeleteMarket(creator, id) ==
    /\ ~ tx.running
    /\ id \in DOMAIN markets
    /\ markets[id].creator = creator
    /\ markets' = Drop(markets, id)
    /\ UNCHANGED <<bank, height, orders, orderbook, tx>>

-----------------------------------------------------------------------------
(***************************************************************************)
(* Orders written directly.  None of these touches the book or the escrow. *)
(***************************************************************************)
Written(creator, id, form) ==
    [index |-> id, market |-> form.market, orderType |-> form.orderType,
     side |-> form.side, price |-> form.price, quantity |-> form.quantity,
     remaining |-> form.remaining, status |-> form.status, creator |-> creator]

CreateOrder(creator, id, form) ==
    /\ ~ tx.running
    /\ id \notin DOMAIN orders
    /\ orders' = Put(orders, id, Written(creator, id, form))
    /\ UNCHANGED <<bank, height, markets, orderbook, tx>>

UpdateOrder(creator, id, form) ==
    /\ ~ tx.running
    /\ id \in DOMAIN orders
    /\ orders[id].creator = creator
    /\ orders' = Put(orders, id, Written(creator, id, form))
    /\ UNCHANGED <<bank, height, markets, orderbook, tx>>

DeleteOrder(creator, id) ==
    /\ ~ tx.running
    /\ id \in DOMAIN orders
    /\ orders[id].creator = creator
    /\ orders' = Drop(orders, id)
    /\ UNCHANGED <<bank, height, markets, orderbook, tx>>

(***************************************************************************)
(* BatchCleanFilledOrders: purge the first filled orders of the store, at  *)
(* most limit of them.  The key it removes from the book is not the key of *)
(* any entry, so the book is left alone.                                   *)
(***************************************************************************)
Filled == {id \in DOMAIN orders : orders[id].status = "FILLED"}

ScannedFirst(limit) ==                   \* fault: the limit counts orders of any status
    {id \in Filled :
        Cardinality({j \in DOMAIN orders : KeyRank[j] < KeyRank[id]}) < limit}

Purged(limit) ==
    {id \in Filled : Cardinality({j \in Filled : KeyRank[j] < KeyRank[id]}) < limit}

BatchCleanFilledOrders(limit) ==
    orders' = [id \in DOMAIN orders \ Purged(limit) |-> orders[id]]

CleanOrders(limit) ==
    /\ ~ tx.running
    /\ BatchCleanFilledOrders(Lesser(limit, 500))
    /\ UNCHANGED <<bank, height, markets, orderbook, tx>>

\* The height stays at its bound; no order is placed there.
EndBlock ==
    /\ ~ tx.running
    /\ BatchCleanFilledOrders(EndBlockLimit)
    /\ height' = Lesser(height + 1, MaxHeight)
    /\ UNCHANGED <<bank, markets, orderbook, tx>>

-----------------------------------------------------------------------------

MarketMsg ==
    \/ \E pair \in Pairs : RegisterPairs(pair[1], pair[2])
    \/ \E u \in Writers, id \in MarketIds, form \in MarketForms :
         \/ CreateMarket(u, id, form[1], form[2])
         \/ UpdateMarket(u, id, form[1], form[2])
    \/ \E u \in Writers, id \in MarketIds : DeleteMarket(u, id)

OrderMsg ==
    \/ \E u \in Writers, id \in OrderIds, form \in OrderForms :
         CreateOrder(u, id, form) \/ UpdateOrder(u, id, form)
    \/ \E u \in Writers, id \in OrderIds : DeleteOrder(u, id)
    \/ \E limit \in CleanLimits : CleanOrders(limit)

MatchStep == FinishOrder \/ \E e \in orderbook : Trade(e) \/ Abort(e)

Next ==
    \/ \E u \in Users, m \in MarketIds, p \in BuyPrices, q \in Quantities :
         PlaceOrder(u, m, "BUY", p, q)
    \/ \E u \in Users, m \in MarketIds, p \in SellPrices, q \in Quantities :
         PlaceOrder(u, m, "SELL", p, q)
    \/ MatchStep
    \/ MarketMsg
    \/ OrderMsg
    \/ EndBlock

Spec == Init /\ [][Next]_vars

(***************************************************************************)
(* Block production goes on: consensus ends every block, and a transaction *)
(* that was started runs to its end.  Nothing makes users send messages.   *)
(***************************************************************************)
Fairness == WF_vars(MatchStep) /\ WF_vars(EndBlock)
LiveSpec == Spec /\ Fairness

-----------------------------------------------------------------------------
(***************************************************************************)
(* Properties.                                                             *)
(***************************************************************************)
Ledger == [Accounts -> [Denoms -> Nat]]

\* A PlaceOrder in progress, which began with the orders ids.
Progress(ids) ==
    [running : {TRUE}, id : OrderIds, order : Order, market : Market,
     candidates : SUBSET Entry,
     undo : [bank : Ledger, orders : [ids -> Order], orderbook : SUBSET Entry]]

\* Every variable keeps its type; no balance and no remaining quantity goes
\* below zero.
TypeOK ==
    /\ bank \in Ledger
    /\ height \in Heights
    /\ DOMAIN markets \subseteq MarketIds
    /\ markets \in [DOMAIN markets -> Market]
    /\ DOMAIN orders \subseteq OrderIds
    /\ orders \in [DOMAIN orders -> Order]
    /\ orderbook \subseteq Entry
    /\ tx = Idle \/ \E ids \in SUBSET OrderIds : tx \in Progress(ids)

\* Between transactions no resting BUY meets the price of a resting SELL of its
\* market: everything that could trade has traded.
Uncrossed(book) ==
    \A b, s \in book :
      b.market = s.market /\ b.side = "BUY" /\ s.side = "SELL" => b.price < s.price

NoCrossedBook == ~ tx.running => Uncrossed(orderbook)

\* The candidates that were collected before the loop stay good while it changes
\* the book: as long as the order wants more, what is left of them is what the
\* book, read again, would give.
CandidatesStayFresh ==
    tx.running /\ tx.order.remaining > 0 => tx.candidates = Candidates(tx.order)

\* A running order has used up an entry only when no entry of that side and
\* market with a better price is left.
PricePriority ==
    tx.running =>
      \A used \in tx.undo.orderbook \ orderbook, left \in orderbook :
        left.market = used.market /\ left.side = used.side => ~ Better(left, used)

\* Between transactions the book lists exactly the orders that are partly open,
\* each once and as it is stored.
BookMatchesOrders ==
    ~ tx.running =>
      /\ \A e \in orderbook :
           /\ e.orderId \in DOMAIN orders
           /\ LET o == orders[e.orderId] IN
                /\ o.status = "PARTIAL" /\ o.remaining \in 1 .. o.quantity
                /\ e = [market |-> o.market, side |-> o.side, price |-> o.price,
                        orderId |-> e.orderId]
      /\ \A id \in DOMAIN orders :
           orders[id].status = "PARTIAL" => \E e \in orderbook : e.orderId = id

\* What the resting orders still have to deliver, in denomination d.
Owed(d) ==
    LET due(e) ==
          LET o == orders[e.orderId]  m == markets[e.market] IN
          (IF e.side = "SELL" /\ m.base = d THEN o.remaining ELSE 0)
            + (IF e.side = "BUY" /\ m.quote = d THEN o.remaining * o.price ELSE 0)
    IN  MapThenSumSet(due, orderbook)

\* The module account holds what the resting orders have to deliver.
EscrowCoversBook ==
    ~ tx.running => \A d \in Denoms : bank[ModuleAccount][d] >= Owed(d)

\* An order that was accepted is never thrown back by the matching loop.
MatchingNeverFails ==
    Matching => \A e \in tx.candidates : IsNext(e) => CanTrade(e)

\* The module account holds nothing that no resting order has to deliver:
\* escrow that an order did not use was given back.
NoIdleEscrow ==
    ~ tx.running => \A d \in Denoms : bank[ModuleAccount][d] = Owed(d)

\* A filled order is purged in the end.
FilledArePurged ==
    \A id \in OrderIds : id \in Filled ~> id \notin Filled
=============================================================================
