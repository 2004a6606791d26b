------------------------------ MODULE DexProofs ------------------------------
(***************************************************************************)
(* Proofs about x/dex, for every set of users, markets, prices, direct     *)
(* writes and every bound, with orders whose ids collide: types, the       *)
(* uncrossed book, and price priority.                                     *)
(***************************************************************************)
EXTENDS Dex, BankProofs

-----------------------------------------------------------------------------
(***************************************************************************)
(* Type correctness.                                                       *)
(***************************************************************************)

\* The types of a PlaceOrder in progress, one field at a time.
LEMMA TxType ==
    ASSUME TypeOK, tx.running
    PROVE  /\ tx.id \in OrderIds /\ tx.order \in Order /\ tx.market \in Market
           /\ tx.candidates \subseteq Entry
           /\ tx.undo.bank \in Ledger
           /\ DOMAIN tx.undo.orders \subseteq OrderIds
           /\ tx.undo.orders \in [DOMAIN tx.undo.orders -> Order]
           /\ tx.undo.orderbook \subseteq Entry
  <1>1. PICK ids \in SUBSET OrderIds : tx \in Progress(ids)
    BY DEF TypeOK, Idle
  <1>2. /\ tx.id \in OrderIds /\ tx.order \in Order /\ tx.market \in Market
        /\ tx.candidates \subseteq Entry
        /\ tx.undo \in [bank : Ledger, orders : [ids -> Order], orderbook : SUBSET Entry]
    BY <1>1 DEF Progress
  <1>3. QED
    BY <1>2

\* Orders and progress stay in their types when only what is named changes.
LEMMA ProgressType ==
    ASSUME TypeOK, tx.running, NEW r \in Nat, NEW cs \in SUBSET Entry
    PROVE  \E ids \in SUBSET OrderIds :
             [tx EXCEPT !.order.remaining = r, !.candidates = cs] \in Progress(ids)
  <1>1. PICK ids \in SUBSET OrderIds : tx \in Progress(ids)
    BY DEF TypeOK, Idle
  <1>2. tx.order \in Order
    BY <1>1 DEF Progress
  <1>3. [tx.order EXCEPT !.remaining = r] \in Order
    BY <1>2 DEF Order
  <1>4. [tx EXCEPT !.order.remaining = r, !.candidates = cs] \in Progress(ids)
    BY <1>1, <1>3 DEF Progress
  <1>5. QED
    BY <1>4

LEMMA PlaceOrderType ==
    ASSUME TypeOK,
           NEW u \in Users, NEW m \in MarketIds, NEW side \in Sides,
           NEW p \in Nat, NEW q \in Nat, PlaceOrder(u, m, side, p, q)
    PROVE  TypeOK'
  <1> DEFINE order == NewOrder(u, m, side, p, q)
             escrow == EscrowOf(order, markets[m])
  <1>1. order \in Order
    BY DEF NewOrder, Order, Types, Statuses
  <1>2. markets[m] \in Market /\ <<m, height>> \in OrderIds
    BY DEF TypeOK, PlaceOrder, OrderIds
  <1>3. escrow.denom \in Denoms /\ escrow.n \in Nat
    <2>1. order.price \in Nat /\ order.quantity \in Nat
      BY <1>1 DEF Order
    <2>2. order.price * order.quantity \in Nat
      BY <2>1, TimesNat
    <2>3. markets[m].base \in Denoms /\ markets[m].quote \in Denoms
      BY <1>2 DEF Market
    <2> HIDE DEF order
    <2>4. QED
      BY <2>1, <2>2, <2>3 DEF EscrowOf
  <1>4. Candidates(order) \subseteq Entry
    BY DEF TypeOK, Candidates
  <1> HIDE DEF order, escrow
  <1>5. /\ CanSend(bank, u, escrow.denom, escrow.n)
        /\ bank' = Send(bank, u, ModuleAccount, escrow.denom, escrow.n)
        /\ tx' = [running |-> TRUE, id |-> <<m, height>>, order |-> order,
                  market |-> markets[m], candidates |-> Candidates(order),
                  undo |-> [bank |-> bank, orders |-> orders, orderbook |-> orderbook]]
        /\ UNCHANGED <<height, markets, orders, orderbook>>
    BY DEF PlaceOrder, order, escrow
  <1>6. bank' \in Ledger
    BY <1>3, <1>5, SendKeepsNat DEF TypeOK, Ledger, Accounts
  <1>7. tx' \in Progress(DOMAIN orders) /\ DOMAIN orders \in SUBSET OrderIds
    BY <1>1, <1>2, <1>4, <1>5 DEF TypeOK, Progress
  <1>8. QED
    BY <1>5, <1>6, <1>7 DEF TypeOK

\* The quantity of a trade covers no more than either order has left.
LEMMA MatchQtyType ==
    ASSUME TypeOK, tx.running, NEW maker \in Order
    PROVE  /\ MatchQty(maker) \in Nat
           /\ tx.order.remaining \in Nat /\ maker.remaining \in Nat
           /\ MatchQty(maker) <= tx.order.remaining
           /\ MatchQty(maker) <= maker.remaining
           /\ MatchQty(maker) \in {tx.order.remaining, maker.remaining}
  <1>1. tx.order.remaining \in Nat /\ maker.remaining \in Nat
    BY TxType DEF Order
  <1>2. QED
    BY <1>1 DEF MatchQty, Lesser

LEMMA TradeType ==
    ASSUME TypeOK, NEW e \in orderbook, Trade(e)
    PROVE  TypeOK'
  <1> DEFINE maker == orders[e.orderId]
             n     == MatchQty(maker)
             pay   == Payments(maker, n)
  <1>1. tx.running /\ e.orderId \in DOMAIN orders /\ CanSettle(pay)
    BY DEF Trade, Matching, CanTrade
  <1>2. maker \in Order /\ e.orderId \in OrderIds
    BY <1>1 DEF TypeOK
  <1>3. /\ n \in Nat /\ n <= maker.remaining /\ n <= tx.order.remaining
        /\ maker.remaining \in Nat /\ tx.order.remaining \in Nat
    BY <1>1, <1>2, MatchQtyType
  <1>4. /\ bank' = Send(PayTaker(pay), ModuleAccount, maker.creator,
                        pay.maker.denom, pay.maker.n)
        /\ orders' = Put(orders, e.orderId, Traded(maker, n))
        /\ orderbook' \subseteq orderbook
        /\ tx' = [tx EXCEPT !.order.remaining = tx.order.remaining - n,
                            !.candidates = tx.candidates \ {e}]
        /\ UNCHANGED <<height, markets>>
    BY DEF Trade, SettleAssets, BookAfter
  <1>5. Traded(maker, n) \in Order
    <2> HIDE DEF maker, n
    <2>1. maker.remaining - n \in Nat
      BY <1>3
    <2>2. Traded(maker, n) = [maker EXCEPT !.remaining = maker.remaining - n,
              !.status = IF maker.remaining = n THEN "FILLED" ELSE maker.status]
      BY DEF Traded
    <2>3. QED
      BY <1>2, <2>1, <2>2 DEF Order, Statuses
  <1>6. /\ tx.order \in Order /\ tx.market \in Market /\ tx.candidates \subseteq Entry
    BY <1>1, TxType
  <1>7. /\ pay.taker.denom \in Denoms /\ pay.taker.n \in Nat
        /\ pay.maker.denom \in Denoms /\ pay.maker.n \in Nat
    <2>1. n * maker.price \in Nat
      BY <1>2, <1>3, TimesNat DEF Order
    <2>2. tx.market.base \in Denoms /\ tx.market.quote \in Denoms
      BY <1>6 DEF Market
    <2> HIDE DEF n, maker
    <2>3. QED
      BY <1>3, <2>1, <2>2 DEF Payments
  <1>8. bank' \in Ledger
    <2> HIDE DEF pay, n, maker
    <2>1. tx.order.creator \in Accounts /\ maker.creator \in Accounts
          /\ ModuleAccount \in Accounts
      BY <1>2, <1>6 DEF Order, Accounts
    <2>2. PayTaker(pay) \in [Accounts -> [Denoms -> Nat]]
      BY <1>1, <1>7, <2>1, SendKeepsNat DEF CanSettle, PayTaker, TypeOK, Ledger
    <2>3. CanSend(PayTaker(pay), ModuleAccount, pay.maker.denom, pay.maker.n)
      BY <1>1 DEF CanSettle
    <2>4. QED
      BY <1>4, <1>7, <2>1, <2>2, <2>3, SendKeepsNat DEF Ledger
  <1>9. /\ DOMAIN orders' \subseteq OrderIds
        /\ orders' \in [DOMAIN orders' -> Order]
    <2> HIDE DEF maker, n
    <2> DEFINE new == Traded(maker, n)
    <2> HIDE DEF new
    <2>1. new \in Order /\ orders' = Put(orders, e.orderId, new)
      BY <1>4, <1>5 DEF new
    <2>2. QED
      BY <1>2, <2>1 DEF TypeOK, Put
  <1>10. \E ids \in SUBSET OrderIds : tx' \in Progress(ids)
    <2>1. tx.order.remaining - n \in Nat
      BY <1>3
    <2>2. QED
      BY <1>1, <1>4, <1>6, <2>1, ProgressType
  <1>11. QED
    BY <1>4, <1>8, <1>9, <1>10 DEF TypeOK

LEMMA AbortType ==
    ASSUME TypeOK, NEW e \in orderbook, Abort(e)
    PROVE  TypeOK'
  <1>1. /\ bank' = tx.undo.bank /\ orders' = tx.undo.orders
        /\ orderbook' = tx.undo.orderbook /\ tx' = Idle
        /\ UNCHANGED <<height, markets>>
        /\ tx.running
    BY DEF Abort, Matching
  <1>2. QED
    BY <1>1, TxType DEF TypeOK

LEMMA FinishType ==
    ASSUME TypeOK, FinishOrder
    PROVE  TypeOK'
  <1> DEFINE order == [tx.order EXCEPT !.status = FinalStatus(tx.order)]
  <1>1. tx.running
    BY DEF FinishOrder
  <1>2. tx.order \in Order /\ tx.id \in OrderIds /\ tx.market \in Market
    BY <1>1, TxType
  <1>3. FinalStatus(tx.order) \in Statuses
    BY DEF FinalStatus, Statuses
  <1>4. order \in Order
    BY <1>2, <1>3 DEF Order
  <1>5. [market |-> order.market, side |-> order.side, price |-> order.price,
         orderId |-> tx.id] \in Entry
    BY <1>2, <1>4 DEF Entry, Order
  <1>6. /\ order.remaining \in Nat /\ tx.market.base \in Denoms
        /\ order.creator \in Accounts /\ ModuleAccount \in Accounts
    BY <1>2, <1>4 DEF Order, Market, Accounts
  <1> HIDE DEF order
  <1>7. /\ orders' = Put(orders, tx.id, order)
        /\ orderbook' \subseteq orderbook \cup
              {[market |-> order.market, side |-> order.side, price |-> order.price,
                orderId |-> tx.id]}
        /\ HandleRefund(order) \/ bank' = bank
        /\ tx' = Idle
        /\ UNCHANGED <<height, markets>>
    BY DEF FinishOrder, order
  <1>8. bank' \in Ledger
    <2>1. bank \in [Accounts -> [Denoms -> Nat]]
      BY DEF TypeOK, Ledger
    <2>2. CASE bank' = bank
      BY <2>1, <2>2 DEF Ledger
    <2>3. CASE /\ CanSend(bank, ModuleAccount, tx.market.base, order.remaining)
               /\ bank' = Send(bank, ModuleAccount, order.creator, tx.market.base,
                               order.remaining)
      <3>1. Send(bank, ModuleAccount, order.creator, tx.market.base, order.remaining)
              \in [Accounts -> [Denoms -> Nat]]
        BY <1>6, <2>1, <2>3, SendKeepsNat
      <3>2. QED
        BY <2>3, <3>1 DEF Ledger
    <2>4. QED
      BY <1>7, <2>2, <2>3 DEF HandleRefund
  <1>9. /\ DOMAIN orders' \subseteq OrderIds
        /\ orders' \in [DOMAIN orders' -> Order]
    BY <1>2, <1>4, <1>7, PutType DEF TypeOK
  <1>10. orderbook' \subseteq Entry
    BY <1>5, <1>7 DEF TypeOK
  <1>11. QED
    BY <1>7, <1>8, <1>9, <1>10 DEF TypeOK

LEMMA MarketMsgType ==
    ASSUME TypeOK, MarketMsg
    PROVE  TypeOK'
  <1>1. \A id \in MarketIds, c \in Users \cup {Nobody}, base \in Denoms, quote \in Denoms :
          LET new == Put(markets, id, [creator |-> c, base |-> base, quote |-> quote])
          IN  DOMAIN new \subseteq MarketIds /\ new \in [DOMAIN new -> Market]
    <2> TAKE id \in MarketIds, c \in Users \cup {Nobody}, base \in Denoms, quote \in Denoms
    <2>1. [creator |-> c, base |-> base, quote |-> quote] \in Market
      BY DEF Market
    <2>2. QED
      BY <2>1 DEF TypeOK, Put
  <1>2. ASSUME NEW pair \in Pairs, RegisterPairs(pair[1], pair[2])
        PROVE  TypeOK'
    <2>1. /\ pair = <<pair[1], pair[2]>> /\ pair \in MarketIds
          /\ pair[1] \in Denoms /\ pair[2] \in Denoms
      BY DexAssumption
    <2>2. DOMAIN markets' \subseteq MarketIds /\ markets' \in [DOMAIN markets' -> Market]
      BY <1>1, <1>2, <2>1 DEF RegisterPairs
    <2>3. QED
      BY <1>2, <2>2 DEF RegisterPairs, TypeOK
  <1>3. ASSUME NEW u \in Writers, NEW id \in MarketIds, NEW form \in MarketForms,
               \/ CreateMarket(u, id, form[1], form[2])
               \/ UpdateMarket(u, id, form[1], form[2])
        PROVE  TypeOK'
    <2>1. u \in Users /\ form[1] \in Denoms /\ form[2] \in Denoms
      BY DexAssumption
    <2>2. DOMAIN markets' \subseteq MarketIds /\ markets' \in [DOMAIN markets' -> Market]
      BY <1>1, <1>3, <2>1 DEF CreateMarket, UpdateMarket
    <2>3. QED
      BY <1>3, <2>2 DEF CreateMarket, UpdateMarket, TypeOK
  <1>4. ASSUME NEW u \in Writers, NEW id \in MarketIds, DeleteMarket(u, id)
        PROVE  TypeOK'
    BY <1>4 DEF DeleteMarket, Drop, TypeOK
  <1>5. QED
    BY <1>2, <1>3, <1>4 DEF MarketMsg

LEMMA OrderMsgType ==
    ASSUME TypeOK, OrderMsg
    PROVE  TypeOK'
  <1>1. ASSUME NEW u \in Writers, NEW id \in OrderIds, NEW form \in OrderForms,
               CreateOrder(u, id, form) \/ UpdateOrder(u, id, form)
        PROVE  TypeOK'
    <2>1. Written(u, id, form) \in Order
      BY DexAssumption DEF Written, Order, OrderForm
    <2>2. orders' = Put(orders, id, Written(u, id, form))
      BY <1>1 DEF CreateOrder, UpdateOrder
    <2>3. DOMAIN orders' \subseteq OrderIds /\ orders' \in [DOMAIN orders' -> Order]
      BY <2>1, <2>2, PutType DEF TypeOK
    <2>4. QED
      BY <1>1, <2>3 DEF CreateOrder, UpdateOrder, TypeOK
  <1>2. ASSUME NEW u \in Writers, NEW id \in OrderIds, DeleteOrder(u, id)
        PROVE  TypeOK'
    BY <1>2 DEF DeleteOrder, Drop, TypeOK
  <1>3. ASSUME NEW limit \in CleanLimits, CleanOrders(limit)
        PROVE  TypeOK'
    BY <1>3 DEF CleanOrders, BatchCleanFilledOrders, TypeOK
  <1>4. QED
    BY <1>1, <1>2, <1>3 DEF OrderMsg

LEMMA EndBlockType == ASSUME TypeOK, EndBlock PROVE TypeOK'
  <1>1. height' \in Heights
    BY DexAssumption DEF EndBlock, TypeOK, Heights, Lesser
  <1>2. QED
    BY <1>1 DEF EndBlock, BatchCleanFilledOrders, TypeOK

LEMMA InitType == Init => TypeOK
  BY DexAssumption DEF Init, TypeOK, Ledger, Accounts, Heights, EmptyStore

LEMMA NextType == TypeOK /\ [Next]_vars => TypeOK'
  <1> SUFFICES ASSUME TypeOK, [Next]_vars PROVE TypeOK'
    OBVIOUS
  <1>1. ASSUME NEW u \in Users, NEW m \in MarketIds, NEW p \in BuyPrices,
               NEW q \in Quantities, PlaceOrder(u, m, "BUY", p, q)
        PROVE  TypeOK'
    BY <1>1, PlaceOrderType, DexAssumption DEF Sides
  <1>2. ASSUME NEW u \in Users, NEW m \in MarketIds, NEW p \in SellPrices,
               NEW q \in Quantities, PlaceOrder(u, m, "SELL", p, q)
        PROVE  TypeOK'
    BY <1>2, PlaceOrderType, DexAssumption DEF Sides
  <1>3. CASE MatchStep
    BY <1>3, FinishType, TradeType, AbortType DEF MatchStep
  <1>4. CASE MarketMsg
    BY <1>4, MarketMsgType
  <1>5. CASE OrderMsg
    BY <1>5, OrderMsgType
  <1>6. CASE EndBlock
    BY <1>6, EndBlockType
  <1>7. CASE UNCHANGED vars
    BY <1>7 DEF vars, TypeOK
  <1>8. QED
    BY <1>1, <1>2, <1>3, <1>4, <1>5, <1>6, <1>7 DEF Next

\* Every reachable state of x/dex is well typed: no payment, refund or trade takes
\* a balance or a remaining quantity below zero.
THEOREM TypeCorrect == Spec => []TypeOK
  BY InitType, NextType, PTL DEF Spec

-----------------------------------------------------------------------------
(***************************************************************************)
(* Proofs about the order book of x/dex, for every set of users, markets   *)
(* and prices.  With direct writes and orders whose ids collide: the book  *)
(* is never crossed, price priority holds, and the candidates that         *)
(* matching collected before its loop stay good.  With neither (Trading):  *)
(* the book lists the open orders; and when no BUY is a MARKET order       *)
(* (LimitBuys), the escrow covers the book and no payment of matching      *)
(* fails.  The runs of MCDex show that both hypotheses are needed.         *)
(***************************************************************************)

\* The three properties need each other: the head of the candidates is the best
\* price of the book because the candidates are fresh; what rests at the end does
\* not cross because none is left; and a failed transaction brings back a book that
\* was not crossed.
BookInv ==
    /\ Uncrossed(orderbook)
    /\ CandidatesStayFresh
    /\ PricePriority
    /\ tx.running => /\ orderbook \subseteq tx.undo.orderbook
                     /\ Uncrossed(tx.undo.orderbook)

-----------------------------------------------------------------------------

\* Entries taken out of a book do not cross it.
LEMMA SmallerBook ==
    ASSUME NEW book, NEW smaller \in SUBSET book, Uncrossed(book)
    PROVE  Uncrossed(smaller)
  BY DEF Uncrossed

\* An entry with a better price than a compatible one is compatible.
LEMMA BetterIsCompatible ==
    ASSUME NEW o \in Order, NEW e \in Entry, NEW f \in Entry,
           f.market = e.market, f.side = e.side,
           Compatible(o, e), Better(f, e)
    PROVE  Compatible(o, f)
  <1>1. o.price \in Nat /\ e.price \in Nat /\ f.price \in Nat /\ o.side \in Sides
    BY DEF Order, Entry
  <1>2. CASE o.side = "BUY"
    BY <1>1, <1>2 DEF Compatible, Better, OtherSide
  <1>3. CASE o.side = "SELL"
    BY <1>1, <1>3 DEF Compatible, Better, OtherSide
  <1>4. QED
    BY <1>1, <1>2, <1>3 DEF Sides

\* What an order has left says nothing of whom it may trade with.
LEMMA CompatibleForLess ==
    ASSUME NEW o \in Order, NEW o2 \in Order, NEW e,
           o2.market = o.market, o2.side = o.side,
           o2.price = o.price, o2.orderType = o.orderType
    PROVE  Compatible(o2, e) <=> Compatible(o, e)
  BY DEF Compatible

-----------------------------------------------------------------------------

LEMMA PlaceOrderBook ==
    ASSUME BookInv,
           NEW u, NEW m, NEW side, NEW p, NEW q, PlaceOrder(u, m, side, p, q)
    PROVE  BookInv'
  <1> DEFINE order == NewOrder(u, m, side, p, q)
  <1> HIDE DEF order
  <1>1. /\ orderbook' = orderbook
        /\ tx'.running /\ tx'.order = order
        /\ tx'.candidates = Candidates(order)
        /\ tx'.undo.orderbook = orderbook
    BY DEF PlaceOrder, order
  <1>2. Uncrossed(orderbook)'
    BY <1>1 DEF BookInv, Uncrossed
  <1>3. CandidatesStayFresh'
    BY <1>1 DEF CandidatesStayFresh, Candidates
  <1>4. PricePriority'
    BY <1>1 DEF PricePriority
  <1>5. QED
    BY <1>1, <1>2, <1>3, <1>4 DEF BookInv, Uncrossed

\* While the order wants more, the trade used up all that the entry offered.
LEMMA TradeBook ==
    ASSUME TypeOK, BookInv, NEW e \in orderbook, Trade(e)
    PROVE  BookInv'
  <1>1. PICK maker, n, o, o2 :
          /\ maker = orders[e.orderId] /\ n = MatchQty(maker)
          /\ o = tx.order /\ o2 = [o EXCEPT !.remaining = o.remaining - n]
    OBVIOUS
  <1>2. /\ tx.running /\ o.remaining > 0 /\ tx.candidates # {}
        /\ e \in tx.candidates /\ \A f \in tx.candidates : ~ Better(f, e)
        /\ e.orderId \in DOMAIN orders
    BY <1>1 DEF Trade, Matching, IsNext, CanTrade
  <1>3. maker \in Order /\ o \in Order
    BY <1>1, <1>2, TxType DEF TypeOK
  <1>4. /\ n \in Nat /\ n \in {o.remaining, maker.remaining} /\ n <= o.remaining
        /\ o.remaining \in Nat /\ maker.remaining \in Nat
    BY <1>1, <1>2, <1>3, MatchQtyType
  <1>5. /\ orderbook' = BookAfter(e, maker, n)
        /\ tx' = [tx EXCEPT !.order.remaining = o.remaining - n,
                            !.candidates = tx.candidates \ {e}]
    BY <1>1 DEF Trade
  <1>6. PICK ids \in SUBSET OrderIds : tx \in Progress(ids)
    BY <1>2 DEF TypeOK, Idle
  <1>7. /\ tx'.running /\ tx'.order = o2
        /\ tx'.candidates = tx.candidates \ {e}
        /\ tx'.undo = tx.undo
    BY <1>1, <1>5, <1>6 DEF Progress
  <1>8. /\ o2 \in Order /\ o2.remaining = o.remaining - n
        /\ o2.market = o.market /\ o2.side = o.side
        /\ o2.price = o.price /\ o2.orderType = o.orderType
    <2>1. o.remaining - n \in Nat
      BY <1>4
    <2>2. QED
      BY <1>1, <1>3, <2>1 DEF Order
  <1>9. tx.candidates = Candidates(o)
    BY <1>1, <1>2 DEF BookInv, CandidatesStayFresh
  <1>10. orderbook' \subseteq orderbook /\ orderbook \ orderbook' \subseteq {e}
    BY <1>5 DEF BookAfter
  <1>11. Uncrossed(orderbook)'
    BY <1>10 DEF BookInv, Uncrossed
  <1>12. CandidatesStayFresh'
    <2>1. SUFFICES ASSUME o2.remaining > 0
                   PROVE  tx'.candidates = {f \in orderbook' : Compatible(o2, f)}
      BY <1>7 DEF CandidatesStayFresh, Candidates
    <2>2. orderbook' = orderbook \ {e}
      BY <1>4, <1>5, <1>8, <2>1 DEF BookAfter
    <2>3. QED
      BY <1>3, <1>7, <1>8, <1>9, <2>2, CompatibleForLess DEF Candidates
  <1>13. PricePriority'
    <2>1. SUFFICES ASSUME NEW used \in tx.undo.orderbook \ orderbook',
                          NEW left \in orderbook',
                          left.market = used.market, left.side = used.side,
                          Better(left, used)
                   PROVE  FALSE
      BY <1>7 DEF PricePriority, Better
    <2>2. left \in orderbook /\ left \in Entry /\ e \in Entry
      BY <1>10 DEF TypeOK
    <2>3. CASE used \notin orderbook
      BY <1>2, <2>1, <2>2, <2>3 DEF BookInv, PricePriority
    <2>4. CASE used = e
      <3>1. Compatible(o, e)
        BY <1>2, <1>9 DEF Candidates
      <3>2. Compatible(o, left)
        BY <1>3, <2>1, <2>2, <2>4, <3>1, BetterIsCompatible
      <3>3. left \in tx.candidates
        BY <1>9, <2>2, <3>2 DEF Candidates
      <3>4. QED
        BY <1>2, <2>1, <2>4, <3>3
    <2>5. QED
      BY <1>10, <2>1, <2>3, <2>4
  <1>14. QED
    BY <1>2, <1>7, <1>10, <1>11, <1>12, <1>13 DEF BookInv, Uncrossed

\* A failed transaction brings back the book it began with.
LEMMA AbortBook ==
    ASSUME BookInv, NEW e, Abort(e)
    PROVE  BookInv'
  <1>1. tx.running /\ orderbook' = tx.undo.orderbook /\ ~ tx'.running
    BY DEF Abort, Matching, Idle
  <1>2. QED
    BY <1>1 DEF BookInv, Uncrossed, CandidatesStayFresh, PricePriority

\* What rests is a LIMIT order with no candidate left, and it does not cross.
LEMMA FinishBook ==
    ASSUME TypeOK, BookInv, FinishOrder
    PROVE  BookInv'
  <1>1. PICK o, entry :
          /\ o = tx.order
          /\ entry = [market |-> o.market, side |-> o.side, price |-> o.price,
                      orderId |-> tx.id]
    OBVIOUS
  <1>2. tx.running /\ ~ tx'.running /\ (o.remaining > 0 => tx.candidates = {})
    BY <1>1 DEF FinishOrder, Matching, Idle
  <1>3. o \in Order
    BY <1>1, <1>2, TxType
  <1>4. o.price \in Nat /\ o.remaining \in Nat /\ o.side \in Sides /\ o.orderType \in Types
    BY <1>3 DEF Order
  <1>5. orderbook' = (IF FinalStatus(o) = "PARTIAL" THEN orderbook \cup {entry}
                      ELSE orderbook)
    <2>1. [o EXCEPT !.status = FinalStatus(o)].status = FinalStatus(o)
          /\ [o EXCEPT !.status = FinalStatus(o)].market = o.market
          /\ [o EXCEPT !.status = FinalStatus(o)].side = o.side
          /\ [o EXCEPT !.status = FinalStatus(o)].price = o.price
      BY <1>3 DEF Order
    <2>2. QED
      BY <1>1, <2>1 DEF FinishOrder
  <1>6. Uncrossed(orderbook')
    <2>1. CASE FinalStatus(o) = "PARTIAL"
      <3>1. o.remaining > 0 /\ o.orderType = "LIMIT"
        BY <1>4, <2>1 DEF FinalStatus, Types
      <3>2. \A f \in orderbook : ~ Compatible(o, f)
        BY <1>1, <1>2, <3>1 DEF BookInv, CandidatesStayFresh, Candidates
      <3>3. \A f \in orderbook : f.price \in Nat
        BY DEF TypeOK, Entry
      <3>4. \A f \in orderbook :
              f.market = o.market =>
                /\ o.side = "BUY" /\ f.side = "SELL" => o.price < f.price
                /\ o.side = "SELL" /\ f.side = "BUY" => f.price < o.price
        BY <1>4, <3>1, <3>2, <3>3 DEF Compatible, OtherSide
      <3>5. entry.market = o.market /\ entry.side = o.side /\ entry.price = o.price
        BY <1>1
      <3>6. ASSUME NEW b \in orderbook', NEW s \in orderbook',
                   b.market = s.market, b.side = "BUY", s.side = "SELL"
            PROVE  b.price < s.price
        <4>1. b \in orderbook \/ b = entry
          BY <1>5, <2>1
        <4>2. s \in orderbook \/ s = entry
          BY <1>5, <2>1
        <4>3. b \in orderbook /\ s \in orderbook => b.price < s.price
          BY <3>6 DEF BookInv, Uncrossed
        <4>4. QED
          BY <3>4, <3>5, <3>6, <4>1, <4>2, <4>3
      <3>7. QED
        BY <3>6 DEF Uncrossed
    <2>2. CASE FinalStatus(o) # "PARTIAL"
      BY <1>5, <2>2 DEF BookInv
    <2>3. QED
      BY <2>1, <2>2
  <1>7. QED
    BY <1>2, <1>6 DEF BookInv, CandidatesStayFresh, PricePriority, Uncrossed

\* No other step touches the book.
LEMMA OtherBook ==
    ASSUME BookInv, UNCHANGED <<orderbook, tx>>
    PROVE  BookInv'
  BY DEF BookInv, Uncrossed, CandidatesStayFresh, Candidates, PricePriority

LEMMA BookNext == TypeOK /\ BookInv /\ [Next]_vars => BookInv'
  <1> SUFFICES ASSUME TypeOK, BookInv, [Next]_vars PROVE BookInv'
    OBVIOUS
  <1>1. ASSUME NEW u \in Users, NEW m \in MarketIds, NEW p \in BuyPrices \cup SellPrices,
               NEW q \in Quantities,
               PlaceOrder(u, m, "BUY", p, q) \/ PlaceOrder(u, m, "SELL", p, q)
        PROVE  BookInv'
    BY <1>1, PlaceOrderBook
  <1>2. CASE MatchStep
    BY <1>2, TradeBook, AbortBook, FinishBook DEF MatchStep
  <1>3. CASE MarketMsg
    BY <1>3, OtherBook
    DEF MarketMsg, RegisterPairs, CreateMarket, UpdateMarket, DeleteMarket
  <1>4. CASE OrderMsg
    BY <1>4, OtherBook
    DEF OrderMsg, CreateOrder, UpdateOrder, DeleteOrder, CleanOrders
  <1>5. CASE EndBlock
    BY <1>5, OtherBook DEF EndBlock
  <1>6. CASE UNCHANGED vars
    BY <1>6, OtherBook DEF vars
  <1>7. QED
    BY <1>1, <1>2, <1>3, <1>4, <1>5, <1>6 DEF Next

LEMMA BookHolds == Spec => []BookInv
  <1>1. Init => BookInv
    BY DEF Init, Idle, BookInv, Uncrossed, CandidatesStayFresh, PricePriority
  <1>2. QED
    BY <1>1, BookNext, TypeCorrect, PTL DEF Spec

\* The book that a PlaceOrder leaves behind never has a BUY that could trade with a
\* SELL of its market, whatever orders collide or are written directly.
THEOREM BookNeverCrosses == Spec => []NoCrossedBook
  <1>1. BookInv => NoCrossedBook
    BY DEF BookInv, NoCrossedBook
  <1>2. QED
    BY <1>1, BookHolds, PTL

\* The matching loop uses up an entry only when no better price of its side is left
\* in the book.
THEOREM BestPriceFirst == Spec => []PricePriority
  <1>1. BookInv => PricePriority
    BY DEF BookInv
  <1>2. QED
    BY <1>1, BookHolds, PTL

\* The candidates collected before the loop are, at every iteration that still has
\* something to match, those that the book would give now.
THEOREM CandidatesFresh == Spec => []CandidatesStayFresh
  <1>1. BookInv => CandidatesStayFresh
    BY DEF BookInv
  <1>2. QED
    BY <1>1, BookHolds, PTL

-----------------------------------------------------------------------------
(***************************************************************************)
(* The book lists the orders that are partly open.  This is proved for     *)
(* transactions that do not meet the two faults of the code that break it: *)
(* an order id that is used twice in one block, and an order that is       *)
(* written past the book.                                                  *)
(***************************************************************************)
Trading == OnePerBlock /\ Writers = {}

BookLists(book, ords) ==
    /\ \A e \in book :
         /\ e.orderId \in DOMAIN ords
         /\ ords[e.orderId].status = "PARTIAL"
         /\ ords[e.orderId].remaining \in 1 .. ords[e.orderId].quantity
         /\ e = [market |-> ords[e.orderId].market, side |-> ords[e.orderId].side,
                 price |-> ords[e.orderId].price, orderId |-> e.orderId]
    /\ \A id \in DOMAIN ords :
         ords[id].status = "PARTIAL" => \E e \in book : e.orderId = id

\* The inductive invariant: it holds inside the loop too, for the stores that a
\* failure brings back as well, and the running order has an id of its own.
ListInv ==
    /\ BookLists(orderbook, orders)
    /\ tx.running => /\ BookLists(tx.undo.orderbook, tx.undo.orders)
                     /\ tx.id \notin DOMAIN orders
                     /\ tx.order.remaining <= tx.order.quantity

\* One order has one entry.
LEMMA OneEntry ==
    ASSUME NEW book, NEW ords, BookLists(book, ords),
           NEW e \in book, NEW f \in book, e.orderId = f.orderId
    PROVE  e = f
  BY DEF BookLists

LEMMA PlaceOrderList ==
    ASSUME TypeOK, Trading, ListInv,
           NEW u, NEW m, NEW side, NEW p, NEW q \in Nat, PlaceOrder(u, m, side, p, q)
    PROVE  ListInv'
  <1>1. /\ UNCHANGED <<orders, orderbook>>
        /\ tx'.undo.orders = orders /\ tx'.undo.orderbook = orderbook
        /\ tx'.id = <<m, height>> /\ tx'.id \notin DOMAIN orders
        /\ tx'.order.remaining = q /\ tx'.order.quantity = q
    BY DEF PlaceOrder, NewOrder, Trading
  <1>2. QED
    BY <1>1 DEF ListInv

\* The maker's order stays listed until nothing is left of it.
LEMMA TradeList ==
    ASSUME TypeOK, ListInv, NEW e \in orderbook, Trade(e)
    PROVE  ListInv'
  <1>1. PICK maker, n, made :
          /\ maker = orders[e.orderId] /\ n = MatchQty(maker) /\ made = Traded(maker, n)
    OBVIOUS
  <1>2. tx.running /\ tx.order.remaining > 0 /\ e.orderId \in DOMAIN orders
    BY DEF Trade, Matching, CanTrade
  <1>3. maker \in Order
    BY <1>1, <1>2 DEF TypeOK
  <1>4. /\ n \in Nat /\ n <= maker.remaining /\ n <= tx.order.remaining
        /\ n \in {tx.order.remaining, maker.remaining}
        /\ maker.remaining \in Nat /\ tx.order.remaining \in Nat
        /\ maker.quantity \in Nat
    BY <1>1, <1>2, <1>3, MatchQtyType DEF Order
  <1>5. /\ maker.status = "PARTIAL" /\ maker.remaining \in 1 .. maker.quantity
        /\ e = [market |-> maker.market, side |-> maker.side, price |-> maker.price,
                orderId |-> e.orderId]
    BY <1>1 DEF ListInv, BookLists
  <1>6. /\ made.market = maker.market /\ made.side = maker.side
        /\ made.price = maker.price /\ made.quantity = maker.quantity
        /\ made.remaining = maker.remaining - n
        /\ made.status = IF maker.remaining = n THEN "FILLED" ELSE maker.status
    BY <1>1, <1>3 DEF Traded, Order
  <1>7. /\ orders' = Put(orders, e.orderId, made)
        /\ orderbook' = BookAfter(e, maker, n)
        /\ tx' = [tx EXCEPT !.order.remaining = tx.order.remaining - n,
                            !.candidates = tx.candidates \ {e}]
    BY <1>1 DEF Trade
  <1>8. /\ DOMAIN orders' = DOMAIN orders /\ orders'[e.orderId] = made
        /\ \A id \in DOMAIN orders : id # e.orderId => orders'[id] = orders[id]
    BY <1>2, <1>7 DEF Put
  <1>9. n > 0
    BY <1>2, <1>4, <1>5
  <1>10. BookLists(orderbook', orders')
    <2>1. ASSUME NEW f \in orderbook'
          PROVE  /\ f.orderId \in DOMAIN orders'
                 /\ orders'[f.orderId].status = "PARTIAL"
                 /\ orders'[f.orderId].remaining \in 1 .. orders'[f.orderId].quantity
                 /\ f = [market |-> orders'[f.orderId].market,
                         side |-> orders'[f.orderId].side,
                         price |-> orders'[f.orderId].price, orderId |-> f.orderId]
      <3>1. f \in orderbook
        BY <1>7 DEF BookAfter
      <3>2. CASE f.orderId = e.orderId
        <4>1. f = e
          BY <3>1, <3>2, OneEntry DEF ListInv
        <4>2. maker.remaining # n
          BY <1>7, <4>1 DEF BookAfter
        <4>3. maker.remaining - n \in 1 .. maker.quantity
          BY <1>4, <1>5, <4>2
        <4>4. QED
          BY <1>2, <1>5, <1>6, <1>8, <4>1, <4>2, <4>3
      <3>3. CASE f.orderId # e.orderId
        <4>1. f.orderId \in DOMAIN orders /\ orders'[f.orderId] = orders[f.orderId]
          BY <1>8, <3>1, <3>3 DEF ListInv, BookLists
        <4>2. QED
          BY <1>8, <3>1, <4>1 DEF ListInv, BookLists
      <3>4. QED
        BY <3>2, <3>3
    <2>2. ASSUME NEW id \in DOMAIN orders', orders'[id].status = "PARTIAL"
          PROVE  \E f \in orderbook' : f.orderId = id
      <3>1. CASE id = e.orderId
        <4>1. maker.remaining # n
          BY <1>6, <1>8, <2>2, <3>1
        <4>2. QED
          BY <1>7, <3>1, <4>1 DEF BookAfter
      <3>2. CASE id # e.orderId
        <4>1. PICK f \in orderbook : f.orderId = id
          BY <1>8, <2>2, <3>2 DEF ListInv, BookLists
        <4>2. f \in orderbook'
          BY <1>7, <3>2, <4>1 DEF BookAfter
        <4>3. QED
          BY <4>1, <4>2
      <3>3. QED
        BY <3>1, <3>2
    <2>3. QED
      BY <2>1, <2>2 DEF BookLists
  <1>11. PICK ids \in SUBSET OrderIds : tx \in Progress(ids)
    BY <1>2 DEF TypeOK, Idle
  <1>12. /\ tx'.undo = tx.undo /\ tx'.id = tx.id
         /\ tx'.order.remaining = tx.order.remaining - n
         /\ tx'.order.quantity = tx.order.quantity
    BY <1>7, <1>11 DEF Progress, Order
  <1>13. tx.order.quantity \in Nat
    BY <1>2, TxType DEF Order
  <1>14. tx'.order.remaining <= tx'.order.quantity
    BY <1>2, <1>4, <1>12, <1>13 DEF ListInv
  <1>15. QED
    BY <1>2, <1>8, <1>10, <1>12, <1>14 DEF ListInv

LEMMA AbortList ==
    ASSUME ListInv, NEW e, Abort(e)
    PROVE  ListInv'
  BY DEF Abort, Matching, Idle, ListInv

\* What rests is listed, under an id that no order on record has.
LEMMA FinishList ==
    ASSUME TypeOK, ListInv, FinishOrder
    PROVE  ListInv'
  <1>1. PICK o, status, done, entry :
          /\ o = tx.order /\ status = FinalStatus(o)
          /\ done = [o EXCEPT !.status = status]
          /\ entry = [market |-> o.market, side |-> o.side, price |-> o.price,
                      orderId |-> tx.id]
    OBVIOUS
  <1>2. tx.running /\ ~ tx'.running
    BY DEF FinishOrder, Idle
  <1>3. o \in Order
    BY <1>1, <1>2, TxType
  <1>4. /\ done.status = status /\ done.market = o.market /\ done.side = o.side
        /\ done.price = o.price /\ done.remaining = o.remaining
        /\ done.quantity = o.quantity
    BY <1>1, <1>3 DEF Order
  <1>5. /\ orders' = Put(orders, tx.id, done)
        /\ orderbook' = IF done.status = "PARTIAL"
                        THEN orderbook \cup {[market |-> done.market, side |-> done.side,
                                              price |-> done.price, orderId |-> tx.id]}
                        ELSE orderbook
    BY <1>1 DEF FinishOrder
  <1>6. orderbook' = IF status = "PARTIAL" THEN orderbook \cup {entry} ELSE orderbook
    BY <1>1, <1>4, <1>5
  <1>7. tx.id \notin DOMAIN orders /\ o.remaining <= o.quantity
    BY <1>1, <1>2 DEF ListInv
  <1>8. status = "PARTIAL" => o.remaining \in 1 .. o.quantity
    <2>1. o.remaining \in Nat /\ o.quantity \in Nat
      BY <1>3 DEF Order
    <2>2. status = "PARTIAL" => o.remaining # 0
      BY <1>1 DEF FinalStatus
    <2>3. QED
      BY <1>7, <2>1, <2>2
  <1>9. /\ DOMAIN orders' = DOMAIN orders \cup {tx.id} /\ orders'[tx.id] = done
        /\ \A id \in DOMAIN orders : orders'[id] = orders[id]
    BY <1>5, <1>7 DEF Put
  <1>10. BookLists(orderbook', orders')
    <2>1. ASSUME NEW f \in orderbook'
          PROVE  /\ f.orderId \in DOMAIN orders'
                 /\ orders'[f.orderId].status = "PARTIAL"
                 /\ orders'[f.orderId].remaining \in 1 .. orders'[f.orderId].quantity
                 /\ f = [market |-> orders'[f.orderId].market,
                         side |-> orders'[f.orderId].side,
                         price |-> orders'[f.orderId].price, orderId |-> f.orderId]
      <3>1. CASE f \in orderbook
        BY <1>9, <3>1 DEF ListInv, BookLists
      <3>2. CASE f \notin orderbook
        <4>1. f = entry /\ status = "PARTIAL"
          BY <1>6, <2>1, <3>2
        <4>2. f.orderId = tx.id
          BY <1>1, <4>1
        <4>3. QED
          BY <1>1, <1>4, <1>8, <1>9, <4>1, <4>2
      <3>3. QED
        BY <3>1, <3>2
    <2>2. ASSUME NEW id \in DOMAIN orders', orders'[id].status = "PARTIAL"
          PROVE  \E f \in orderbook' : f.orderId = id
      <3>1. CASE id = tx.id
        <4>1. status = "PARTIAL"
          BY <1>4, <1>9, <2>2, <3>1
        <4>2. entry \in orderbook' /\ entry.orderId = tx.id
          BY <1>1, <1>6, <4>1
        <4>3. QED
          BY <3>1, <4>2
      <3>2. CASE id # tx.id
        <4>1. PICK f \in orderbook : f.orderId = id
          BY <1>9, <2>2, <3>2 DEF ListInv, BookLists
        <4>2. QED
          BY <1>6, <4>1
      <3>3. QED
        BY <3>1, <3>2
    <2>3. QED
      BY <2>1, <2>2 DEF BookLists
  <1>11. QED
    BY <1>2, <1>10 DEF ListInv

\* A purge takes filled orders only.
LEMMA PurgeList ==
    ASSUME ListInv, NEW limit, ~ tx.running, BatchCleanFilledOrders(limit),
           UNCHANGED <<orderbook, tx>>
    PROVE  ListInv'
  <1>1. /\ DOMAIN orders' \subseteq DOMAIN orders
        /\ \A id \in DOMAIN orders' : orders'[id] = orders[id]
        /\ \A id \in DOMAIN orders : orders[id].status # "FILLED" => id \in DOMAIN orders'
    BY DEF BatchCleanFilledOrders, Purged, Filled
  <1>2. BookLists(orderbook, orders')
    BY <1>1 DEF ListInv, BookLists
  <1>3. QED
    BY <1>2 DEF ListInv

LEMMA ListNext == TypeOK /\ Trading /\ ListInv /\ [Next]_vars => ListInv'
  <1> SUFFICES ASSUME TypeOK, Trading, ListInv, [Next]_vars PROVE ListInv'
    OBVIOUS
  <1>1. ASSUME NEW u \in Users, NEW m \in MarketIds, NEW p \in BuyPrices \cup SellPrices,
               NEW q \in Quantities,
               PlaceOrder(u, m, "BUY", p, q) \/ PlaceOrder(u, m, "SELL", p, q)
        PROVE  ListInv'
    BY <1>1, PlaceOrderList, DexAssumption
  <1>2. CASE MatchStep
    BY <1>2, TradeList, AbortList, FinishList DEF MatchStep
  <1>3. CASE MarketMsg \/ UNCHANGED vars
    <2>1. UNCHANGED <<orders, orderbook, tx>>
      BY <1>3 DEF MarketMsg, RegisterPairs, CreateMarket, UpdateMarket, DeleteMarket, vars
    <2>2. QED
      BY <2>1 DEF ListInv
  <1>4. CASE OrderMsg
    <2>1. PICK limit \in CleanLimits : CleanOrders(limit)
      BY <1>4 DEF OrderMsg, Trading
    <2>2. QED
      BY <2>1, PurgeList DEF CleanOrders
  <1>5. CASE EndBlock
    BY <1>5, PurgeList DEF EndBlock
  <1>6. QED
    BY <1>1, <1>2, <1>3, <1>4, <1>5 DEF Next

LEMMA ListHolds == Trading => (Spec => []ListInv)
  <1> SUFFICES ASSUME Trading PROVE Spec => []ListInv
    OBVIOUS
  <1>1. Init => ListInv
    BY DEF Init, Idle, EmptyStore, ListInv, BookLists
  <1>2. TypeOK /\ ListInv /\ [Next]_vars => ListInv'
    BY ListNext
  <1>3. QED
    BY <1>1, <1>2, TypeCorrect, PTL DEF Spec

\* Between transactions the book lists exactly the orders that are partly open.
THEOREM BookIsOpenOrders == Trading => (Spec => []BookMatchesOrders)
  <1> SUFFICES ASSUME Trading PROVE Spec => []BookMatchesOrders
    OBVIOUS
  <1>1. ListInv => BookMatchesOrders
    BY DEF ListInv, BookLists, BookMatchesOrders
  <1>2. Spec => []ListInv
    BY ListHolds
  <1>3. QED
    BY <1>1, <1>2, PTL

-----------------------------------------------------------------------------
(***************************************************************************)
(* The escrow.  Besides what the resting orders have to deliver, the       *)
(* module account holds what the running order still has to.  A trade pays *)
(* out of the share of either side what it takes from that side, so no     *)
(* payment can fail.  A MARKET BUY breaks this (it locks nothing), so no   *)
(* BUY has the price 0 here.                                               *)
(***************************************************************************)
LimitBuys == 0 \notin BuyPrices

\* What a trade of n at a price takes from a side, in denomination d.
Share(side, m, n, price, d) ==
    (IF side = "SELL" /\ m.base = d THEN n ELSE 0)
      + (IF side = "BUY" /\ m.quote = d THEN n * price ELSE 0)

\* What an order still has to deliver.
DueOf(o, m, d) == Share(o.side, m, o.remaining, o.price, d)

Dues(book, ords, mkts, d) ==
    [e \in book |-> DueOf(ords[e.orderId], mkts[e.market], d)]

Held(d) ==
    Total(Dues(orderbook, orders, markets, d), orderbook)
      + (IF tx.running THEN DueOf(tx.order, tx.market, d) ELSE 0)

\* Every market is the one that its id names, and every entry has one.
MarketsFit ==
    /\ \A m \in DOMAIN markets : m = <<markets[m].base, markets[m].quote>>
    /\ \A e \in orderbook : e.market \in DOMAIN markets
    /\ tx.running =>
         /\ tx.order.market \in DOMAIN markets
         /\ tx.market = markets[tx.order.market]
         /\ tx.order.side = "BUY" => tx.order.orderType = "LIMIT"

EscrowInv ==
    /\ IsFiniteSet(orderbook)
    /\ MarketsFit
    /\ \A d \in Denoms : bank[ModuleAccount][d] >= Held(d)

LEMMA ShareType ==
    ASSUME NEW side, NEW m, NEW n \in Nat, NEW price \in Nat, NEW d
    PROVE  Share(side, m, n, price, d) \in Nat
  <1>1. n * price \in Nat
    BY TimesNat
  <1>2. QED
    BY <1>1 DEF Share

LEMMA TimesDearer ==
    ASSUME NEW n \in Nat, NEW p \in Nat, NEW q \in Nat, p <= q
    PROVE  n * p <= n * q
  OBVIOUS

\* A trade takes its share off what is due.
LEMMA ShareSplit ==
    ASSUME NEW side, NEW m, NEW r \in Nat, NEW n \in Nat, NEW left \in Nat,
           r = left + n, NEW p \in Nat, NEW d
    PROVE  Share(side, m, r, p, d) = Share(side, m, left, p, d) + Share(side, m, n, p, d)
  <1>1. /\ r * p = left * p + n * p
        /\ r * p \in Nat /\ left * p \in Nat /\ n * p \in Nat
    BY TimesNat
  <1>2. QED
    BY <1>1 DEF Share

\* What two payments take, in denomination d.
Both(d1, n1, d2, n2, d) == (IF d1 = d THEN n1 ELSE 0) + (IF d2 = d THEN n2 ELSE 0)

\* Two payments out of the module account, when it covers both.
LEMMA TwoPayments ==
    ASSUME NEW ledger \in Ledger, NEW a \in Users, NEW b \in Users,
           NEW d1 \in Denoms, NEW n1 \in Nat, NEW d2 \in Denoms, NEW n2 \in Nat,
           \A d \in Denoms : ledger[ModuleAccount][d] >= Both(d1, n1, d2, n2, d),
           NEW first, first = Send(ledger, ModuleAccount, a, d1, n1),
           NEW second, second = Send(first, ModuleAccount, b, d2, n2)
    PROVE  /\ CanSend(ledger, ModuleAccount, d1, n1)
           /\ CanSend(first, ModuleAccount, d2, n2)
           /\ \A d \in Denoms : second[ModuleAccount][d] =
                ledger[ModuleAccount][d] - Both(d1, n1, d2, n2, d)
  <1> DEFINE M == ModuleAccount
  <1>1. /\ M \in Accounts /\ a \in Accounts /\ b \in Accounts /\ M # a /\ M # b
        /\ ledger \in [Accounts -> [Denoms -> Nat]]
    BY DexAssumption DEF Accounts, Ledger
  <1>2. \A d \in Denoms :
          ledger[M][d] >= (IF d1 = d THEN n1 ELSE 0) + (IF d2 = d THEN n2 ELSE 0)
    BY DEF Both
  <1>3. ledger[M][d1] >= n1
    BY <1>1, <1>2
  <1>4. CanSend(ledger, M, d1, n1)
    BY <1>3 DEF CanSend
  <1> HIDE DEF M
  <1>5. first \in [Accounts -> [Denoms -> Nat]]
    BY <1>1, <1>4, SendKeepsNat DEF M
  <1>6. \A d \in Denoms : first[M][d] = IF d = d1 THEN ledger[M][d] - n1 ELSE ledger[M][d]
    BY <1>1, SendMoves DEF M
  <1>7. \A d \in Denoms : second[M][d] = IF d = d2 THEN first[M][d] - n2 ELSE first[M][d]
    BY <1>1, <1>5, SendMoves DEF M
  <1>8. \A d \in Denoms : ledger[M][d] \in Nat /\ first[M][d] \in Nat
    BY <1>1, <1>5
  <1>9. first[M][d2] >= n2
    <2>1. ledger[M][d2] >= (IF d1 = d2 THEN n1 ELSE 0) + n2
      BY <1>2
    <2>2. QED
      BY <1>6, <1>8, <2>1
  <1>10. \A d \in Denoms : second[M][d] = ledger[M][d] - Both(d1, n1, d2, n2, d)
    BY <1>6, <1>7, <1>8 DEF Both
  <1>11. CanSend(first, M, d2, n2)
    BY <1>9 DEF CanSend
  <1>12. QED
    BY <1>4, <1>10, <1>11 DEF M

LEMMA DueType ==
    ASSUME NEW o \in Order, NEW m, NEW d
    PROVE  DueOf(o, m, d) \in Nat
  <1>1. o.remaining \in Nat /\ o.price \in Nat
    BY DEF Order
  <1>2. QED
    BY <1>1, ShareType DEF DueOf

LEMMA DuesType ==
    ASSUME NEW book, NEW ords, NEW mkts, BookLists(book, ords),
           ords \in [DOMAIN ords -> Order], NEW d
    PROVE  Dues(book, ords, mkts, d) \in [book -> Nat]
  <1>1. \A e \in book : ords[e.orderId] \in Order
    BY DEF BookLists
  <1>2. \A e \in book : DueOf(ords[e.orderId], mkts[e.market], d) \in Nat
    BY <1>1, DueType
  <1>3. QED
    BY <1>2 DEF Dues

\* What the book owes, which the property adds up with a fold, is the total of the dues.
LEMMA OwedIsTotal ==
    TypeOK /\ ListInv /\ IsFiniteSet(orderbook) =>
      \A d \in Denoms : Owed(d) = Total(Dues(orderbook, orders, markets, d), orderbook)
  <1> SUFFICES ASSUME TypeOK, ListInv, IsFiniteSet(orderbook), NEW d \in Denoms
               PROVE  Owed(d) = Total(Dues(orderbook, orders, markets, d), orderbook)
    OBVIOUS
  <1> DEFINE f == Dues(orderbook, orders, markets, d)
             due(e) == (IF e.side = "SELL" /\ markets[e.market].base = d
                        THEN orders[e.orderId].remaining ELSE 0)
                         + (IF e.side = "BUY" /\ markets[e.market].quote = d
                            THEN orders[e.orderId].remaining * orders[e.orderId].price
                            ELSE 0)
             G(h) == [s \in SUBSET orderbook |->
                        IF s = {} THEN 0
                        ELSE due(CHOOSE e \in s : TRUE) + h[s \ {CHOOSE e \in s : TRUE}]]
             it == CHOOSE h : h = G(h)
  <1>1. Owed(d) = it[orderbook]
    BY DEF Owed, MapThenSumSet, MapThenFoldSet
  <1>2. ASSUME NEW e \in orderbook PROVE f[e] = due(e)
    <2>1. e.side = orders[e.orderId].side
      BY DEF ListInv, BookLists
    <2>2. QED
      BY <2>1 DEF Dues, DueOf, Share
  <1>3. f \in [orderbook -> Nat]
    BY DuesType DEF TypeOK, ListInv
  <1> HIDE DEF f, due
  <1>4. ASSUME NEW h PROVE FoldStep(f, orderbook, h) = G(h)
    BY <1>2 DEF FoldStep
  <1> HIDE DEF G
  <1>5. it = FoldStep(f, orderbook, it)
    <2>1. \E h : h = FoldStep(f, orderbook, h)
      BY <1>3, FoldExists
    <2>2. \E h : h = G(h)
      BY <1>4, <2>1
    <2>3. it = G(it)
      BY <2>2
    <2>4. QED
      BY <1>4, <2>3
  <1> HIDE DEF it
  <1>6. QED
    BY <1>1, <1>3, <1>5, FoldIsTotal DEF f

LEMMA EscrowCovers ==
    TypeOK /\ ListInv /\ EscrowInv => EscrowCoversBook
  <1> SUFFICES ASSUME TypeOK, ListInv, EscrowInv, ~ tx.running, NEW d \in Denoms
               PROVE  bank[ModuleAccount][d] >= Owed(d)
    BY DEF EscrowCoversBook
  <1>1. IsFiniteSet(orderbook)
    BY DEF EscrowInv
  <1>2. Total(Dues(orderbook, orders, markets, d), orderbook) \in Nat
    BY <1>1, DuesType, TotalType DEF ListInv, TypeOK
  <1>3. bank[ModuleAccount][d]
          >= Total(Dues(orderbook, orders, markets, d), orderbook) + 0
    BY DEF EscrowInv, Held
  <1>4. bank[ModuleAccount][d] \in Nat
    BY DEF TypeOK, Ledger, Accounts
  <1>5. Owed(d) = Total(Dues(orderbook, orders, markets, d), orderbook)
    BY <1>1, OwedIsTotal
  <1>6. QED
    BY <1>2, <1>3, <1>4, <1>5

LEMMA InitEscrow == Init => EscrowInv
  <1> SUFFICES ASSUME Init PROVE EscrowInv
    OBVIOUS
  <1>1. /\ orderbook = {} /\ DOMAIN markets = {} /\ ~ tx.running
        /\ \A d \in Denoms : bank[ModuleAccount][d] = 0
    BY DEF Init, EmptyStore, Idle, Accounts
  <1>2. \A d \in Denoms : Held(d) = 0
    BY <1>1, TotalEmpty DEF Held
  <1>3. QED
    BY <1>1, <1>2, FS_EmptySet DEF EscrowInv, MarketsFit

\* A new order locks all that it may have to deliver.
LEMMA PlaceOrderEscrow ==
    ASSUME TypeOK, ListInv, EscrowInv,
           NEW u \in Users, NEW m \in MarketIds, NEW side \in Sides,
           NEW p \in Nat, NEW q \in Nat, side = "BUY" => p # 0,
           PlaceOrder(u, m, side, p, q)
    PROVE  EscrowInv'
  <1> DEFINE order  == NewOrder(u, m, side, p, q)
             escrow == EscrowOf(order, markets[m])
  <1>1. /\ order.side = side /\ order.market = m /\ order.price = p
        /\ order.remaining = q /\ order.quantity = q
        /\ order.side = "BUY" => order.orderType = "LIMIT"
    BY DEF NewOrder
  <1>2. markets[m] \in Market /\ m \in DOMAIN markets
    BY DEF TypeOK, PlaceOrder
  <1>3. escrow.denom \in Denoms /\ escrow.n \in Nat
        /\ \A d \in Denoms : DueOf(order, markets[m], d)
                               = IF d = escrow.denom THEN escrow.n ELSE 0
    <2>1. p * q \in Nat /\ p * q = q * p
      BY TimesNat
    <2>2. markets[m].base \in Denoms /\ markets[m].quote \in Denoms
      BY <1>2 DEF Market
    <2> HIDE DEF order
    <2>3. CASE side = "SELL"
      BY <1>1, <2>2, <2>3 DEF EscrowOf, DueOf, Share
    <2>4. CASE side = "BUY"
      BY <1>1, <2>1, <2>2, <2>4 DEF EscrowOf, DueOf, Share
    <2>5. QED
      BY <2>3, <2>4 DEF Sides
  <1> HIDE DEF order, escrow
  <1>4. /\ CanSend(bank, u, escrow.denom, escrow.n)
        /\ bank' = Send(bank, u, ModuleAccount, escrow.denom, escrow.n)
        /\ tx'.running /\ tx'.order = order /\ tx'.market = markets[m]
        /\ UNCHANGED <<height, markets, orders, orderbook>>
        /\ ~ tx.running
    BY DEF PlaceOrder, order, escrow
  <1>5. /\ u \in Accounts /\ ModuleAccount \in Accounts /\ u # ModuleAccount
        /\ bank \in [Accounts -> [Denoms -> Nat]]
    BY DexAssumption DEF Accounts, TypeOK, Ledger
  <1>6. \A d \in Denoms : bank'[ModuleAccount][d]
          = IF d = escrow.denom THEN bank[ModuleAccount][d] + escrow.n
            ELSE bank[ModuleAccount][d]
    BY <1>4, <1>5, SendMoves
  <1>7. ASSUME NEW d \in Denoms PROVE bank'[ModuleAccount][d] >= Held(d)'
    <2> DEFINE T == Total(Dues(orderbook, orders, markets, d), orderbook)
    <2>1. T \in Nat
      BY DuesType, TotalType DEF ListInv, EscrowInv, TypeOK
    <2>2. bank[ModuleAccount][d] \in Nat
      BY <1>5
    <2>3. bank[ModuleAccount][d] >= T + 0
      BY <1>4 DEF EscrowInv, Held
    <2>4. Held(d)' = T + DueOf(order, markets[m], d)
      BY <1>4 DEF Held
    <2> HIDE DEF T
    <2>5. QED
      BY <1>3, <1>6, <2>1, <2>2, <2>3, <2>4
  <1>8. MarketsFit'
    BY <1>1, <1>2, <1>4 DEF EscrowInv, MarketsFit
  <1>9. QED
    BY <1>4, <1>7, <1>8 DEF EscrowInv

\* What a trade pays out of the module account, in denomination d.
Paid(m, n, price, d) ==
    (IF m.base = d THEN n ELSE 0) + (IF m.quote = d THEN n * price ELSE 0)

\* The two sides of a candidate pair cover together what the trade pays.
LEMMA SidesCoverTrade ==
    ASSUME NEW side \in Sides, NEW m, NEW n \in Nat, NEW p \in Nat, NEW q \in Nat,
           side = "BUY" => p <= q, NEW d
    PROVE  Paid(m, n, p, d)
             <= Share(side, m, n, q, d) + Share(OtherSide(side), m, n, p, d)
  <1>1. n * p \in Nat /\ n * q \in Nat
    BY TimesNat
  <1>2. CASE side = "SELL"
    BY <1>1, <1>2 DEF Paid, Share, OtherSide
  <1>3. CASE side = "BUY"
    <2>1. n * p <= n * q
      BY <1>3, TimesDearer
    <2>2. QED
      BY <1>1, <1>3, <2>1 DEF Paid, Share, OtherSide
  <1>4. QED
    BY <1>2, <1>3 DEF Sides

\* A candidate is a resting order of the other side of the market, with a price
\* that the running order accepts.
LEMMA CandidateFacts ==
    ASSUME TypeOK, BookInv, ListInv, MarketsFit, Matching, NEW e \in tx.candidates
    PROVE  /\ e \in orderbook /\ e.orderId \in DOMAIN orders
           /\ orders[e.orderId] \in Order /\ tx.order \in Order /\ tx.market \in Market
           /\ orders[e.orderId].side = OtherSide(tx.order.side)
           /\ tx.market = markets[e.market]
           /\ tx.order.side = "BUY" => orders[e.orderId].price <= tx.order.price
  <1>1. tx.running /\ tx.order.remaining > 0
    BY DEF Matching
  <1>2. e \in orderbook /\ Compatible(tx.order, e)
    BY <1>1 DEF BookInv, CandidatesStayFresh, Candidates
  <1>3. /\ e.orderId \in DOMAIN orders
        /\ e.side = orders[e.orderId].side /\ e.price = orders[e.orderId].price
    BY <1>2 DEF ListInv, BookLists
  <1>4. orders[e.orderId] \in Order /\ tx.order \in Order /\ tx.market \in Market
    BY <1>1, <1>3, TxType DEF TypeOK
  <1>5. e.side = OtherSide(tx.order.side) /\ e.market = tx.order.market
        /\ (tx.order.side = "BUY" => e.price <= tx.order.price)
    BY <1>1, <1>2 DEF Compatible, MarketsFit
  <1>6. tx.market = markets[e.market]
    BY <1>1, <1>5 DEF MarketsFit
  <1>7. QED
    BY <1>2, <1>3, <1>4, <1>5, <1>6

\* What is held for the other orders, and what a trade leaves to either side.
LEMMA HeldSplit ==
    ASSUME TypeOK, BookInv, ListInv, EscrowInv, Matching, NEW e \in tx.candidates,
           NEW maker, maker = orders[e.orderId], NEW n \in Nat,
           n <= maker.remaining, n <= tx.order.remaining, NEW d \in Denoms
    PROVE  LET rest == Total(Dues(orderbook, orders, markets, d), orderbook \ {e})
               o    == tx.order
               m    == tx.market
           IN  /\ rest \in Nat
               /\ Held(d) >= rest + Paid(m, n, maker.price, d)
                               + Share(maker.side, m, maker.remaining - n, maker.price, d)
                               + Share(o.side, m, o.remaining - n, o.price, d)
  <1> DEFINE D    == Dues(orderbook, orders, markets, d)
             rest == Total(D, orderbook \ {e})
             o    == tx.order
             m    == tx.market
             mk   == Share(maker.side, m, maker.remaining - n, maker.price, d)
             tk   == Share(o.side, m, o.remaining - n, o.price, d)
             mn   == Share(maker.side, m, n, maker.price, d)
             tn   == Share(o.side, m, n, o.price, d)
  <1>1. /\ e \in orderbook /\ maker \in Order /\ o \in Order
        /\ maker.side = OtherSide(o.side) /\ m = markets[e.market]
        /\ o.side = "BUY" => maker.price <= o.price
    BY CandidateFacts DEF EscrowInv
  <1>2. /\ maker.remaining \in Nat /\ maker.price \in Nat
        /\ o.remaining \in Nat /\ o.price \in Nat /\ o.side \in Sides
        /\ maker.remaining - n \in Nat /\ o.remaining - n \in Nat
    <2>1. /\ maker.remaining \in Nat /\ maker.price \in Nat
          /\ o.remaining \in Nat /\ o.price \in Nat /\ o.side \in Sides
      BY <1>1 DEF Order
    <2>2. QED
      BY <2>1
  <1>3. IsFiniteSet(orderbook) /\ D \in [orderbook -> Nat]
    BY DuesType DEF EscrowInv, ListInv, TypeOK
  <1> HIDE DEF D
  <1>4. Total(D, orderbook) = D[e] + rest
    BY <1>1, <1>3, TotalSplit
  <1>5. rest \in Nat
    <2>1. orderbook \ {e} \in SUBSET orderbook /\ IsFiniteSet(orderbook \ {e})
      BY <1>3, FS_Subset
    <2>2. QED
      BY <1>3, <2>1, TotalType
  <1>6. D[e] = DueOf(maker, m, d)
    BY <1>1 DEF D, Dues
  <1>7. Held(d) = Total(D, orderbook) + DueOf(o, m, d)
    BY DEF Held, Matching, D
  <1>8. DueOf(maker, m, d) = mk + mn
    <2>1. PICK left \in Nat : left = maker.remaining - n /\ maker.remaining = left + n
      BY <1>2
    <2>2. Share(maker.side, m, maker.remaining, maker.price, d)
            = Share(maker.side, m, left, maker.price, d) + mn
      BY <1>2, <2>1, ShareSplit
    <2>3. QED
      BY <2>1, <2>2 DEF DueOf
  <1>9. DueOf(o, m, d) = tk + tn
    <2>1. PICK left \in Nat : left = o.remaining - n /\ o.remaining = left + n
      BY <1>2
    <2>2. Share(o.side, m, o.remaining, o.price, d)
            = Share(o.side, m, left, o.price, d) + tn
      BY <1>2, <2>1, ShareSplit
    <2>3. QED
      BY <2>1, <2>2 DEF DueOf
  <1>10. Paid(m, n, maker.price, d) <= tn + mn
    BY <1>1, <1>2, SidesCoverTrade
  <1>11. mk \in Nat /\ mn \in Nat /\ tk \in Nat /\ tn \in Nat
    BY <1>2, ShareType
  <1>12. Paid(m, n, maker.price, d) \in Nat
    <2>1. n * maker.price \in Nat
      BY <1>2, TimesNat
    <2>2. QED
      BY <2>1 DEF Paid
  <1> HIDE DEF rest, mk, mn, tk, tn
  <1>13. Held(d) >= rest + Paid(m, n, maker.price, d) + mk + tk
    BY <1>4, <1>5, <1>6, <1>7, <1>8, <1>9, <1>10, <1>11, <1>12
  <1>14. QED
    BY <1>5, <1>13 DEF rest, mk, tk, D

\* The payments of a trade are covered, and this is what they take.
LEMMA TradePays ==
    ASSUME TypeOK, BookInv, ListInv, EscrowInv, Matching, NEW e \in tx.candidates
    PROVE  LET maker == orders[e.orderId]
               n     == MatchQty(maker)
               pay   == Payments(maker, n)
           IN  /\ CanSettle(pay)
               /\ SettleAssets(maker, pay) =>
                    \A d \in Denoms : bank'[ModuleAccount][d] =
                      bank[ModuleAccount][d] - Paid(tx.market, n, maker.price, d)
  <1>1. PICK maker, n, pay, td, tq, md, mq :
          /\ maker = orders[e.orderId] /\ n = MatchQty(maker) /\ pay = Payments(maker, n)
          /\ td = pay.taker.denom /\ tq = pay.taker.n
          /\ md = pay.maker.denom /\ mq = pay.maker.n
    OBVIOUS
  <1>2. /\ maker \in Order /\ tx.order \in Order /\ tx.market \in Market
        /\ maker.price \in Nat /\ tx.running
    <2>1. maker \in Order /\ tx.order \in Order /\ tx.market \in Market /\ tx.running
      BY <1>1, CandidateFacts DEF EscrowInv, Matching
    <2>2. QED
      BY <2>1 DEF Order
  <1>3. n \in Nat /\ n <= maker.remaining /\ n <= tx.order.remaining
        /\ maker.remaining \in Nat /\ tx.order.remaining \in Nat
    BY <1>1, <1>2, MatchQtyType
  <1>4. PICK cost : cost = n * maker.price /\ cost \in Nat
    BY <1>2, <1>3, TimesNat
  <1>5. /\ td \in Denoms /\ md \in Denoms /\ tq \in Nat /\ mq \in Nat
        /\ \A d \in Denoms : Paid(tx.market, n, maker.price, d)
             = Both(td, tq, md, mq, d)
    <2>1. tx.market.base \in Denoms /\ tx.market.quote \in Denoms
      BY <1>2 DEF Market
    <2>2. pay = IF tx.order.side = "BUY"
                THEN [taker |-> [denom |-> tx.market.base, n |-> n],
                      maker |-> [denom |-> tx.market.quote, n |-> cost]]
                ELSE [taker |-> [denom |-> tx.market.quote, n |-> cost],
                      maker |-> [denom |-> tx.market.base, n |-> n]]
      BY <1>1, <1>4 DEF Payments
    <2>3. \A d \in Denoms : Paid(tx.market, n, maker.price, d)
            = (IF tx.market.base = d THEN n ELSE 0) + (IF tx.market.quote = d THEN cost ELSE 0)
      BY <1>4 DEF Paid
    <2>4. CASE tx.order.side = "BUY"
      <3>1. /\ td = tx.market.base /\ tq = n /\ md = tx.market.quote /\ mq = cost
        BY <1>1, <2>2, <2>4
      <3>2. QED
        BY <1>3, <1>4, <2>1, <2>3, <3>1 DEF Both
    <2>5. CASE tx.order.side # "BUY"
      <3>1. /\ td = tx.market.quote /\ tq = cost /\ md = tx.market.base /\ mq = n
        BY <1>1, <2>2, <2>5
      <3>2. QED
        BY <1>3, <1>4, <2>1, <2>3, <3>1 DEF Both
    <2>6. QED
      BY <2>4, <2>5
  <1>6. ASSUME NEW d \in Denoms
        PROVE  bank[ModuleAccount][d]
                 >= Both(td, tq, md, mq, d)
    <2>1. PICK rest, mk, tk :
            /\ rest = Total(Dues(orderbook, orders, markets, d), orderbook \ {e})
            /\ mk = Share(maker.side, tx.market, maker.remaining - n, maker.price, d)
            /\ tk = Share(tx.order.side, tx.market, tx.order.remaining - n, tx.order.price, d)
      OBVIOUS
    <2>2. /\ rest \in Nat
          /\ Held(d) >= rest + Paid(tx.market, n, maker.price, d) + mk + tk
      BY <1>1, <1>3, <2>1, HeldSplit
    <2>3. mk \in Nat /\ tk \in Nat
      <3>1. maker.remaining - n \in Nat /\ tx.order.remaining - n \in Nat
        BY <1>3
      <3>2. tx.order.price \in Nat
        BY <1>2 DEF Order
      <3>3. QED
        BY <1>2, <2>1, <3>1, <3>2, ShareType
    <2>4. bank[ModuleAccount][d] >= Held(d) /\ bank[ModuleAccount][d] \in Nat
      BY DEF EscrowInv, TypeOK, Ledger, Accounts
    <2>5. PICK paid \in Nat :
            /\ paid = Paid(tx.market, n, maker.price, d)
            /\ paid = Both(td, tq, md, mq, d)
      <3>1. Both(td, tq, md, mq, d) \in Nat
        BY <1>5 DEF Both
      <3>2. QED
        BY <1>5, <3>1
    <2>6. Held(d) \in Int
      <3>1. Total(Dues(orderbook, orders, markets, d), orderbook) \in Nat
        BY DuesType, TotalType DEF ListInv, EscrowInv, TypeOK
      <3>2. DueOf(tx.order, tx.market, d) \in Nat
        BY <1>2, DueType
      <3>3. QED
        BY <1>2, <3>1, <3>2 DEF Held
    <2>7. QED
      BY <2>2, <2>3, <2>4, <2>5, <2>6
  <1>7. tx.order.creator \in Users /\ maker.creator \in Users /\ bank \in Ledger
    BY <1>2 DEF Order, TypeOK
  <1>8. PICK first, second :
           /\ first = Send(bank, ModuleAccount, tx.order.creator, td, tq)
           /\ second = Send(first, ModuleAccount, maker.creator, md, mq)
    OBVIOUS
  <1>9. /\ CanSend(bank, ModuleAccount, td, tq)
        /\ CanSend(first, ModuleAccount, md, mq)
        /\ \A d \in Denoms : second[ModuleAccount][d]
                               = bank[ModuleAccount][d] - Both(td, tq, md, mq, d)
    <2>1. \A d \in Denoms : bank[ModuleAccount][d] >= Both(td, tq, md, mq, d)
      BY <1>6
    <2>2. td \in Denoms /\ md \in Denoms /\ tq \in Nat /\ mq \in Nat
      BY <1>5
    <2>3. QED
      BY <1>7, <1>8, <2>1, <2>2, TwoPayments
  <1>10. PayTaker(pay) = first
    BY <1>1, <1>8 DEF PayTaker
  <1>11. CanSettle(pay)
    BY <1>1, <1>9, <1>10 DEF CanSettle
  <1>12. ASSUME SettleAssets(maker, pay)
         PROVE  \A d \in Denoms : bank'[ModuleAccount][d] =
                  bank[ModuleAccount][d] - Paid(tx.market, n, maker.price, d)
    <2>1. bank' = second
      BY <1>1, <1>8, <1>10, <1>12 DEF SettleAssets
    <2>2. QED
      BY <1>5, <1>9, <2>1
  <1>13. QED
    BY <1>1, <1>11, <1>12

LEMMA CandidatesTrade ==
    ASSUME TypeOK, BookInv, ListInv, EscrowInv
    PROVE  MatchingNeverFails
  <1> SUFFICES ASSUME Matching, NEW e \in tx.candidates PROVE CanTrade(e)
    BY DEF MatchingNeverFails
  <1>1. e.orderId \in DOMAIN orders
    BY CandidateFacts DEF EscrowInv
  <1>2. CanSettle(Payments(orders[e.orderId], MatchQty(orders[e.orderId])))
    BY TradePays
  <1>3. QED
    BY <1>1, <1>2 DEF CanTrade

\* A trade takes from the escrow no more than it takes off what is due.
LEMMA TradeEscrow ==
    ASSUME TypeOK, BookInv, ListInv, EscrowInv, NEW e \in orderbook, Trade(e),
           TypeOK', ListInv'
    PROVE  EscrowInv'
  <1>1. PICK maker, n, made, o, m :
          /\ maker = orders[e.orderId] /\ n = MatchQty(maker) /\ made = Traded(maker, n)
          /\ o = tx.order /\ m = tx.market
    OBVIOUS
  <1>2. Matching /\ e \in tx.candidates /\ tx.running
    BY DEF Trade, IsNext, Matching
  <1>3. /\ e.orderId \in DOMAIN orders /\ maker \in Order /\ o \in Order
        /\ m = markets[e.market]
    BY <1>1, <1>2, CandidateFacts DEF EscrowInv
  <1>4. n \in Nat /\ n <= maker.remaining /\ n <= o.remaining
        /\ maker.remaining \in Nat /\ o.remaining \in Nat
    BY <1>1, <1>2, <1>3, MatchQtyType
  <1>5. /\ SettleAssets(maker, Payments(maker, n))
        /\ orders' = Put(orders, e.orderId, made)
        /\ orderbook' = BookAfter(e, maker, n)
        /\ tx' = [tx EXCEPT !.order.remaining = o.remaining - n,
                            !.candidates = tx.candidates \ {e}]
        /\ markets' = markets
    BY <1>1 DEF Trade
  <1>6. /\ made.side = maker.side /\ made.price = maker.price
        /\ made.remaining = maker.remaining - n
    BY <1>1, <1>3 DEF Traded, Order
  <1>7. /\ orders'[e.orderId] = made
        /\ \A id \in DOMAIN orders : id # e.orderId => orders'[id] = orders[id]
    BY <1>3, <1>5 DEF Put
  <1>8. PICK ids \in SUBSET OrderIds : tx \in Progress(ids)
    BY <1>2 DEF TypeOK, Idle
  <1>9. /\ tx'.running /\ tx'.market = m
        /\ tx'.order.market = o.market /\ tx'.order.side = o.side
        /\ tx'.order.price = o.price /\ tx'.order.orderType = o.orderType
        /\ tx'.order.remaining = o.remaining - n
    BY <1>1, <1>5, <1>8 DEF Progress, Order
  <1>10. orderbook' \subseteq orderbook
    BY <1>5 DEF BookAfter
  <1>11. IsFiniteSet(orderbook) /\ IsFiniteSet(orderbook')
    BY <1>10, FS_Subset DEF EscrowInv
  <1>12. MarketsFit'
    BY <1>1, <1>2, <1>5, <1>9, <1>10 DEF EscrowInv, MarketsFit
  <1>13. ASSUME NEW d \in Denoms PROVE bank'[ModuleAccount][d] >= Held(d)'
    <2>1. PICK D, D1, rest, mk, tk, paid :
            /\ D = Dues(orderbook, orders, markets, d)
            /\ D1 = Dues(orderbook', orders', markets', d)
            /\ rest = Total(D, orderbook \ {e})
            /\ mk = Share(maker.side, m, maker.remaining - n, maker.price, d)
            /\ tk = Share(o.side, m, o.remaining - n, o.price, d)
            /\ paid = Paid(m, n, maker.price, d)
      OBVIOUS
    <2>2. rest \in Nat /\ Held(d) >= rest + paid + mk + tk
      BY <1>1, <1>2, <1>4, <2>1, HeldSplit
    <2>3. bank'[ModuleAccount][d] = bank[ModuleAccount][d] - paid
      BY <1>1, <1>2, <1>5, <2>1, TradePays
    <2>4. D \in [orderbook -> Nat] /\ D1 \in [orderbook' -> Nat]
      BY <2>1, DuesType DEF ListInv, TypeOK
    <2>5. ASSUME NEW f \in orderbook', f # e PROVE D1[f] = D[f]
      <3>1. f \in orderbook /\ f.orderId # e.orderId
        BY <1>10, <2>5, OneEntry DEF ListInv
      <3>2. f.orderId \in DOMAIN orders
        BY <3>1 DEF ListInv, BookLists
      <3>3. orders'[f.orderId] = orders[f.orderId]
        BY <1>7, <3>1, <3>2
      <3>4. QED
        BY <1>5, <2>1, <3>1, <3>3 DEF Dues
    <2>6. orderbook' \ {e} = orderbook \ {e}
      BY <1>5 DEF BookAfter
    <2>7. Total(D1, orderbook' \ {e}) = rest
      <3>1. \A f \in orderbook' \ {e} : D1[f] = D[f]
        BY <2>5
      <3>2. QED
        BY <2>1, <2>6, <3>1, TotalSame
    <2>8. Total(D1, orderbook') = rest + mk
      <3>1. CASE maker.remaining = n
        <4>1. orderbook' = orderbook' \ {e}
          BY <1>5, <3>1 DEF BookAfter
        <4>2. maker.price \in Nat /\ maker.remaining - n = 0
          BY <1>3, <1>4, <3>1 DEF Order
        <4>3. 0 * maker.price = 0
          BY <4>2
        <4>4. mk = 0
          BY <2>1, <4>2, <4>3 DEF Share
        <4>5. Total(D1, orderbook') = rest
          BY <2>7, <4>1
        <4>6. QED
          BY <2>2, <4>4, <4>5
      <3>2. CASE maker.remaining # n
        <4>1. e \in orderbook'
          BY <1>5, <3>2 DEF BookAfter
        <4>2. D1[e] = mk
          BY <1>3, <1>5, <1>6, <1>7, <2>1, <4>1 DEF Dues, DueOf
        <4>3. Total(D1, orderbook') = D1[e] + Total(D1, orderbook' \ {e})
          BY <1>11, <2>4, <4>1, TotalSplit
        <4>4. D1[e] \in Nat
          BY <2>4, <4>1
        <4>5. QED
          BY <2>2, <2>7, <4>2, <4>3, <4>4
      <3>3. QED
        BY <3>1, <3>2
    <2>9. DueOf(tx'.order, tx'.market, d) = tk
      BY <1>9, <2>1 DEF DueOf
    <2>10. Held(d)' = Total(D1, orderbook') + tk
      BY <1>9, <2>1, <2>9 DEF Held
    <2>11. mk \in Nat /\ tk \in Nat /\ paid \in Nat
      <3>1. /\ maker.remaining - n \in Nat /\ o.remaining - n \in Nat
            /\ maker.price \in Nat /\ o.price \in Nat
        BY <1>3, <1>4 DEF Order
      <3>2. n * maker.price \in Nat
        BY <1>4, <3>1, TimesNat
      <3>3. mk \in Nat /\ tk \in Nat
        BY <2>1, <3>1, ShareType
      <3>4. paid \in Nat
        BY <1>4, <2>1, <3>2 DEF Paid
      <3>5. QED
        BY <3>3, <3>4
    <2>12. bank[ModuleAccount][d] >= Held(d) /\ bank[ModuleAccount][d] \in Nat
      BY DEF EscrowInv, TypeOK, Ledger, Accounts
    <2>13. Held(d) \in Nat
      <3>1. Total(D, orderbook) \in Nat
        BY <1>11, <2>4, TotalType
      <3>2. DueOf(tx.order, tx.market, d) \in Nat
        BY <1>1, <1>3, DueType
      <3>3. QED
        BY <1>2, <2>1, <3>1, <3>2 DEF Held
    <2>14. QED
      BY <2>2, <2>3, <2>8, <2>10, <2>11, <2>12, <2>13
  <1>14. QED
    BY <1>11, <1>12, <1>13 DEF EscrowInv

\* What the running order still had to deliver goes to the book with it, or back to
\* its owner.
LEMMA FinishEscrow ==
    ASSUME TypeOK, ListInv, EscrowInv, FinishOrder, TypeOK', ListInv'
    PROVE  EscrowInv'
  <1>1. PICK o, m, status, done, entry :
          /\ o = tx.order /\ m = tx.market /\ status = FinalStatus(o)
          /\ done = [o EXCEPT !.status = status]
          /\ entry = [market |-> o.market, side |-> o.side, price |-> o.price,
                      orderId |-> tx.id]
    OBVIOUS
  <1>2. tx.running /\ ~ tx'.running
    BY DEF FinishOrder, Idle
  <1>3. o \in Order /\ m \in Market
    BY <1>1, <1>2, TxType
  <1>4. /\ done.status = status /\ done.market = o.market /\ done.side = o.side
        /\ done.price = o.price /\ done.remaining = o.remaining
        /\ done.creator = o.creator
    BY <1>1, <1>3 DEF Order
  <1>5. /\ orders' = Put(orders, tx.id, done)
        /\ orderbook' = IF done.status = "PARTIAL"
                        THEN orderbook \cup {[market |-> done.market, side |-> done.side,
                                              price |-> done.price, orderId |-> tx.id]}
                        ELSE orderbook
        /\ IF done.status = "CANCELLED_PARTIAL" THEN HandleRefund(done) ELSE bank' = bank
        /\ markets' = markets
    BY <1>1 DEF FinishOrder
  <1>6. orderbook' = IF status = "PARTIAL" THEN orderbook \cup {entry} ELSE orderbook
    BY <1>1, <1>4, <1>5
  <1>7. tx.id \notin DOMAIN orders
    BY <1>2 DEF ListInv
  <1>8. /\ orders'[tx.id] = done
        /\ \A id \in DOMAIN orders : orders'[id] = orders[id]
    BY <1>5, <1>7 DEF Put
  <1>9. /\ o.market \in DOMAIN markets /\ m = markets[o.market]
        /\ o.side = "BUY" => o.orderType = "LIMIT"
    BY <1>1, <1>2 DEF EscrowInv, MarketsFit
  <1>10. entry.market = o.market /\ entry.orderId = tx.id
    BY <1>1
  <1>11. MarketsFit'
    BY <1>2, <1>5, <1>6, <1>9, <1>10 DEF EscrowInv, MarketsFit
  <1>12. IsFiniteSet(orderbook) /\ IsFiniteSet(orderbook')
    BY <1>6, FS_AddElement DEF EscrowInv
  <1>13. ASSUME NEW d \in Denoms PROVE bank'[ModuleAccount][d] >= Held(d)'
    <2>1. PICK D, D1, due, has :
            /\ D = Dues(orderbook, orders, markets, d)
            /\ D1 = Dues(orderbook', orders', markets', d)
            /\ due = DueOf(o, m, d)
            /\ has = bank[ModuleAccount][d]
      OBVIOUS
    <2>2. D \in [orderbook -> Nat] /\ D1 \in [orderbook' -> Nat]
      BY <2>1, DuesType DEF ListInv, TypeOK
    <2>3. Total(D, orderbook) \in Nat /\ due \in Nat /\ has \in Nat
      <3>1. Total(D, orderbook) \in Nat
        BY <1>12, <2>2, TotalType
      <3>2. due \in Nat
        BY <1>3, <2>1, DueType
      <3>3. QED
        BY <2>1, <3>1, <3>2 DEF TypeOK, Ledger, Accounts
    <2>4. has >= Total(D, orderbook) + due
      BY <1>1, <1>2, <2>1 DEF EscrowInv, Held
    <2>5. Total(D1, orderbook) = Total(D, orderbook)
      <3>1. ASSUME NEW f \in orderbook PROVE D1[f] = D[f]
        <4>1. f.orderId \in DOMAIN orders /\ f \in orderbook'
          BY <1>6 DEF ListInv, BookLists
        <4>2. orders'[f.orderId] = orders[f.orderId]
          BY <1>8, <4>1
        <4>3. QED
          BY <1>5, <2>1, <4>1, <4>2 DEF Dues
      <3>2. QED
        BY <3>1, TotalSame
    <2>6. Total(D1, orderbook') \in Nat
      BY <1>12, <2>2, TotalType
    <2>7. Held(d)' = Total(D1, orderbook') + 0
      BY <1>2, <2>1 DEF Held
    <2>8. CASE status = "PARTIAL"
      <3>1. orderbook' = orderbook \cup {entry} /\ entry \notin orderbook
        BY <1>6, <1>7, <1>10, <2>8 DEF ListInv, BookLists
      <3>2. orderbook' \ {entry} = orderbook /\ entry \in orderbook'
        BY <3>1
      <3>3. Total(D1, orderbook') = D1[entry] + Total(D1, orderbook)
        BY <1>12, <2>2, <3>2, TotalSplit
      <3>4. D1[entry] = due
        <4>1. D1[entry] = DueOf(done, m, d)
          BY <1>5, <1>8, <1>9, <1>10, <2>1, <3>2 DEF Dues
        <4>2. QED
          BY <1>4, <2>1, <4>1 DEF DueOf
      <3>5. bank' = bank
        BY <1>4, <1>5, <2>8
      <3>6. QED
        BY <2>1, <2>3, <2>4, <2>5, <2>6, <2>7, <3>3, <3>4, <3>5
    <2>9. CASE status # "PARTIAL"
      <3>1. Total(D1, orderbook') = Total(D, orderbook)
        BY <1>6, <2>5, <2>9
      <3>2. bank'[ModuleAccount][d] >= has - due
        <4>1. CASE bank' = bank
          BY <2>1, <2>3, <4>1
        <4>2. CASE bank' # bank
          <5>1. /\ o.side = "SELL"
                /\ CanSend(bank, ModuleAccount, m.base, o.remaining)
                /\ bank' = Send(bank, ModuleAccount, o.creator, m.base, o.remaining)
            BY <1>1, <1>4, <1>5, <4>2 DEF HandleRefund
          <5>2. /\ ModuleAccount \in Accounts /\ o.creator \in Accounts
                /\ ModuleAccount # o.creator /\ bank \in [Accounts -> [Denoms -> Nat]]
                /\ m.base \in Denoms /\ o.remaining \in Nat
            BY <1>3, DexAssumption DEF Accounts, Order, Market, TypeOK, Ledger
          <5>3. bank'[ModuleAccount][d]
                  = IF d = m.base THEN has - o.remaining ELSE has
            BY <2>1, <5>1, <5>2, SendMoves
          <5>4. due = IF m.base = d THEN o.remaining ELSE 0
            BY <2>1, <5>1, <5>2 DEF DueOf, Share
          <5>5. QED
            BY <2>3, <5>2, <5>3, <5>4
        <4>3. QED
          BY <4>1, <4>2
      <3>3. bank'[ModuleAccount][d] \in Nat
        BY DEF TypeOK, Ledger, Accounts
      <3>4. QED
        BY <2>3, <2>4, <2>7, <3>1, <3>2, <3>3
    <2>10. QED
      BY <2>8, <2>9
  <1>14. QED
    BY <1>11, <1>12, <1>13 DEF EscrowInv

\* Registering a pair again changes neither of its denominations.
LEMMA RegisterEscrow ==
    ASSUME TypeOK, ListInv, EscrowInv, NEW base, NEW quote, RegisterPairs(base, quote)
    PROVE  EscrowInv'
  <1>1. /\ UNCHANGED <<bank, orders, orderbook, tx>> /\ ~ tx.running
        /\ markets' = Put(markets, <<base, quote>>,
                          [creator |-> Nobody, base |-> base, quote |-> quote])
    BY DEF RegisterPairs
  <1>2. \A k \in DOMAIN markets' : k = <<markets'[k].base, markets'[k].quote>>
    BY <1>1 DEF Put, EscrowInv, MarketsFit
  <1>3. \A k \in DOMAIN markets :
          /\ k \in DOMAIN markets'
          /\ markets'[k].base = markets[k].base /\ markets'[k].quote = markets[k].quote
    BY <1>1, <1>2 DEF Put, EscrowInv, MarketsFit
  <1>4. MarketsFit'
    BY <1>1, <1>2, <1>3 DEF EscrowInv, MarketsFit
  <1>5. ASSUME NEW d \in Denoms PROVE Held(d)' = Held(d)
    <2>1. \A e \in orderbook :
            DueOf(orders[e.orderId], markets'[e.market], d)
              = DueOf(orders[e.orderId], markets[e.market], d)
      BY <1>3 DEF DueOf, Share, EscrowInv, MarketsFit
    <2>2. \A e \in orderbook :
            Dues(orderbook, orders, markets', d)[e] = Dues(orderbook, orders, markets, d)[e]
      BY <2>1 DEF Dues
    <2>3. Total(Dues(orderbook, orders, markets', d), orderbook)
            = Total(Dues(orderbook, orders, markets, d), orderbook)
      BY <2>2, TotalSame
    <2>4. QED
      BY <1>1, <2>3 DEF Held
  <1>6. QED
    BY <1>1, <1>4, <1>5 DEF EscrowInv

\* A purge takes no order that the book lists.
LEMMA PurgeEscrow ==
    ASSUME ListInv, EscrowInv, NEW limit, BatchCleanFilledOrders(limit),
           UNCHANGED <<bank, markets, orderbook, tx>>
    PROVE  EscrowInv'
  <1>1. \A id \in DOMAIN orders : orders[id].status # "FILLED" => orders'[id] = orders[id]
    BY DEF BatchCleanFilledOrders, Purged, Filled
  <1>2. \A e \in orderbook : orders'[e.orderId] = orders[e.orderId]
    BY <1>1 DEF ListInv, BookLists
  <1>3. ASSUME NEW d \in Denoms PROVE Held(d)' = Held(d)
    <2>1. Dues(orderbook, orders', markets, d) = Dues(orderbook, orders, markets, d)
      BY <1>2 DEF Dues
    <2>2. QED
      BY <2>1 DEF Held
  <1>4. QED
    BY <1>3 DEF EscrowInv, MarketsFit

LEMMA EscrowNext ==
    TypeOK /\ TypeOK' /\ BookInv /\ ListInv /\ ListInv' /\ Trading /\ LimitBuys /\ EscrowInv
      /\ [Next]_vars => EscrowInv'
  <1> SUFFICES ASSUME TypeOK, TypeOK', BookInv, ListInv, ListInv', Trading, LimitBuys,
                      EscrowInv, [Next]_vars
               PROVE  EscrowInv'
    OBVIOUS
  <1>1. ASSUME NEW u \in Users, NEW m \in MarketIds, NEW p \in BuyPrices,
               NEW q \in Quantities, PlaceOrder(u, m, "BUY", p, q)
        PROVE  EscrowInv'
    <2>1. p \in Nat /\ p # 0 /\ q \in Nat
      BY DexAssumption DEF LimitBuys
    <2>2. QED
      BY <1>1, <2>1, PlaceOrderEscrow DEF Sides
  <1>2. ASSUME NEW u \in Users, NEW m \in MarketIds, NEW p \in SellPrices,
               NEW q \in Quantities, PlaceOrder(u, m, "SELL", p, q)
        PROVE  EscrowInv'
    <2>1. p \in Nat /\ q \in Nat
      BY DexAssumption
    <2>2. QED
      BY <1>2, <2>1, PlaceOrderEscrow DEF Sides
  <1>3. ASSUME NEW e \in orderbook, Trade(e) PROVE EscrowInv'
    BY <1>3, TradeEscrow
  <1>4. ASSUME NEW e \in orderbook, Abort(e) PROVE FALSE
    BY <1>4, CandidatesTrade DEF Abort, IsNext, MatchingNeverFails
  <1>5. CASE FinishOrder
    BY <1>5, FinishEscrow
  <1>6. CASE MarketMsg
    <2>1. PICK pair \in Pairs : RegisterPairs(pair[1], pair[2])
      BY <1>6 DEF MarketMsg, Trading
    <2>2. QED
      BY <2>1, RegisterEscrow
  <1>7. CASE OrderMsg
    <2>1. PICK limit \in CleanLimits : CleanOrders(limit)
      BY <1>7 DEF OrderMsg, Trading
    <2>2. QED
      BY <2>1, PurgeEscrow DEF CleanOrders
  <1>8. CASE EndBlock
    BY <1>8, PurgeEscrow DEF EndBlock
  <1>9. CASE UNCHANGED vars
    BY <1>9 DEF vars, EscrowInv, MarketsFit, Held
  <1>10. QED
    BY <1>1, <1>2, <1>3, <1>4, <1>5, <1>6, <1>7, <1>8, <1>9 DEF Next, MatchStep

LEMMA EscrowHolds == Trading /\ LimitBuys => (Spec => []EscrowInv)
  <1> SUFFICES ASSUME Trading, LimitBuys PROVE Spec => []EscrowInv
    OBVIOUS
  <1>1. TypeOK /\ TypeOK' /\ BookInv /\ ListInv /\ ListInv' /\ EscrowInv /\ [Next]_vars
          => EscrowInv'
    BY EscrowNext
  <1>2. Spec => []ListInv
    BY ListHolds
  <1>3. QED
    BY <1>1, <1>2, InitEscrow, TypeCorrect, BookHolds, PTL DEF Spec

\* Between transactions the module account holds what the resting orders have to
\* deliver.
THEOREM EscrowCovered == Trading /\ LimitBuys => (Spec => []EscrowCoversBook)
  <1> SUFFICES ASSUME Trading, LimitBuys PROVE Spec => []EscrowCoversBook
    OBVIOUS
  <1>1. Spec => []ListInv
    BY ListHolds
  <1>2. Spec => []EscrowInv
    BY EscrowHolds
  <1>3. QED
    BY <1>1, <1>2, EscrowCovers, TypeCorrect, PTL

\* An order that was accepted is never thrown back: no payment of the matching loop
\* fails and no maker's order is missing.
THEOREM OrdersAreMatched == Trading /\ LimitBuys => (Spec => []MatchingNeverFails)
  <1> SUFFICES ASSUME Trading, LimitBuys PROVE Spec => []MatchingNeverFails
    OBVIOUS
  <1>1. TypeOK /\ BookInv /\ ListInv /\ EscrowInv => MatchingNeverFails
    BY CandidatesTrade
  <1>2. Spec => []ListInv
    BY ListHolds
  <1>3. Spec => []EscrowInv
    BY EscrowHolds
  <1>4. QED
    BY <1>1, <1>2, <1>3, TypeCorrect, BookHolds, PTL
=============================================================================
