------------------------------- MODULE MCDex --------------------------------
(***************************************************************************)
(* Small instances of Dex.                                                 *)
(***************************************************************************)
EXTENDS Dex

CONSTANTS Base, Quote, OtherMarket

\* The market "base-quote", and that market with one of another id.
Pair == <<Base, Quote>>
OneMarket == {Pair}
TwoMarkets == {Pair, OtherMarket}

OneForm == {<<Base, Quote>>}
SwappedForm == {<<Quote, Base>>}

\* The key order of order ids: by market, then by the text of the height.
MCKeyRank ==
    [id \in OrderIds |-> (IF id[1] = Pair THEN 0 ELSE MaxHeight + 1) + id[2]]

NoForms == {}

\* Orders rewritten by their owner: a SELL whose price moved, one that is void.
Rewrites ==
    {[market |-> Pair, orderType |-> "LIMIT", side |-> "SELL", price |-> 1,
      quantity |-> 1, remaining |-> 1, status |-> "PARTIAL"],
     [market |-> Pair, orderType |-> "LIMIT", side |-> "SELL", price |-> 2,
      quantity |-> 1, remaining |-> 0, status |-> "FILLED"]}
=============================================================================
