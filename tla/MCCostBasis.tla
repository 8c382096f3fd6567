----------------------------- MODULE MCCostBasis -----------------------------
(* Small instances of CostBasis: an exchange account, a wallet, one coin that *)
(* needs a price and one stablecoin at par.                                   *)
EXTENDS CostBasis

MCAccounts == {"exchange", "wallet"}
MCAssets   == {"btc", "usdt"}
MCPar      == {"usdt"}

None == [account |-> "none", asset |-> "none", quantity |-> 0, price |-> Unknown]
Entry(account, asset, quantity, price) ==
    [account |-> account, asset |-> asset, quantity |-> quantity, price |-> price]
Btc(account, quantity)  == Entry(account, "btc", quantity, Unknown)
Usdt(account, quantity) == Entry(account, "usdt", quantity, Unknown)

Event(kind, out, in, fee) ==
    [kind |-> kind, out |-> out, in |-> in, fee |-> fee,
     override |-> Unknown, delay |-> 0, embedded |-> FALSE]

Fund   == Event("inflow", None, Usdt("exchange", 96), None)
BuyFee == Event("buy", Usdt("exchange", 48), Btc("exchange", 16), Btc("exchange", 4))
BuyCap == Event("buy", Usdt("exchange", 24), Btc("exchange", 12), Usdt("exchange", 24))
Sell   == Event("disposal", Btc("exchange", 12), Usdt("exchange", 60), Usdt("exchange", 12))
SellW  == Event("disposal", Btc("wallet", 6), Usdt("wallet", 60), None)
Gift   == Event("inflow", None, Btc("exchange", 12), None)
Own    == [Gift EXCEPT !.override = 36]
Out    == Event("outflow", Btc("exchange", 12), None, Btc("exchange", 3))

\* The two conventions of a withdrawal's fee, and a transfer that takes a while.
Move    == Event("transfer", Btc("exchange", 12), Btc("wallet", 12), None)
MoveFee == [Move EXCEPT !.fee = Btc("exchange", 4)]
MoveNet == [MoveFee EXCEPT !.in = Btc("wallet", 8), !.embedded = TRUE]
Slow    == [Move EXCEPT !.delay = 2]
Inline  == [MoveFee EXCEPT !.kind = "inline"]

Others == {Event("fee", None, None, Usdt("exchange", 24)),
           Event("income", None, Usdt("exchange", 12), None),
           Event("income", Usdt("exchange", 12), None, None),
           Event("airdrop", None, Btc("wallet", 12), None),
           Event("repay", Usdt("exchange", 24), None, None),
           Event("borrow", None, Usdt("exchange", 24), None),
           Event("adjust", Btc("wallet", 6), None, None),
           Event("derivative", None, Usdt("exchange", 24), Usdt("exchange", 2))}

MCLedger == {Fund, BuyFee, BuyCap, Sell, SellW, Gift, Own, Out,
             MoveFee, MoveNet, Slow, Inline} \cup Others

ASSUME MCLedgerIsBalanced == LedgerIsBalanced

\* Withdrawals of what was deposited.
WithdrawLedger == {Own, Out}

Run(method, ids) == [method |-> method, ids |-> ids]
MCRuns == {Run("AVERAGE_COST", "ascending"), Run("AVERAGE_COST", "descending"),
           Run("FIFO", "ascending"), Run("LIFO", "ascending")}
FifoRun == {Run("FIFO", "ascending")}

NoSnapshot == <<>>
NoBalances == {NoSnapshot}
MCBalances == {NoSnapshot, [exchange |-> [btc |-> 6], wallet |-> [btc |-> 24]]}
=============================================================================
