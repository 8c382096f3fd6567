------------------------------ MODULE MCEvmSync ------------------------------
(* Instances of EvmSync for TLC. *)
EXTENDS EvmSync, TLC

CONSTANTS r1, r2,              \* syncs
          pay, idle, buy, sell, \* transactions
          usdc, dai            \* tokens

OneRun  == {r1}
TwoRuns == {r1, r2}
RunSymmetry == Permutations(Runs)

OneToken  == {usdc}
TwoTokens == {usdc, dai}

Moves(block, direct, pays, sent, received) ==
    [block |-> block, direct |-> direct, pays |-> pays, sent |-> sent, received |-> received]

\* A payment, a call by somebody else that moves nothing, a token received
\* through a third party, and one sent or swapped for another.
History ==
    (pay  :> Moves(1, TRUE,  TRUE,  {}, {})) @@
    (idle :> Moves(1, TRUE,  FALSE, {}, {})) @@
    (buy  :> Moves(1, FALSE, FALSE, {}, {usdc})) @@
    (sell :> Moves(2, TRUE,  TRUE,  {usdc}, Contracts \ {usdc}))

AllTxs   == {pay, idle, buy, sell}
SomeTxs  == {pay, buy, sell}
TokenTxs == {buy, sell}
FirstTx  == {pay}
SomeHistory == [t \in Txs |-> History[t]]

Sync(from, to, contracts, hashes) ==
    [from_block |-> from, to_block |-> to, token_contracts |-> contracts,
     transaction_hashes |-> hashes]

Default  == Sync(NoBlock, NoBlock, {}, {})
Backfill == Sync(0, 2, {}, {})
Ranges   == {Default, Backfill}
ByHash   == Sync(NoBlock, NoBlock, {}, {buy})
Hashes   == {Default, ByHash}
=============================================================================
