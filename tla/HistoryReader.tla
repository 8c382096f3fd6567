---------------------------- MODULE HistoryReader ----------------------------
(***************************************************************************)
(* What a history sync promises: a reader of somebody else's history       *)
(* delivers its items to the ledger for good and keeps a mark.  A mark     *)
(* promises items, and one is set only when all that it promises has been  *)
(* delivered.  It may be set back, which promises less.                    *)
(***************************************************************************)
CONSTANTS
    Items,        \* what can be delivered
    Promises(_)   \* the items a mark promises

VARIABLES delivered, mark

Init ==
    /\ delivered = {}
    /\ Promises(mark) = {}

Deliver ==
    /\ delivered \subseteq delivered'
    /\ delivered' \subseteq Items
    /\ Promises(mark') \subseteq delivered'

Spec == Init /\ [][Deliver]_<<delivered, mark>>
=============================================================================
