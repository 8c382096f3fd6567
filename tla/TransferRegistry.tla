--------------------------- MODULE TransferRegistry ---------------------------
(***************************************************************************)
(* What transfer matching promises to the rest of the system: a register   *)
(* of links between ledger events in which no event is linked twice.  The  *)
(* automatic run links several free pairs at a time, a user links one pair *)
(* or confirms it, and only a user dissolves a link.  Cost basis and       *)
(* dashboard read transfers through this register alone.                   *)
(***************************************************************************)
CONSTANTS Pairs,      \* the pairs of ledger events that may be linked
          Legs(_)     \* the two events of a pair

VARIABLE link         \* how each pair is linked: "none", "AUTO_MATCHED" or "CONFIRMED"

LinkStatus == {"none", "AUTO_MATCHED", "CONFIRMED"}

Linked(l) == {p \in Pairs : l[p] # "none"}

Disjoint(S) == \A p, q \in S : Legs(p) \cap Legs(q) # {} => p = q

Init == link = [p \in Pairs |-> "none"]

\* A run links a set of pairs none of whose events is linked.
AutoMatch(S) ==
    /\ S \cap Linked(link) = {}
    /\ link' = [p \in Pairs |-> IF p \in S THEN "AUTO_MATCHED" ELSE link[p]]
    /\ Disjoint(Linked(link'))

\* A user links a pair or confirms the link it has.
Confirm(p) ==
    /\ link' = [link EXCEPT ![p] = "CONFIRMED"]
    /\ Disjoint(Linked(link'))

Unmatch(p) == link' = [link EXCEPT ![p] = "none"]

Next == \/ \E S \in SUBSET Pairs : AutoMatch(S)
        \/ \E p \in Pairs : Confirm(p) \/ Unmatch(p)

Spec == Init /\ [][Next]_link
=============================================================================
