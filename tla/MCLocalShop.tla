----------------------------- MODULE MCLocalShop -----------------------------
(***************************************************************************)
(* Small instances of LocalShop for TLC.                                   *)
(***************************************************************************)
EXTENDS LocalShop, TLC

CONSTANTS c1, c2, c3, k1, k2, h1, h2, p1, p2, ann, bob

\* One go code among plus codes; the first code of another account than the rest.
PlusAndGo == [c \in Codes |-> IF c = c2 THEN "go" ELSE "plus"]
AllPlus == [c \in Codes |-> "plus"]
TwoAccounts == [c \in Codes |-> IF c = c1 THEN ann ELSE bob]

AllOpen == {[enabled |-> TRUE, pool |-> Cards]}
OpenOrClosed == AllOpen \cup {[enabled |-> FALSE, pool |-> {k1}]}

Interchangeable == Permutations(Handlers) \cup Permutations(Pollers)
\* With AllPlus and TwoAccounts the codes of the second account are alike.
AlikeCodes == Permutations(Codes \ {c1})
=============================================================================
