---------------------------- MODULE MCMoneyShop -----------------------------
(***************************************************************************)
(* Instances of MoneyShop for TLC.  All bounds are constants of MoneyState *)
(* and are given in the configurations, but for one.                       *)
(***************************************************************************)
EXTENDS MoneyShop, TLC

\* An order whose goroutine has ended and whose failure was written in part.
HalfFailed(d) == /\ worker[d] = IdleWorker
                 /\ \/ (dedicated[d].state = "review") # (code[d].status = "review")
                    \/ dedicated[d].state \in {"opening", "funding"}

\* Bound: such a failure takes the place of an event, until a restart mends it.
FewFaults == (\E d \in Orders : HalfFailed(d)) => events = 0
=============================================================================
