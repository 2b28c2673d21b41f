------------------------------ MODULE MoneyShop ------------------------------
(***************************************************************************)
(* The automatic money operations of the shop: the treasurer's cycle and   *)
(* the dedicated orders, on one set of tables and one platform account,    *)
(* with the operator, the administrator and restarts.                      *)
(***************************************************************************)
EXTENDS Treasurer, DedicatedCards

\* The shop at the start: no operation on record; a card may have paid a pro_5x
\* order before, and may be prepared for the next one already.
Init ==
  /\ money = [o \in Ops |-> NoMoney]
  /\ evidence = [o \in Ops |-> 0]
  /\ policy \in [version : {1}, paused : {FALSE}, budget : Budgets]
  /\ pool = Stock
  /\ used \in {<<>>} \cup {<<c>> : c \in Stock}
  /\ reserve \in {EmptyReserve} \cup
                 {[card |-> used[i], op |-> NoOp, state |-> "ready"] : i \in DOMAIN used}
  /\ code = [d \in Orders |-> [status |-> "unused", card |-> NoCard, requested |-> FALSE]]
  /\ dedicated = [d \in Orders |-> NoDedicated]
  /\ moneyAfter = 0 /\ clock = 1
  /\ charge = [o \in Ops |-> "unsent"] /\ made = [o \in Ops |-> NoCard]
  /\ balance = [c \in Cards |-> IF Prepared(c) THEN Pro5xInitial ELSE 0]
  /\ ledger = {} /\ paid = [d \in Orders |-> "none"]
  /\ treasurer = IdleTreasurer(0)
  /\ worker = [d \in Orders |-> IdleWorker]
  /\ events = 0

Next ==
  \/ TreasurerStep \/ DedicatedStep
  \/ \E o \in Ops, c \in Cards : LateCharge(o, c)
  \/ \E c \in Cards : OrdinaryPayment(c) \/ \E a \in ManualAmounts : ManualTopup(c, a)
  \/ \E d \in Orders, outcome \in {"completed", "failed"} : SettlePro(d, outcome)
  \/ \E paused \in BOOLEAN, b \in Budgets : SavePolicy(paused, b)
  \/ Restart \/ Tick

Spec == Init /\ [][Next]_vars

------------------------------------------------------------------------------
(* Every operation recorded, by whichever of the four flows, keeps what was
   reserved in the last day within the budget in force at that moment: the
   conditions of the INSERT statements in automation_money.go, pro5x_reserve.go
   and pro_dedicated.go agree although each flow has read the policy earlier.  *)
SpendsWithinBudget ==
  [][(\E o \in Ops : ~Recorded(o) /\ Recorded(o)')
       => ReservedSince(clock - Day)' <= policy.budget]_vars

(* At most one opening of the flows that share the lock (ordinary and pro_20x)
   is unresolved at any time, also after errors and restarts.                  *)
OneOpening == Cardinality(InState(Unresolved) \cap OfAction({"open", "pro_open"})) <= 1

(* The treasurer never has two operations unresolved, although its INSERT looks
   at the openings only: a cycle that began with one ends without spending.    *)
OneOperationAtATime ==
  Cardinality(InState(Unresolved) \cap OfAction(Actions \ {"pro_open"})) <= 1

(* An operation is written off as not charged only if the platform will never
   charge it, however late it executes what it accepted.                       *)
NoChargeIsTrue ==
  /\ \A o \in InState({"no_charge_verified"}) : charge[o] # "done"
  /\ \A o \in InState({"cancelled"}) : charge[o] = "unsent"

(* An unresolved operation for the prepared card is the one its row names, and
   the row is not offered to an order: no second card is prepared beside it,
   whatever became of the answer.                                              *)
PreparationIsTracked ==
  \A o \in InState(Unresolved) \cap OfAction({"pro5x_reserve_open", "pro5x_reserve_topup"}) :
    reserve.op = o /\ reserve.state \in {"opening", "funding", "review"}

(* A recharge that is recorded never goes to a card that an unfinished dedicated
   order holds or that is prepared for one, although it was chosen earlier.    *)
TopupSparesDedicated ==
  [][\A o \in Ops : ~Recorded(o) /\ Recorded(o)' /\ money'[o].action = "topup"
       => ~Prepared(money'[o].card) /\ ~HeldByOrder(money'[o].card)]_vars
=============================================================================
