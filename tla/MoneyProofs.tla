----------------------------- MODULE MoneyProofs -----------------------------
(***************************************************************************)
(* Theorems of MoneyShop: types, one opening and one operation of the      *)
(* treasurer at a time, the prepared card's operation is on record, and    *)
(* what is written off is never charged.                                   *)
(***************************************************************************)
EXTENDS MoneyShop, SequenceTheorems, FiniteSetTheorems, TLAPS

\* What the treasurer records; the other two actions are of the orders.
Treasury == Actions \ {"pro_open", "pro5x_pay_fee"}
Outstanding(o) == money[o].action \in Treasury /\ money[o].state \in Unresolved
OpeningCard(o) == money[o].action \in {"open", "pro_open"} /\ money[o].state \in Unresolved

\* The books: an operation has an action, a recharge its card, an opening none yet;
\* a fee is paid at once; one opening and one operation of the treasurer is unresolved.
NamedWhenRecorded == \A o \in Ops : (money[o].action = "none") = (money[o].state = "none")
TopupHasCard == \A o \in Ops : money[o].action \in Topups => money[o].card \in Cards
OpeningHasNoCard == \A o \in Ops : money[o].action = "pro_open" => money[o].card = NoCard
FeesArePaid == \A o \in Ops :
  money[o].action = "pro5x_pay_fee" => money[o].state = "balance_verified"
OneOutstanding == \A o, p \in Ops : Outstanding(o) /\ Outstanding(p) => o = p
OneCardOpening == \A o, p \in Ops : OpeningCard(o) /\ OpeningCard(p) => o = p
BooksOK == /\ NamedWhenRecorded /\ TopupHasCard /\ OpeningHasNoCard /\ FeesArePaid
           /\ OneOutstanding /\ OneCardOpening

\* The treasurer: from the decision to the record it has an operation to speak of,
\* which nobody else resolves, and it decides only while nothing is outstanding.
TreasurerHasOp == treasurer.pc \in {"call", "record", "mark"} =>
  treasurer.op \in Ops /\ money[treasurer.op].action \in Treasury
CallIsCurrent == treasurer.pc \in {"call", "record"} => money[treasurer.op].state = "inflight"
CallIsDated == treasurer.pc = "call" => money[treasurer.op].at = treasurer.at
PlanIsWhole == treasurer.pc = "insert" =>
  /\ treasurer.plan.action \in {"topup", "open"}
  /\ treasurer.plan.action = "topup" => treasurer.plan.card \in Cards
Deciding == \/ treasurer.pc \in {"reserve", "fund", "insert"}
            \/ treasurer.pc \in {"scan", "verify"} /\ ~treasurer.unsettled
QuietWhenDeciding == Deciding => \A o \in Ops : ~Outstanding(o)
WithinLease == treasurer.pc # "idle" => treasurer.at <= clock /\ clock <= treasurer.at + Lease
CycleOK == /\ TreasurerHasOp /\ CallIsCurrent /\ CallIsDated /\ PlanIsWhole
           /\ QuietWhenDeciding /\ WithinLease

\* The orders: each keeps the operation it was taken with, its own, and its goroutine
\* has not spent before the opening and has not resolved it before the balance is seen.
OrdersHaveOps == \A d \in Orders : dedicated[d].op \in Ops =>
  money[dedicated[d].op].action = IF d \in Pro20 THEN "pro_open" ELSE "pro5x_pay_fee"
OrdersApart == \A d, e \in Orders :
  dedicated[d].op \in Ops /\ dedicated[d].op = dedicated[e].op => d = e
WorkersHaveOps == \A d \in Orders : worker[d].pc # "idle" =>
  /\ dedicated[d].op \in Ops
  /\ worker[d].pc \in {"open", "bind", "poll"} => d \in Pro20
WorkerIsUnsettled == \A d \in Pro20 : worker[d].pc \in {"check", "open", "bind", "poll"} =>
  money[dedicated[d].op].state \in Unresolved
CheckIsUnsent == \A d \in Pro20 : worker[d].pc = "check" => charge[dedicated[d].op] = "unsent"
DeskOK == /\ OrdersHaveOps /\ OrdersApart /\ WorkersHaveOps /\ WorkerIsUnsettled
          /\ CheckIsUnsent

\* The charges: a recharge that was executed is in the ledger, within a day.
Entered(o) == \E e \in ledger :
  /\ e.card = money[o].card /\ e.amount = money[o].amount
  /\ money[o].at <= e.at /\ e.at <= money[o].at + Day
UnrecordedIsUnsent == \A o \in Ops : ~Recorded(o) => charge[o] = "unsent"
RecordIsPast == \A o \in Ops : Recorded(o) => money[o].at <= clock
DoneIsEntered == \A o \in Ops : money[o].action \in Topups /\ charge[o] = "done" => Entered(o)
WrittenOffLate == \A o \in Ops : money[o].state = "no_charge_verified" => money[o].at + Day <= clock
ChargesOK == /\ UnrecordedIsUnsent /\ RecordIsPast /\ DoneIsEntered /\ WrittenOffLate
             /\ NoChargeIsTrue

Books == TypeOK /\ BooksOK /\ CycleOK /\ DeskOK
IInv == Books /\ ChargesOK /\ PreparationIsTracked

------------------------------------------------------------------------------
\* Typing.

LEMMA ConstantTypes ==
  /\ Floor \in Nat /\ Step \in Nat /\ Ceiling \in Nat /\ InitAmount \in Nat
  /\ ProInitial \in Nat /\ Pro5xInitial \in Nat /\ OpenFee \in Nat /\ FeePercent \in Nat
  /\ ApiFee \in Nat /\ MaxOps \in Nat /\ Day \in Nat /\ Quarter \in Nat /\ Lease \in Nat
  /\ Settle \in Nat /\ Lease <= Day /\ MaxEvents \in Nat /\ Horizon \in Nat
  /\ \A a \in ManualAmounts : a \in Nat
  /\ NoCard \notin Cards /\ Pro20 \cap Pro5 = {} /\ Stock \subseteq Cards
  BY AmountsAreNat, BoundsAreNat, TimesOrdered, NullApart, PlansApart, StockIsCards

LEMMA OpsAreNat == NoOp \notin Ops /\ \A o \in Ops : o \in Nat /\ o \in Int
  BY ConstantTypes DEF Ops, NoOp

LEMMA CostType == ASSUME NEW amount \in Nat, NEW opening \in BOOLEAN PROVE Cost(amount, opening) \in Nat
<1>1. amount * FeePercent \in Nat
  BY ConstantTypes
<1>2. \A n \in Nat : (n + 99) \div 100 \in Nat
  OBVIOUS
<1> QED
  BY <1>1, <1>2, ConstantTypes DEF Cost

LEMMA RecordType ==
  ASSUME TypeOK, NEW o \in Ops, NEW action \in Actions, NEW card \in Cards \cup {NoCard},
         NEW amount \in Nat, NEW reserved \in Nat, NEW before \in Nat, NEW at \in Nat
  PROVE  /\ Record(o, action, card, amount, reserved, before, at) \in [Ops -> Money]
         /\ [Record(o, action, card, amount, reserved, before, at) EXCEPT ![o].state = "balance_verified"]
              \in [Ops -> Money]
  BY DEF TypeOK, Record, Money, MoneyStates, Unresolved

LEMMA SetStateType == ASSUME TypeOK, NEW o, NEW state \in MoneyStates
                      PROVE  SetState(o, state) \in [Ops -> Money]
<1>1. \A m \in Money : [m EXCEPT !.state = state] \in Money
  BY DEF Money
<1> QED
  BY <1>1 DEF TypeOK, SetState

\* What a request leaves at the platform.
EntryTypes == [id : Int, card : Cards, amount : Nat, at : Nat, ok : BOOLEAN]
PlatformTypeOK == /\ charge \in [Ops -> Fates]
                  /\ made \in [Ops -> Cards \cup {NoCard}]
                  /\ balance \in [Cards -> Nat]
                  /\ ledger \subseteq EntryTypes

LEMMA EntryType ==
  ASSUME TypeOK, NEW o \in Ops, NEW c \in Cards, NEW ok \in BOOLEAN
  PROVE  [id |-> o, card |-> c, amount |-> money[o].amount, at |-> clock, ok |-> ok] \in EntryTypes
<1>1. money[o].amount \in Nat /\ o \in Int /\ clock \in Nat
  BY OpsAreNat DEF TypeOK, Money
<1> QED
  BY <1>1 DEF EntryTypes

LEMMA ExecuteType ==
  ASSUME TypeOK, NEW o \in Ops, NEW c \in Cards, Execute(o, c)
  PROVE  balance' \in [Cards -> Nat] /\ ledger' \subseteq EntryTypes
<1>1. money[o].amount \in Nat
  BY DEF TypeOK, Money
<1>2. balance \in [Cards -> Nat] /\ ledger \subseteq EntryTypes
  BY DEF TypeOK, EntryTypes
<1>3. balance' \in [Cards -> Nat]
  BY <1>1, <1>2 DEF Execute
<1>4. [id |-> o, card |-> c, amount |-> money[o].amount, at |-> clock, ok |-> TRUE] \in EntryTypes
  BY EntryType
<1>5. ledger' \subseteq EntryTypes
  BY <1>2, <1>4 DEF Execute
<1> QED
  BY <1>3, <1>5

LEMMA RequestedType ==
  ASSUME TypeOK, NEW o \in Ops, NEW accepted, NEW c \in Cards \cup {NoCard},
         money[o].action \in Openings \cup Topups,
         money[o].action \in Topups => money[o].card \in Cards, Requested(o, accepted, c)
  PROVE  PlatformTypeOK'
<1> USE DEF PlatformTypeOK, Fates
<1>1. PlatformTypeOK
  BY DEF TypeOK, EntryTypes
<1> DEFINE opening == money[o].action \in Openings
<1>0. opening \/ money[o].card \in Cards
  OBVIOUS
<1>2. CASE /\ charge' = [charge EXCEPT ![o] = "done"]
           /\ opening => made' = [made EXCEPT ![o] = c] /\ c \in Cards \ Owned
           /\ ~opening => made' = made /\ c = money[o].card
           /\ Execute(o, c)
  <2>1. c \in Cards
    BY <1>0, <1>2
  <2> QED
    BY <1>1, <1>2, <2>1, ExecuteType
<1>3. CASE /\ charge' = [charge EXCEPT ![o] = "late"]
           /\ IF opening /\ accepted
              THEN made' = [made EXCEPT ![o] = c] /\ c \in Cards \ Owned
              ELSE made' = made /\ c = money[o].card
           /\ UNCHANGED <<balance, ledger>>
  BY <1>1, <1>3, <1>0
<1>4. CASE /\ charge' = [charge EXCEPT ![o] = "never"]
           /\ c = money[o].card
           /\ ledger' \in {ledger} \cup
                (IF opening THEN {}
                 ELSE {ledger \cup {[id |-> o, card |-> c, amount |-> money[o].amount,
                                     at |-> clock, ok |-> FALSE]}})
           /\ UNCHANGED <<made, balance>>
  <2>1. opening \/ c \in Cards
    BY <1>0, <1>4
  <2>2. ledger' \subseteq EntryTypes
    <3>1. CASE opening
      BY <1>1, <1>4, <3>1
    <3>2. CASE ~opening
      <4>1. [id |-> o, card |-> c, amount |-> money[o].amount, at |-> clock, ok |-> FALSE] \in EntryTypes
        BY <2>1, <3>2, EntryType
      <4> QED
        BY <1>1, <1>4, <3>2, <4>1
    <3> QED
      BY <3>1, <3>2
  <2> QED
    BY <1>1, <1>4, <2>2
<1> QED
  BY <1>2, <1>3, <1>4 DEF Requested

LEMMA UsedType == ASSUME TypeOK, NEW c \in Cards PROVE MovedToFront(c) \in Seq(Cards)
<1>1. used \in Seq(Cards) /\ <<c>> \in Seq(Cards)
  BY DEF TypeOK
<1>2. ASSUME \E i \in DOMAIN used : used[i] = c PROVE Without(c) \in Seq(Cards)
  <2> DEFINE i == CHOOSE i \in DOMAIN used : used[i] = c
  <2>1. i \in DOMAIN used
    BY <1>2
  <2> HIDE DEF i
  <2>2. i \in 1..Len(used) /\ Len(used) \in Nat
    BY <1>1, <2>1
  <2>3. SubSeq(used, 1, i - 1) \in Seq(Cards) /\ SubSeq(used, i + 1, Len(used)) \in Seq(Cards)
    BY <1>1, <2>2
  <2> QED
    BY <2>3 DEF Without, i
<1> QED
  BY <1>1, <1>2 DEF MovedToFront

LEMMA IdleType == \A t \in Nat : IdleTreasurer(t) \in Treasurer
  BY DEF IdleTreasurer, Treasurer, NoView, NoPlan, Plan

LEMMA TypeInit == Init => TypeOK
<1> SUFFICES ASSUME Init PROVE TypeOK
  OBVIOUS
<1>1. money \in [Ops -> Money] /\ evidence \in [Ops -> Int]
  BY DEF Init, NoMoney, Money
<1>2. policy \in [version : Nat, paused : BOOLEAN, budget : Budgets]
  <2>1. policy = [version |-> 1, paused |-> FALSE, budget |-> policy.budget]
        /\ policy.budget \in Budgets
    BY DEF Init
  <2> DEFINE b == policy.budget
  <2>2. b \in Budgets /\ policy = [version |-> 1, paused |-> FALSE, budget |-> b]
    BY <2>1
  <2> HIDE DEF b
  <2> QED
    BY <2>2
<1>3. used \in Seq(Cards)
  <2>1. \A c \in Stock : <<c>> \in Seq(Cards)
    BY ConstantTypes
  <2>2. used = <<>> \/ \E c \in Stock : used = <<c>>
    BY DEF Init
  <2>3. <<>> \in Seq(Cards)
    OBVIOUS
  <2> QED
    BY <2>1, <2>2, <2>3
<1>4. reserve \in Reserve
  <2>1. \A i \in DOMAIN used : [card |-> used[i], op |-> NoOp, state |-> "ready"] \in Reserve
    BY <1>3 DEF Reserve
  <2>2. EmptyReserve \in Reserve
    BY DEF EmptyReserve, Reserve
  <2> QED
    BY <2>1, <2>2 DEF Init
<1>5. code \in [Orders -> Code] /\ dedicated \in [Orders -> Dedicated]
  BY DEF Init, Code, NoDedicated, Dedicated
<1>6. worker \in [Orders -> Worker]
  BY DEF Init, IdleWorker, Worker
<1>7. balance \in [Cards -> Nat]
  BY ConstantTypes DEF Init
<1>8. treasurer \in Treasurer
  BY IdleType DEF Init
<1>9. /\ charge \in [Ops -> Fates] /\ made \in [Ops -> Cards \cup {NoCard}]
      /\ paid \in [Orders -> {"none", "open", "completed", "failed"}]
      /\ pool \subseteq Cards /\ ledger = {}
      /\ moneyAfter \in Nat /\ clock \in Nat /\ events \in Nat
  BY ConstantTypes DEF Init, Fates
<1> QED
  BY <1>1, <1>2, <1>3, <1>4, <1>5, <1>6, <1>7, <1>8, <1>9 DEF TypeOK

\* The platform and the administrator.

LEMMA OutsideType ==
  ASSUME Books, \/ \E o \in Ops, c \in Cards : LateCharge(o, c)
                \/ \E c \in Cards : OrdinaryPayment(c) \/ \E a \in ManualAmounts : ManualTopup(c, a)
                \/ \E d \in Orders, outcome \in {"completed", "failed"} : SettlePro(d, outcome)
                \/ \E paused \in BOOLEAN, b \in Budgets : SavePolicy(paused, b)
                \/ Tick
  PROVE  TypeOK'
<1> USE DEF bookVars, orderVars, procVars, boundVars, upVars
<1>1. ASSUME NEW o \in Ops, NEW c \in Cards, LateCharge(o, c) PROVE TypeOK'
  <2>1. balance' \in [Cards -> Nat] /\ ledger' \subseteq EntryTypes
    BY <1>1, ExecuteType DEF LateCharge, Books
  <2>2. charge' \in [Ops -> Fates] /\ made' \in [Ops -> Cards \cup {NoCard}]
    BY <1>1 DEF LateCharge, Books, TypeOK, Fates
  <2> QED
    BY <1>1, <2>1, <2>2 DEF LateCharge, Books, TypeOK, EntryTypes
<1>2. ASSUME NEW c \in Cards, OrdinaryPayment(c) PROVE TypeOK'
  BY <1>2, ConstantTypes DEF OrdinaryPayment, Books, TypeOK
<1>3. ASSUME NEW c \in Cards, NEW a \in ManualAmounts, ManualTopup(c, a) PROVE TypeOK'
  <2>1. a \in Nat /\ events' \in Nat /\ -events' \in Int
    BY <1>3, ConstantTypes DEF ManualTopup, Books, TypeOK
  <2>2. [id |-> -events', card |-> c, amount |-> a, at |-> clock, ok |-> TRUE] \in EntryTypes
    BY <2>1 DEF Books, TypeOK, EntryTypes
  <2>3. balance' \in [Cards -> Nat]
    BY <1>3, <2>1 DEF ManualTopup, Books, TypeOK
  <2>4. ledger' \subseteq EntryTypes
    BY <1>3, <2>2 DEF ManualTopup, Books, TypeOK, EntryTypes
  <2> QED
    BY <1>3, <2>1, <2>3, <2>4 DEF ManualTopup, Books, TypeOK, EntryTypes
<1>4. ASSUME NEW d \in Orders, NEW outcome \in {"completed", "failed"}, SettlePro(d, outcome)
      PROVE  TypeOK'
  <2>1. \A c : [balance EXCEPT ![c] = 0] \in [Cards -> Nat]
    BY DEF Books, TypeOK
  <2>2. balance' \in [Cards -> Nat]
    <3>1. balance' = balance \/ \E c : balance' = [balance EXCEPT ![c] = 0]
      BY <1>4 DEF SettlePro
    <3>2. balance \in [Cards -> Nat]
      BY DEF Books, TypeOK
    <3> QED
      BY <2>1, <3>1, <3>2
  <2>3. paid' \in [Orders -> {"none", "open", "completed", "failed"}]
    BY <1>4 DEF SettlePro, Books, TypeOK
  <2> QED
    BY <1>4, <2>2, <2>3 DEF SettlePro, Books, TypeOK
<1>5. ASSUME NEW paused \in BOOLEAN, NEW b \in Budgets, SavePolicy(paused, b) PROVE TypeOK'
  BY <1>5 DEF SavePolicy, Books, TypeOK
<1>6. CASE Tick
  BY <1>6 DEF Tick, Books, TypeOK
<1> QED
  BY <1>1, <1>2, <1>3, <1>4, <1>5, <1>6

\* The treasurer.

LEMMA CallingType == ASSUME TypeOK, NEW o \in Ops, Calling(o) PROVE treasurer' \in Treasurer
<1>1. treasurer.at \in Nat
  BY DEF TypeOK, Treasurer
<1> QED
  BY <1>1 DEF Calling, IdleTreasurer, Treasurer, NoView, NoPlan, Plan

LEMMA RestType == ASSUME TypeOK, Rest PROVE treasurer' \in Treasurer
  BY IdleType DEF Rest, TypeOK

LEMMA CycleType == ASSUME Books, BeginCycle \/ Scan \/ GiveUp \/ LeaveReserve PROVE TypeOK'
<1> USE DEF bookVars, elsewhere, Books, TypeOK
<1>1. CASE BeginCycle
  <2>1. moneyAfter' \in Nat
    <3>1. moneyAfter' = clock + Lease /\ clock \in Nat /\ Lease \in Nat
      BY <1>1, ConstantTypes DEF BeginCycle
    <3> QED
      BY <3>1
  <2>2. \A t \in Treasurer, v \in Nat, p, n, u \in BOOLEAN :
          [t EXCEPT !.pc = "scan", !.version = v, !.paused = p, !.unsettled = n,
                    !.uncertain = u] \in Treasurer
    BY DEF Treasurer
  <2>3. treasurer' \in Treasurer
    BY <1>1, <2>2, IdleType DEF BeginCycle
  <2> QED
    BY <1>1, <2>1, <2>3 DEF BeginCycle
<1>2. CASE Scan
  <2>1. Inventory \in [Cards -> Nat \cup {Missing}]
    BY DEF Inventory
  <2>2. \A t \in Treasurer, v \in [Cards -> Nat \cup {Missing}], T \in SUBSET Ops :
          [t EXCEPT !.pc = "verify", !.view = v, !.todo = T] \in Treasurer
    BY DEF Treasurer
  <2>3. treasurer' \in Treasurer
    <3> DEFINE T == {o \in InState({"pending", "unknown"}) : money[o].at < clock - Settle}
    <3>1. T \in SUBSET Ops
      BY DEF InState
    <3> HIDE DEF T
    <3>2. treasurer' = [treasurer EXCEPT !.pc = "verify", !.view = Inventory, !.todo = T]
      BY <1>2 DEF Scan, T
    <3> QED
      BY <2>1, <2>2, <3>1, <3>2
  <2> QED
    BY <1>2, <2>3 DEF Scan
<1>3. CASE GiveUp
  BY <1>3, RestType DEF GiveUp
<1>4. CASE LeaveReserve
  <2>1. treasurer' \in Treasurer
    BY <1>4 DEF LeaveReserve, Treasurer
  <2> QED
    BY <1>4, <2>1 DEF LeaveReserve
<1> QED
  BY <1>1, <1>2, <1>3, <1>4

LEMMA VerifyType ==
  ASSUME Books, NEW o \in Ops,
         ConfirmByBalance(o) \/ ConfirmByLedger(o) \/ ProveNoCharge(o) \/ LeaveUnresolved(o)
  PROVE  TypeOK'
<1> USE DEF bookVars, elsewhere, Books
<1>1. Checked(o) => treasurer' \in Treasurer
  <2>1. \A t \in Treasurer, T \in SUBSET Ops : [t EXCEPT !.todo = T] \in Treasurer
    BY DEF Treasurer
  <2>2. treasurer.todo \ {o} \in SUBSET Ops
    BY DEF TypeOK, Treasurer
  <2>3. treasurer \in Treasurer
    BY DEF TypeOK
  <2>4. Checked(o) => treasurer' = [treasurer EXCEPT !.todo = treasurer.todo \ {o}]
    BY <2>3 DEF Checked
  <2> QED
    BY <2>1, <2>2, <2>3, <2>4
<1>2. {"balance_verified", "no_charge_verified"} \subseteq MoneyStates
  BY DEF MoneyStates
<1>3. CASE ConfirmByBalance(o)
  <2>1. money' \in [Ops -> Money]
    BY <1>2, <1>3, SetStateType DEF ConfirmByBalance
  <2>2. Target(o) # NoCard => Target(o) \in Cards
    BY DEF TypeOK, Target, Money
  <2>3. pool' \subseteq Cards
    BY <1>3, <2>2 DEF ConfirmByBalance, SeenInBalance, Enrolled, TypeOK
  <2> QED
    BY <1>1, <1>3, <2>1, <2>3 DEF ConfirmByBalance, TypeOK
<1>4. CASE ConfirmByLedger(o)
  <2>1. money' \in [Ops -> Money]
    BY <1>2, <1>4, SetStateType DEF ConfirmByLedger
  <2>2. evidence' \in [Ops -> Int]
    BY <1>4 DEF ConfirmByLedger, TypeOK
  <2> QED
    BY <1>1, <1>4, <2>1, <2>2 DEF ConfirmByLedger, TypeOK
<1>5. CASE ProveNoCharge(o)
  <2>1. money' \in [Ops -> Money]
    BY <1>2, <1>5, SetStateType DEF ProveNoCharge
  <2> QED
    BY <1>1, <1>5, <2>1 DEF ProveNoCharge, TypeOK
<1>6. CASE LeaveUnresolved(o)
  BY <1>1, <1>6 DEF LeaveUnresolved, TypeOK
<1> QED
  BY <1>3, <1>4, <1>5, <1>6

LEMMA ReconcileType == ASSUME Books, Reconcile PROVE TypeOK'
<1> USE DEF bookVars, elsewhere, Books
<1>1. reserve' \in Reserve
  <2>1. NextReserveState \in {"empty", "opening", "funding", "ready", "review"}
    BY DEF NextReserveState, TypeOK, Reserve
  <2>2. \A r \in Reserve, st \in {"empty", "opening", "funding", "ready", "review"} :
          [r EXCEPT !.state = st] \in Reserve
    BY DEF Reserve
  <2>3. reserve' = reserve \/ reserve' = [reserve EXCEPT !.state = NextReserveState]
    BY DEF Reconcile
  <2>4. reserve \in Reserve
    BY DEF TypeOK
  <2> QED
    BY <2>1, <2>2, <2>3, <2>4
<1>2. pool' \subseteq Cards
  <2>1. pool' \in {pool, pool \cup Enrollable}
    BY DEF Reconcile
  <2> QED
    BY <2>1 DEF Enrollable, TypeOK
<1>3. treasurer' \in Treasurer
  <2>1. \A t \in Treasurer : [t EXCEPT !.pc = "reserve", !.uncertain = FALSE] \in Treasurer
    BY DEF Treasurer
  <2>2. Rest \/ treasurer' = [treasurer EXCEPT !.pc = "reserve", !.uncertain = FALSE]
    BY DEF Reconcile
  <2> QED
    BY <2>1, <2>2, RestType DEF TypeOK
<1>4. moneyAfter' \in Nat
  BY DEF Reconcile, TypeOK
<1> QED
  BY <1>1, <1>2, <1>3, <1>4 DEF Reconcile, TypeOK

LEMMA ReusableType == ASSUME TypeOK, Reusable # NoCard
                      PROVE  Reusable \in Cards /\ treasurer.view[Reusable] \in Nat
  BY DEF TypeOK, Reusable, Treasurer

LEMMA PrepareType ==
  ASSUME Books, ReuseAsItIs \/ \E o \in Ops : ReuseAfterTopup(o) \/ PrepareNewCard(o)
  PROVE  TypeOK'
<1> USE DEF bookVars, elsewhere, Books
<1>0. treasurer.at \in Nat
  BY DEF TypeOK, Treasurer
<1>1. CASE ReuseAsItIs
  <2>1. reserve' \in Reserve
    BY <1>1, ReusableType DEF ReuseAsItIs, Reserve
  <2> QED
    BY <1>1, <2>1, RestType DEF ReuseAsItIs, TypeOK
<1>2. ASSUME NEW o \in Ops, ReuseAfterTopup(o) PROVE TypeOK'
  <2> DEFINE amount == Pro5xInitial - treasurer.view[Reusable]
  <2>1. Reusable \in Cards /\ treasurer.view[Reusable] \in Nat
    BY <1>2, ReusableType DEF ReuseAfterTopup
  <2>2. amount \in Nat
    BY <1>2, <2>1, ConstantTypes DEF ReuseAfterTopup
  <2>3. "pro5x_reserve_topup" \in Actions
    BY DEF Actions, Topups
  <2>4. money' \in [Ops -> Money]
    <3> HIDE DEF amount
    <3>1. Record(o, "pro5x_reserve_topup", Reusable, amount, amount, treasurer.view[Reusable],
                 treasurer.at) \in [Ops -> Money]
      BY <1>0, <2>1, <2>2, <2>3, RecordType
    <3> QED
      BY <1>2, <3>1 DEF ReuseAfterTopup, amount
  <2>5. reserve' \in Reserve
    BY <1>2, <2>1 DEF ReuseAfterTopup, Reserve
  <2> QED
    BY <1>2, <2>4, <2>5, CallingType DEF ReuseAfterTopup, TypeOK
<1>3. ASSUME NEW o \in Ops, PrepareNewCard(o) PROVE TypeOK'
  <2>1. "pro5x_reserve_open" \in Actions /\ 0 \in Nat
    BY DEF Actions, Openings
  <2>2. money' \in [Ops -> Money]
    BY <1>0, <1>3, <2>1, ConstantTypes, CostType, RecordType DEF PrepareNewCard
  <2>3. reserve' \in Reserve
    BY <1>3 DEF PrepareNewCard, Reserve
  <2> QED
    BY <1>3, <2>2, <2>3, CallingType DEF PrepareNewCard, TypeOK
<1> QED
  BY <1>1, <1>2, <1>3

LEMMA FundType ==
  ASSUME Books, ChooseOpening \/ (\E c \in Cards : ChooseTopup(c)) \/ (\E o \in Ops : Insert(o))
  PROVE  TypeOK'
<1> USE DEF bookVars, elsewhere, Books
<1>0. treasurer.at \in Nat /\ treasurer.plan \in Plan /\ treasurer.view \in [Cards -> Nat \cup {Missing}]
  BY DEF TypeOK, Treasurer
<1>v. NoView \in [Cards -> Nat \cup {Missing}]
  BY DEF NoView
<1>1. CASE ChooseOpening
  <2>1. [action |-> "open", card |-> NoCard, amount |-> InitAmount, cost |-> Cost(InitAmount, TRUE),
         before |-> 0] \in Plan
    BY ConstantTypes, CostType DEF Plan
  <2>2. treasurer' \in Treasurer
    BY <1>1, <1>v, <2>1 DEF ChooseOpening, TypeOK, Treasurer
  <2> QED
    BY <1>1, <2>2 DEF ChooseOpening, TypeOK
<1>2. ASSUME NEW c \in Cards, ChooseTopup(c) PROVE TypeOK'
  <2> DEFINE amount == IF Floor - treasurer.view[c] < Step THEN Step ELSE Floor - treasurer.view[c]
  <2>1. treasurer.view[c] \in Nat /\ amount \in Nat
    <3>1. treasurer.view[c] \in 0 .. Floor - 1 /\ Floor \in Nat /\ Step \in Nat
      BY <1>2, ConstantTypes DEF ChooseTopup
    <3>2. \A v \in 0 .. Floor - 1 :
            v \in Nat /\ (IF Floor - v < Step THEN Step ELSE Floor - v) \in Nat
      BY <3>1
    <3> QED
      BY <3>1, <3>2
  <2> HIDE DEF amount
  <2>2. [action |-> "topup", card |-> c, amount |-> amount, cost |-> Cost(amount, FALSE),
         before |-> treasurer.view[c]] \in Plan
    BY <2>1, CostType DEF Plan
  <2>3. treasurer' \in Treasurer
    BY <1>2, <1>v, <2>2 DEF ChooseTopup, TypeOK, Treasurer, amount
  <2> QED
    BY <1>2, <2>3 DEF ChooseTopup, TypeOK
<1>3. ASSUME NEW o \in Ops, Insert(o) PROVE TypeOK'
  <2> DEFINE p == treasurer.plan
  <2>1. p.action \in Actions
    BY <1>3 DEF Insert, CycleOK, PlanIsWhole, Actions, Openings, Topups, TreasurerAt
  <2>2. /\ p.card \in Cards \cup {NoCard} /\ p.amount \in Nat /\ p.cost \in Nat /\ p.before \in Nat
    BY <1>0 DEF Plan
  <2>3. money' \in [Ops -> Money]
    <3> HIDE DEF p
    <3>1. Record(o, p.action, p.card, p.amount, p.cost, p.before, treasurer.at) \in [Ops -> Money]
      BY <1>0, <2>1, <2>2, RecordType
    <3> QED
      BY <1>3, <3>1 DEF Insert, p
  <2> QED
    BY <1>3, <2>3, CallingType DEF Insert, TypeOK
<1> QED
  BY <1>1, <1>2, <1>3

LEMMA OutcomeType ==
  ASSUME Books, \/ RecordOutcome \/ MarkForReview
                \/ \E ok \in BOOLEAN, c \in Cards \cup {NoCard} : Call(ok, c)
  PROVE  TypeOK'
<1> USE DEF bookVars, elsewhere, orderVars, boundVars, Books
<1>1. CASE RecordOutcome
  <2> DEFINE o == treasurer.op
  <2>1. o \in Ops /\ made[o] \in Cards \cup {NoCard}
    BY <1>1 DEF RecordOutcome, TreasurerAt, CycleOK, TreasurerHasOp, TypeOK
  <2>2. money' \in [Ops -> Money]
    <3>1. \A s \in {"pending", "unknown"}, r \in Cards \cup {NoCard}, m \in Money :
            [m EXCEPT !.state = s, !.result = r] \in Money
      BY DEF Money, MoneyStates, Unresolved
    <3>2. money[o] \in Money /\ money[o].result \in Cards \cup {NoCard}
      BY <2>1 DEF TypeOK, Money
    <3> DEFINE s == IF treasurer.ok THEN "pending" ELSE "unknown"
               r == IF treasurer.ok THEN made[o] ELSE money[o].result
    <3>3. [money[o] EXCEPT !.state = s, !.result = r] \in Money
      BY <2>1, <3>1, <3>2
    <3>4. money' = [money EXCEPT ![o] = [money[o] EXCEPT !.state = s, !.result = r]]
      BY <1>1 DEF RecordOutcome, TypeOK
    <3> QED
      BY <3>3, <3>4 DEF TypeOK
  <2>3. reserve' \in Reserve
    BY <1>1, <2>1 DEF RecordOutcome, TypeOK, Reserve
  <2>4. treasurer' \in Treasurer
    <3>1. \A t \in Treasurer : [t EXCEPT !.pc = "mark"] \in Treasurer
      BY DEF Treasurer
    <3>2. Rest \/ treasurer' = [treasurer EXCEPT !.pc = "mark"]
      BY <1>1 DEF RecordOutcome
    <3> QED
      BY <3>1, <3>2, RestType DEF TypeOK
  <2> QED
    BY <1>1, <2>2, <2>3, <2>4 DEF RecordOutcome, TypeOK
<1>2. CASE MarkForReview
  <2>1. reserve' \in Reserve
    BY <1>2 DEF MarkForReview, TypeOK, Reserve
  <2> QED
    BY <1>2, <2>1, RestType DEF MarkForReview, TypeOK
<1>3. ASSUME NEW ok \in BOOLEAN, NEW c \in Cards \cup {NoCard}, Call(ok, c) PROVE TypeOK'
  <2>1. treasurer.op \in Ops /\ money[treasurer.op].action \in Openings \cup Topups
    BY <1>3 DEF Call, TreasurerAt, CycleOK, TreasurerHasOp, Treasury, Actions
  <2>2. PlatformTypeOK'
    BY <1>3, <2>1, RequestedType DEF Call, BooksOK, TopupHasCard
  <2>3. treasurer' \in Treasurer
    BY <1>3 DEF Call, TypeOK, Treasurer
  <2> QED
    BY <1>3, <2>2, <2>3 DEF Call, TypeOK, PlatformTypeOK, EntryTypes
<1> QED
  BY <1>1, <1>2, <1>3
\* The orders.

LEMMA DeskTypes ==
  /\ \A w \in Worker : \A v \in Cards \cup {NoCard},
       pc \in {"idle", "check", "open", "bind", "poll", "verified", "pay"} :
       /\ [w EXCEPT !.pc = pc] \in Worker
       /\ [w EXCEPT !.pc = pc, !.card = v] \in Worker
  /\ \A x \in Dedicated : \A v \in Cards \cup {NoCard},
       st \in {"none", "opening", "funding", "submitted", "review", "completed", "failed"} :
       /\ [x EXCEPT !.state = st] \in Dedicated
       /\ [x EXCEPT !.state = st, !.card = v] \in Dedicated
       /\ [x EXCEPT !.card = v, !.state = st] \in Dedicated
  /\ \A x \in Code : \A v \in Cards \cup {NoCard},
       st \in {"unused", "reserved", "review", "consumed", "failed"} :
       /\ [x EXCEPT !.status = st] \in Code
       /\ [x EXCEPT !.status = st, !.card = v] \in Code
       /\ [x EXCEPT !.card = v] \in Code
       /\ [x EXCEPT !.requested = TRUE] \in Code
<1>1. \A w \in Worker : \A v \in Cards \cup {NoCard},
        pc \in {"idle", "check", "open", "bind", "poll", "verified", "pay"} :
        /\ [w EXCEPT !.pc = pc] \in Worker
        /\ [w EXCEPT !.pc = pc, !.card = v] \in Worker
  BY DEF Worker
<1>2. \A x \in Dedicated : \A v \in Cards \cup {NoCard},
        st \in {"none", "opening", "funding", "submitted", "review", "completed", "failed"} :
        /\ [x EXCEPT !.state = st] \in Dedicated
        /\ [x EXCEPT !.state = st, !.card = v] \in Dedicated
        /\ [x EXCEPT !.card = v, !.state = st] \in Dedicated
  BY DEF Dedicated
<1>3. \A x \in Code : \A v \in Cards \cup {NoCard},
        st \in {"unused", "reserved", "review", "consumed", "failed"} :
        /\ [x EXCEPT !.status = st] \in Code
        /\ [x EXCEPT !.status = st, !.card = v] \in Code
        /\ [x EXCEPT !.card = v] \in Code
        /\ [x EXCEPT !.requested = TRUE] \in Code
  BY DEF Code
<1> QED
  BY <1>1, <1>2, <1>3

\* The tables an order's step writes.
OrderTypes == /\ money' \in [Ops -> Money]
              /\ code' \in [Orders -> Code]
              /\ dedicated' \in [Orders -> Dedicated]
              /\ worker' \in [Orders -> Worker]

LEMMA IdleWorkerType == IdleWorker \in Worker
  BY DEF IdleWorker, Worker

LEMMA WorkerGoesType ==
  ASSUME TypeOK, NEW d \in Orders,
         NEW pc \in {"idle", "check", "open", "bind", "poll", "verified", "pay"}, WorkerGoes(d, pc)
  PROVE  worker' \in [Orders -> Worker]
<1>1. [worker[d] EXCEPT !.pc = pc] \in Worker
  BY DeskTypes DEF TypeOK
<1>2. worker' = [worker EXCEPT ![d] = [worker[d] EXCEPT !.pc = pc]]
  BY DEF WorkerGoes, TypeOK
<1> QED
  BY <1>1, <1>2 DEF TypeOK

LEMMA FailType ==
  ASSUME TypeOK, NEW d \in Orders, NEW state \in MoneyStates, FailWith(d, state)
  PROVE  OrderTypes
<1>1. money' \in [Ops -> Money]
  <2>1. money' = money \/ money' = SetState(dedicated[d].op, state)
    BY DEF FailWith
  <2>2. SetState(dedicated[d].op, state) \in [Ops -> Money]
    BY SetStateType
  <2> QED
    BY <2>1, <2>2 DEF TypeOK
<1>2. code' \in [Orders -> Code]
  <2>1. [code[d] EXCEPT !.status = "review"] \in Code
    BY DeskTypes DEF TypeOK
  <2>2. code' = code \/ code' = [code EXCEPT ![d] = [code[d] EXCEPT !.status = "review"]]
    BY DEF FailWith, TypeOK
  <2> QED
    BY <2>1, <2>2 DEF TypeOK
<1>3. dedicated' \in [Orders -> Dedicated]
  <2>1. [dedicated[d] EXCEPT !.state = "review"] \in Dedicated
    BY DeskTypes DEF TypeOK
  <2>2. \/ dedicated' = dedicated
        \/ dedicated' = [dedicated EXCEPT ![d] = [dedicated[d] EXCEPT !.state = "review"]]
    BY DEF FailWith, TypeOK
  <2> QED
    BY <2>1, <2>2 DEF TypeOK
<1>4. worker' \in [Orders -> Worker]
  BY IdleWorkerType DEF FailWith, WorkerEnds, TypeOK
<1> QED
  BY <1>1, <1>2, <1>3, <1>4 DEF OrderTypes

LEMMA StatesOfFailures ==
  /\ {"unknown", "balance_verified", "pending"} \subseteq MoneyStates
  /\ \A d \in Orders : SpentWhenFailing(d) \in MoneyStates
  BY DEF MoneyStates, Unresolved, SpentWhenFailing

LEMMA TakingType ==
  ASSUME Books, NEW d \in Orders, NEW o \in Ops, StartPro20(d, o) \/ ClaimReserve(d, o)
  PROVE  TypeOK'
<1> USE DEF aside, platformSame, Books
<1>0. clock \in Nat /\ policy.version \in Nat
  BY DEF TypeOK
<1>1. CASE StartPro20(d, o)
  <2>1. money' \in [Ops -> Money]
    <3> DEFINE cost == Cost(ProInitial, TRUE) + ApiFee
    <3>1. cost \in Nat /\ "pro_open" \in Actions /\ 0 \in Nat
      <4>1. Cost(ProInitial, TRUE) \in Nat /\ ApiFee \in Nat
        BY ConstantTypes, CostType
      <4>2. \A k, l \in Nat : k + l \in Nat
        OBVIOUS
      <4>3. cost \in Nat
        BY <4>1, <4>2
      <4>4. "pro_open" \in Actions
        BY DEF Actions, Openings
      <4> QED
        BY <4>3, <4>4
    <3>2. money' = Record(o, "pro_open", NoCard, ProInitial, cost, 0, clock)
      BY <1>1 DEF StartPro20
    <3> HIDE DEF cost
    <3> QED
      BY <1>0, <3>1, <3>2, ConstantTypes, RecordType
  <2>2. code' \in [Orders -> Code]
    <3>1. [code[d] EXCEPT !.status = "reserved"] \in Code
      BY DeskTypes DEF TypeOK
    <3>2. code' = [code EXCEPT ![d] = [code[d] EXCEPT !.status = "reserved"]]
      BY <1>1 DEF StartPro20, TypeOK
    <3> QED
      BY <3>1, <3>2 DEF TypeOK
  <2>3. dedicated' \in [Orders -> Dedicated]
    <3>1. [state |-> "opening", card |-> NoCard, op |-> o] \in Dedicated
      BY DEF Dedicated
    <3> QED
      BY <1>1, <3>1 DEF StartPro20, TypeOK
  <2>4. worker' \in [Orders -> Worker]
    <3>1. [pc |-> "check", version |-> policy.version, card |-> NoCard] \in Worker
      BY <1>0 DEF Worker
    <3> QED
      BY <1>1, <3>1 DEF StartPro20, TypeOK
  <2> QED
    BY <1>1, <2>1, <2>2, <2>3, <2>4 DEF StartPro20, TypeOK
<1>2. CASE ClaimReserve(d, o)
  <2>0. reserve.card \in Cards
    BY <1>2 DEF ClaimReserve, TypeOK, Reserve
  <2>1. money' \in [Ops -> Money]
    <3>1. "pro5x_pay_fee" \in Actions /\ 0 \in Nat
      BY DEF Actions
    <3> QED
      BY <1>0, <1>2, <2>0, <3>1, ConstantTypes, RecordType DEF ClaimReserve
  <2>2. code' \in [Orders -> Code]
    <3>1. [code[d] EXCEPT !.status = "reserved", !.card = reserve.card] \in Code
      BY <2>0, DeskTypes DEF TypeOK
    <3>2. code' = [code EXCEPT ![d] = [code[d] EXCEPT !.status = "reserved",
                                                       !.card = reserve.card]]
      BY <1>2 DEF ClaimReserve, TypeOK
    <3> QED
      BY <3>1, <3>2 DEF TypeOK
  <2>3. dedicated' \in [Orders -> Dedicated]
    <3>1. [state |-> "funding", card |-> reserve.card, op |-> o] \in Dedicated
      BY <2>0 DEF Dedicated
    <3> QED
      BY <1>2, <3>1 DEF ClaimReserve, TypeOK
  <2>4. worker' \in [Orders -> Worker]
    <3>1. [pc |-> "check", version |-> policy.version, card |-> reserve.card] \in Worker
      BY <1>0, <2>0 DEF Worker
    <3> QED
      BY <1>2, <3>1 DEF ClaimReserve, TypeOK
  <2>5. reserve' \in Reserve /\ moneyAfter' \in Nat
    BY <1>2 DEF ClaimReserve, EmptyReserve, Reserve
  <2> QED
    BY <1>2, <2>1, <2>2, <2>3, <2>4, <2>5 DEF ClaimReserve, TypeOK
<1> QED
  BY <1>1, <1>2

LEMMA PreparingType ==
  ASSUME Books, NEW d \in Orders,
         \/ Fail(d) \/ GoOn(d) \/ BindCard(d) \/ SeeBalance(d) \/ Submit(d)
         \/ \E ok \in BOOLEAN, c \in Cards \cup {NoCard} : OpenCard(d, ok, c)
  PROVE  TypeOK'
<1> USE DEF aside, platformSame, Books
<1>0. worker[d].card \in Cards \cup {NoCard} /\ worker[d] \in Worker
  BY DEF TypeOK, Worker
<1>1. CASE Fail(d)
  <2>1. OrderTypes
    BY <1>1, FailType, StatesOfFailures DEF Fail
  <2> QED
    BY <1>1, <2>1 DEF Fail, FailWith, TypeOK, OrderTypes
<1>2. CASE GoOn(d)
  <2>1. worker' \in [Orders -> Worker]
    BY <1>2, WorkerGoesType DEF GoOn
  <2> QED
    BY <1>2, <2>1 DEF GoOn, TypeOK
<1>3. CASE BindCard(d)
  <2> DEFINE c == worker[d].card
  <2>1. money' \in [Ops -> Money]
    <3> DEFINE p == dedicated[d].op
    <3>1. \A m \in Money : [m EXCEPT !.result = c, !.state = "pending"] \in Money
      BY <1>0 DEF Money, MoneyStates, Unresolved
    <3>2. p \in Ops
      BY <1>3 DEF BindCard, WorkerAt, DeskOK, WorkersHaveOps
    <3>3. money' = [money EXCEPT ![p] = [money[p] EXCEPT !.result = c, !.state = "pending"]]
      BY <1>3, <3>2 DEF BindCard, TypeOK
    <3> QED
      BY <3>1, <3>2, <3>3 DEF TypeOK
  <2>2. code' \in [Orders -> Code]
    <3>1. [code[d] EXCEPT !.card = c] \in Code
      BY <1>0, DeskTypes DEF TypeOK
    <3>2. code' = [code EXCEPT ![d] = [code[d] EXCEPT !.card = c]]
      BY <1>3 DEF BindCard, TypeOK
    <3> QED
      BY <3>1, <3>2 DEF TypeOK
  <2>3. dedicated' \in [Orders -> Dedicated]
    <3>1. [dedicated[d] EXCEPT !.card = c, !.state = "funding"] \in Dedicated
      BY <1>0, DeskTypes DEF TypeOK
    <3>2. dedicated' = [dedicated EXCEPT ![d] = [dedicated[d] EXCEPT !.card = c,
                                                                     !.state = "funding"]]
      BY <1>3 DEF BindCard, TypeOK
    <3> QED
      BY <3>1, <3>2 DEF TypeOK
  <2>4. worker' \in [Orders -> Worker]
    BY <1>3, WorkerGoesType DEF BindCard
  <2> QED
    BY <1>3, <2>1, <2>2, <2>3, <2>4 DEF BindCard, TypeOK
<1>4. CASE SeeBalance(d)
  <2>1. money' \in [Ops -> Money]
    BY <1>4, SetStateType, StatesOfFailures DEF SeeBalance
  <2>2. worker' \in [Orders -> Worker]
    BY <1>4, WorkerGoesType DEF SeeBalance
  <2> QED
    BY <1>4, <2>1, <2>2 DEF SeeBalance, TypeOK
<1>5. CASE Submit(d)
  <2>1. code' \in [Orders -> Code]
    <3>1. [code[d] EXCEPT !.requested = TRUE] \in Code
      BY DeskTypes DEF TypeOK
    <3>2. code' = [code EXCEPT ![d] = [code[d] EXCEPT !.requested = TRUE]]
      BY <1>5 DEF Submit, TypeOK
    <3> QED
      BY <3>1, <3>2 DEF TypeOK
  <2>2. dedicated' \in [Orders -> Dedicated]
    <3>1. [dedicated[d] EXCEPT !.state = "submitted"] \in Dedicated
      BY DeskTypes DEF TypeOK
    <3>2. dedicated' = [dedicated EXCEPT ![d] = [dedicated[d] EXCEPT !.state = "submitted"]]
      BY <1>5 DEF Submit, TypeOK
    <3> QED
      BY <3>1, <3>2 DEF TypeOK
  <2>3. worker' \in [Orders -> Worker]
    BY <1>5, WorkerGoesType DEF Submit
  <2> QED
    BY <1>5, <2>1, <2>2, <2>3 DEF Submit, TypeOK
<1>6. ASSUME NEW ok \in BOOLEAN, NEW c \in Cards \cup {NoCard}, OpenCard(d, ok, c) PROVE TypeOK'
  <2>1. dedicated[d].op \in Ops /\ money[dedicated[d].op].action = "pro_open"
    BY <1>6 DEF OpenCard, WorkerAt, DeskOK, WorkersHaveOps, OrdersHaveOps
  <2>2. PlatformTypeOK'
    BY <1>6, <2>1, RequestedType DEF OpenCard, Openings, Topups
  <2>3. OrderTypes
    <3>1. CASE ok
      <4>1. [worker[d] EXCEPT !.pc = "bind", !.card = c] \in Worker
        BY <1>0, DeskTypes
      <4>2. worker' = [worker EXCEPT ![d] = [worker[d] EXCEPT !.pc = "bind", !.card = c]]
        BY <1>6, <3>1 DEF OpenCard, TypeOK
      <4> QED
        BY <1>6, <3>1, <4>1, <4>2 DEF OpenCard, TypeOK, OrderTypes
    <3>2. CASE ~ok
      BY <1>6, <3>2, FailType, StatesOfFailures DEF OpenCard
    <3> QED
      BY <3>1, <3>2
  <2>4. UNCHANGED <<aside, reserve, used, moneyAfter, paid>>
    BY <1>6 DEF OpenCard, FailWith
  <2> QED
    BY <2>2, <2>3, <2>4 DEF TypeOK, OrderTypes, PlatformTypeOK, EntryTypes
<1> QED
  BY <1>1, <1>2, <1>3, <1>4, <1>5, <1>6

LEMMA PayingType ==
  ASSUME Books, NEW d \in Orders,
         \/ PlaceUnheard(d) \/ RecordCompleted(d) \/ RecordFailed(d)
         \/ \E ok \in BOOLEAN : Pay(d, ok)
  PROVE  TypeOK'
<1> USE DEF aside, platformSame, Books
<1>p. \A q \in {"open", "none"} : [paid EXCEPT ![d] = "open"]
                                   \in [Orders -> {"none", "open", "completed", "failed"}]
  BY DEF TypeOK
<1>1. CASE PlaceUnheard(d)
  BY <1>1, <1>p DEF PlaceUnheard, TypeOK
<1>2. ASSUME NEW ok \in BOOLEAN, Pay(d, ok) PROVE TypeOK'
  <2>1. paid' \in [Orders -> {"none", "open", "completed", "failed"}]
    BY <1>2, <1>p DEF Pay, TypeOK
  <2>2. OrderTypes
    <3>1. CASE ok
      BY <1>2, <3>1, IdleWorkerType DEF Pay, WorkerEnds, OrderTypes, TypeOK
    <3>2. CASE ~ok
      BY <1>2, <3>2, FailType, StatesOfFailures DEF Pay
    <3> QED
      BY <3>1, <3>2
  <2>3. UNCHANGED <<aside, reserve, used, moneyAfter, charge, made, balance, ledger>>
    BY <1>2 DEF Pay, FailWith
  <2> QED
    BY <2>1, <2>2, <2>3 DEF TypeOK, OrderTypes
<1>3. CASE RecordCompleted(d)
  <2>1. code' \in [Orders -> Code]
    <3>1. [code[d] EXCEPT !.status = "consumed"] \in Code
      BY DeskTypes DEF TypeOK
    <3>2. code' = [code EXCEPT ![d] = [code[d] EXCEPT !.status = "consumed"]]
      BY <1>3 DEF RecordCompleted, TypeOK
    <3> QED
      BY <3>1, <3>2 DEF TypeOK
  <2>2. dedicated' \in [Orders -> Dedicated]
    <3> DEFINE done == dedicated[d].state \in {"submitted", "completed"}
               back == d \in Pro5 /\ code[d].card # NoCard
               x == [dedicated[d] EXCEPT !.state = IF done THEN "completed" ELSE @,
                                         !.card  = IF done /\ back THEN NoCard ELSE @]
    <3>1. dedicated[d] \in Dedicated
      BY DEF TypeOK
    <3>2. x \in Dedicated
      BY <3>1 DEF Dedicated
    <3>3. dedicated' = [dedicated EXCEPT ![d] = x]
      BY <1>3 DEF RecordCompleted, TypeOK
    <3> QED
      BY <3>2, <3>3 DEF TypeOK
  <2>3. used' \in Seq(Cards)
    <3>1. code[d].card \in Cards \cup {NoCard}
      BY DEF TypeOK, Code
    <3>2. code[d].card # NoCard => MovedToFront(code[d].card) \in Seq(Cards)
      BY <3>1, UsedType
    <3>3. used' = used \/ (code[d].card # NoCard /\ used' = MovedToFront(code[d].card))
      BY <1>3 DEF RecordCompleted
    <3> QED
      BY <3>2, <3>3 DEF TypeOK
  <2> QED
    BY <1>3, <2>1, <2>2, <2>3 DEF RecordCompleted, TypeOK
<1>4. CASE RecordFailed(d)
  <2>1. code' \in [Orders -> Code]
    <3>1. [code[d] EXCEPT !.status = "failed"] \in Code
      BY DeskTypes DEF TypeOK
    <3>2. code' = [code EXCEPT ![d] = [code[d] EXCEPT !.status = "failed"]]
      BY <1>4 DEF RecordFailed, TypeOK
    <3> QED
      BY <3>1, <3>2 DEF TypeOK
  <2>2. dedicated' \in [Orders -> Dedicated]
    <3> DEFINE x == [dedicated[d] EXCEPT
                       !.state = IF @ \in {"submitted", "completed"} THEN "failed" ELSE @]
    <3>1. dedicated[d] \in Dedicated
      BY DEF TypeOK
    <3>2. x \in Dedicated
      BY <3>1 DEF Dedicated
    <3>3. dedicated' = [dedicated EXCEPT ![d] = x]
      BY <1>4 DEF RecordFailed, TypeOK
    <3> QED
      BY <3>2, <3>3 DEF TypeOK
  <2> QED
    BY <1>4, <2>1, <2>2 DEF RecordFailed, TypeOK
<1> QED
  BY <1>1, <1>2, <1>3, <1>4

LEMMA RestartType == ASSUME Books, Restart PROVE TypeOK'
<1> USE DEF Books, upVars
<1>1. money' \in [Ops -> Money]
  <2>1. \A o \in Ops : money[o] \in Money /\ [money[o] EXCEPT !.state = "unknown"] \in Money
    <3>1. \A m \in Money : [m EXCEPT !.state = "unknown"] \in Money
      BY DEF Money, MoneyStates, Unresolved
    <3> QED
      BY <3>1 DEF TypeOK
  <2> QED
    BY <2>1 DEF Restart, RestartedMoney
<1>2. reserve' \in Reserve
  <2>1. [reserve EXCEPT !.state = "review"] \in Reserve
    BY DEF TypeOK, Reserve
  <2> QED
    BY <2>1 DEF Restart, TypeOK
<1>3. dedicated' \in [Orders -> Dedicated]
  <2>1. \A d \in Orders : /\ dedicated[d] \in Dedicated
                          /\ [dedicated[d] EXCEPT !.state = "review"] \in Dedicated
    BY DeskTypes DEF TypeOK
  <2> QED
    BY <2>1 DEF Restart
<1>4. code' \in [Orders -> Code]
  <2>1. \A d \in Orders : code[d] \in Code /\ [code[d] EXCEPT !.status = "review"] \in Code
    BY DeskTypes DEF TypeOK
  <2> QED
    BY <2>1 DEF Restart
<1>5. treasurer' \in Treasurer /\ worker' \in [Orders -> Worker]
  BY IdleType, IdleWorkerType DEF Restart
<1>6. events' \in Nat
  <2>1. events' = events + 1 /\ events \in Nat
    BY DEF Restart, TypeOK
  <2> QED
    BY <2>1
<1> QED
  BY <1>1, <1>2, <1>3, <1>4, <1>5, <1>6 DEF Restart, TypeOK
------------------------------------------------------------------------------
\* How a step may change the books: it amends operations on record, or records one.

Amended == \A o \in Ops :
  /\ money'[o].action = money[o].action /\ money'[o].card = money[o].card
  /\ money'[o].amount = money[o].amount /\ money'[o].at = money[o].at
  /\ (money'[o].state = "none") = (money[o].state = "none")
  /\ money'[o].state \in Unresolved => money[o].state \in Unresolved
  /\ money[o].action = "pro5x_pay_fee" => money'[o].state = money[o].state

\* Nothing is newly written off.
NoneWrittenOff == \A o \in Ops :
  money'[o].state \in {"no_charge_verified", "cancelled"} => money'[o].state = money[o].state

\* What the treasurer, or the orders, have on record stays as it is.
TreasuryKept == \A o \in Ops :
  money[o].action \in Treasury \/ money'[o].action \in Treasury => money'[o] = money[o]
OrdersKept ==
  /\ worker' = worker /\ \A d \in Orders : dedicated'[d].op = dedicated[d].op
  /\ \A o \in Ops : money[o].action \in {"pro_open", "pro5x_pay_fee"} =>
       /\ money'[o].action = money[o].action
       /\ money[o].state \in Unresolved => money'[o].state \in Unresolved
       /\ money[o].action = "pro_open" /\ charge[o] = "unsent" => charge'[o] = "unsent"

\* Operation o is recorded, and nothing else.
RecordsOnly(o, action, card, amount, state, at) ==
  /\ \A p \in Ops \ {o} : money'[p] = money[p]
  /\ money'[o].action = action /\ money'[o].card = card /\ money'[o].amount = amount
  /\ money'[o].state = state /\ money'[o].at = at

LEMMA StatesApart ==
  /\ "none" \notin Unresolved /\ "inflight" \in Unresolved
  /\ "pending" \in Unresolved /\ "unknown" \in Unresolved
  /\ "balance_verified" \notin Unresolved /\ "no_charge_verified" \notin Unresolved
  /\ "cancelled" \notin Unresolved
  BY DEF Unresolved

LEMMA ActionsApart ==
  /\ "none" \notin Actions /\ "none" \notin Treasury /\ "none" \notin Topups
  /\ Treasury = {"open", "topup", "pro5x_reserve_open", "pro5x_reserve_topup"}
  /\ Topups = {"topup", "pro5x_reserve_topup"}
  /\ Openings = {"open", "pro_open", "pro5x_reserve_open"}
  /\ Treasury \subseteq Actions
  BY DEF Treasury, Actions, Topups, Openings

LEMMA SetStateIs ==
  ASSUME TypeOK, NEW o \in Ops, NEW state, money' = SetState(o, state)
  PROVE  /\ \A p \in Ops \ {o} : money'[p] = money[p]
         /\ money'[o].action = money[o].action /\ money'[o].card = money[o].card
         /\ money'[o].amount = money[o].amount /\ money'[o].at = money[o].at
         /\ money'[o].state = state
<1>1. money' = [money EXCEPT ![o] = [money[o] EXCEPT !.state = state]]
  BY DEF SetState
<1>2. money[o] \in Money /\ money \in [Ops -> Money]
  BY DEF TypeOK
<1>3. money'[o] = [money[o] EXCEPT !.state = state] /\ \A p \in Ops \ {o} : money'[p] = money[p]
  BY <1>1, <1>2
<1> QED
  BY <1>2, <1>3 DEF Money

LEMMA UnchangedAmends == money' = money => Amended /\ NoneWrittenOff /\ TreasuryKept
  BY DEF Amended, NoneWrittenOff, TreasuryKept

LEMMA BooksAmended == ASSUME BooksOK, Amended PROVE BooksOK'
<1> USE DEF BooksOK, Amended
<1>1. NamedWhenRecorded'
  BY DEF NamedWhenRecorded
<1>2. TopupHasCard' /\ OpeningHasNoCard'
  BY DEF TopupHasCard, OpeningHasNoCard
<1>3. FeesArePaid'
  BY DEF FeesArePaid
<1>4. OneOutstanding'
  BY DEF OneOutstanding, Outstanding
<1>5. OneCardOpening'
  BY DEF OneCardOpening, OpeningCard
<1> QED
  BY <1>1, <1>2, <1>3, <1>4, <1>5

LEMMA BooksRecorded ==
  ASSUME BooksOK, NEW o \in Ops, ~Recorded(o), NEW action \in Actions, NEW card, NEW amount,
         NEW state, NEW at, RecordsOnly(o, action, card, amount, state, at),
         state = IF action = "pro5x_pay_fee" THEN "balance_verified" ELSE "inflight",
         action \in Topups => card \in Cards,
         action = "pro_open" => card = NoCard,
         action \in Treasury => \A p \in Ops : ~Outstanding(p),
         action \in {"open", "pro_open"} => ~OpeningUnresolved
  PROVE  BooksOK'
<1> USE DEF BooksOK, RecordsOnly
<1>1. NamedWhenRecorded'
  BY ActionsApart DEF NamedWhenRecorded
<1>2. TopupHasCard' /\ OpeningHasNoCard'
  BY DEF TopupHasCard, OpeningHasNoCard
<1>3. FeesArePaid'
  BY DEF FeesArePaid
<1>4. OneOutstanding'
  <2>1. \A p \in Ops \ {o} : Outstanding(p)' => Outstanding(p)
    BY DEF Outstanding
  <2>2. Outstanding(o)' => \A p \in Ops : ~Outstanding(p)
    BY DEF Outstanding
  <2> QED
    BY <2>1, <2>2 DEF OneOutstanding
<1>5. OneCardOpening'
  <2>1. \A p \in Ops \ {o} : OpeningCard(p)' => OpeningCard(p)
    BY DEF OpeningCard
  <2>2. OpeningCard(o)' => \A p \in Ops : ~OpeningCard(p)
    BY DEF OpeningCard, OpeningUnresolved, InState, OfAction
  <2> QED
    BY <2>1, <2>2 DEF OneCardOpening
<1> QED
  BY <1>1, <1>2, <1>3, <1>4, <1>5

LEMMA CycleKept ==
  ASSUME CycleOK, TreasuryKept, treasurer' = treasurer, clock' = clock
  PROVE  CycleOK'
<1> USE DEF CycleOK
<1>1. TreasurerHasOp' /\ CallIsCurrent' /\ CallIsDated'
  BY DEF TreasuryKept, TreasurerHasOp, CallIsCurrent, CallIsDated
<1>2. PlanIsWhole' /\ WithinLease'
  BY DEF PlanIsWhole, WithinLease
<1>3. QuietWhenDeciding'
  <2>1. \A o \in Ops : Outstanding(o)' => Outstanding(o)
    BY DEF TreasuryKept, Outstanding
  <2> QED
    BY <2>1 DEF QuietWhenDeciding, Deciding
<1> QED
  BY <1>1, <1>2, <1>3

LEMMA DeskKept == ASSUME DeskOK, OrdersKept PROVE DeskOK'
<1> USE DEF DeskOK, OrdersKept
<1>0. \A d \in Pro20 : d \in Orders
  BY DEF Orders
<1>1. OrdersHaveOps'
  BY DEF OrdersHaveOps
<1>2. OrdersApart' /\ WorkersHaveOps'
  BY DEF OrdersApart, WorkersHaveOps
<1>3. WorkerIsUnsettled' /\ CheckIsUnsent'
  <2>1. \A d \in Pro20 : worker[d].pc # "idle" =>
          dedicated[d].op \in Ops /\ money[dedicated[d].op].action = "pro_open"
    BY <1>0 DEF WorkersHaveOps, OrdersHaveOps
  <2> QED
    BY <1>0, <2>1 DEF WorkerIsUnsettled, CheckIsUnsent
<1> QED
  BY <1>1, <1>2, <1>3

LEMMA ChargesKept ==
  ASSUME TypeOK, ChargesOK, Amended, NoneWrittenOff, charge' = charge, ledger \subseteq ledger',
         clock' \in Nat, clock <= clock'
  PROVE  ChargesOK'
<1> USE DEF ChargesOK, Amended
<1>0. clock \in Nat /\ Day \in Nat /\ \A o \in Ops : money[o].at \in Nat
  BY ConstantTypes DEF TypeOK, Money
<1>1. UnrecordedIsUnsent'
  BY DEF UnrecordedIsUnsent, Recorded
<1>2. RecordIsPast'
  BY <1>0 DEF RecordIsPast, Recorded
<1>3. DoneIsEntered'
  BY DEF DoneIsEntered, Entered
<1>4. WrittenOffLate'
  BY <1>0 DEF WrittenOffLate, NoneWrittenOff
<1>5. NoChargeIsTrue'
  BY DEF NoChargeIsTrue, NoneWrittenOff, InState
<1> QED
  BY <1>1, <1>2, <1>3, <1>4, <1>5

LEMMA ChargesRecorded ==
  ASSUME TypeOK, ChargesOK, NEW o \in Ops, ~Recorded(o), NEW action, NEW card, NEW amount,
         NEW state \in {"inflight", "balance_verified"}, NEW at \in Nat, at <= clock,
         RecordsOnly(o, action, card, amount, state, at),
         charge' = charge, ledger' = ledger, clock' = clock
  PROVE  ChargesOK'
<1> USE DEF ChargesOK, RecordsOnly
<1>0. charge[o] = "unsent"
  BY DEF UnrecordedIsUnsent
<1>1. UnrecordedIsUnsent'
  BY DEF UnrecordedIsUnsent, Recorded
<1>2. RecordIsPast'
  BY DEF RecordIsPast, Recorded
<1>3. DoneIsEntered'
  BY <1>0 DEF DoneIsEntered, Entered
<1>4. WrittenOffLate'
  BY DEF WrittenOffLate
<1>5. NoChargeIsTrue'
  BY <1>0 DEF NoChargeIsTrue, InState
<1> QED
  BY <1>1, <1>2, <1>3, <1>4, <1>5

\* A request is sent, or executed, for an operation that is not written off.
LEMMA ChargesSent ==
  ASSUME TypeOK, ChargesOK, Amended, NoneWrittenOff, clock' = clock, NEW o \in Ops, Recorded(o),
         money[o].state \notin {"no_charge_verified", "cancelled"},
         \A p \in Ops \ {o} : charge'[p] = charge[p],
         ledger \subseteq ledger',
         charge'[o] = "done" /\ money[o].action \in Topups => Entered(o)'
  PROVE  ChargesOK'
<1> USE DEF ChargesOK, Amended
<1>1. UnrecordedIsUnsent'
  BY DEF UnrecordedIsUnsent, Recorded
<1>2. RecordIsPast' /\ WrittenOffLate'
  BY DEF RecordIsPast, Recorded, WrittenOffLate, NoneWrittenOff
<1>3. DoneIsEntered'
  <2>1. \A p \in Ops \ {o} : Entered(p) => Entered(p)'
    BY DEF Entered
  <2> QED
    BY <2>1 DEF DoneIsEntered
<1>5. NoChargeIsTrue'
  BY DEF NoChargeIsTrue, InState, NoneWrittenOff
<1> QED
  BY <1>1, <1>2, <1>3, <1>5

\* The prepared card's row keeps naming its operation.
LEMMA PreparationKept ==
  ASSUME PreparationIsTracked, Amended,
         reserve' = reserve \/ \A o \in Ops : Outstanding(o) /\ reserve.op = o =>
            reserve'.op = o /\ (reserve.state \in {"opening", "funding", "review"} =>
                                  reserve'.state \in {"opening", "funding", "review"})
  PROVE  PreparationIsTracked'
<1> SUFFICES ASSUME NEW o \in Ops, money'[o].state \in Unresolved,
                    money'[o].action \in {"pro5x_reserve_open", "pro5x_reserve_topup"}
             PROVE  reserve'.op = o /\ reserve'.state \in {"opening", "funding", "review"}
  BY DEF PreparationIsTracked, InState, OfAction
<1>1. money[o].state \in Unresolved
      /\ money[o].action \in {"pro5x_reserve_open", "pro5x_reserve_topup"}
  BY DEF Amended
<1>2. reserve.op = o /\ reserve.state \in {"opening", "funding", "review"}
  BY <1>1 DEF PreparationIsTracked, InState, OfAction
<1>3. Outstanding(o)
  BY <1>1, ActionsApart DEF Outstanding
<1> QED
  BY <1>2, <1>3

\* Recording something else leaves it alone.
LEMMA PreparationRecorded ==
  ASSUME PreparationIsTracked, NEW o \in Ops,
         \A p \in Ops \ {o} : money'[p] = money[p],
         \/ money'[o].action \notin {"pro5x_reserve_open", "pro5x_reserve_topup"}
            /\ (reserve' = reserve \/ reserve.state \notin {"opening", "funding", "review"})
         \/ /\ \A p \in Ops : ~Outstanding(p)
            /\ reserve'.op = o /\ reserve'.state \in {"opening", "funding", "review"}
  PROVE  PreparationIsTracked'
<1> SUFFICES ASSUME NEW p \in Ops, money'[p].state \in Unresolved,
                    money'[p].action \in {"pro5x_reserve_open", "pro5x_reserve_topup"}
             PROVE  reserve'.op = p /\ reserve'.state \in {"opening", "funding", "review"}
  BY DEF PreparationIsTracked, InState, OfAction
<1>1. CASE p = o
  BY <1>1
<1>2. CASE p # o
  <2>1. money[p].state \in Unresolved
        /\ money[p].action \in {"pro5x_reserve_open", "pro5x_reserve_topup"}
    BY <1>2
  <2>2. reserve.op = p /\ reserve.state \in {"opening", "funding", "review"}
    BY <2>1 DEF PreparationIsTracked, InState, OfAction
  <2>3. Outstanding(p)
    BY <2>1, ActionsApart DEF Outstanding
  <2> QED
    BY <2>2, <2>3
<1> QED
  BY <1>1, <1>2
------------------------------------------------------------------------------
\* The initial state, the platform and the administrator.

LEMMA SafeInit == Init => IInv
<1> SUFFICES ASSUME Init PROVE IInv
  OBVIOUS
<1>1. TypeOK
  BY TypeInit
<1>2. \A o \in Ops : /\ money[o] = NoMoney /\ money[o].action = "none" /\ money[o].state = "none"
                     /\ charge[o] = "unsent"
  BY DEF Init, NoMoney
<1>3. BooksOK
  BY <1>2, StatesApart, ActionsApart
     DEF BooksOK, NamedWhenRecorded, TopupHasCard, OpeningHasNoCard, FeesArePaid,
         OneOutstanding, Outstanding, OneCardOpening, OpeningCard
<1>4. CycleOK
  <2>1. treasurer.pc = "idle"
    BY DEF Init, IdleTreasurer
  <2> QED
    BY <2>1 DEF CycleOK, TreasurerHasOp, CallIsCurrent, CallIsDated, PlanIsWhole,
                QuietWhenDeciding, Deciding, WithinLease
<1>5. DeskOK
  <2>1. \A d \in Orders : worker[d].pc = "idle" /\ dedicated[d].op \notin Ops
    BY OpsAreNat DEF Init, IdleWorker, NoDedicated
  <2>2. \A d \in Pro20 : d \in Orders
    BY DEF Orders
  <2> QED
    BY <2>1, <2>2 DEF DeskOK, OrdersHaveOps, OrdersApart, WorkersHaveOps, WorkerIsUnsettled,
                      CheckIsUnsent
<1>6. ChargesOK
  BY <1>2, ActionsApart
     DEF ChargesOK, UnrecordedIsUnsent, RecordIsPast, DoneIsEntered, WrittenOffLate,
         NoChargeIsTrue, InState, Recorded
<1>7. PreparationIsTracked
  BY <1>2 DEF PreparationIsTracked, OfAction, InState
<1> QED
  BY <1>1, <1>3, <1>4, <1>5, <1>6, <1>7 DEF IInv, Books

LEMMA OutsideSafe ==
  ASSUME IInv, \/ \E o \in Ops, c \in Cards : LateCharge(o, c)
               \/ \E c \in Cards : OrdinaryPayment(c) \/ \E a \in ManualAmounts : ManualTopup(c, a)
               \/ \E d \in Orders, outcome \in {"completed", "failed"} : SettlePro(d, outcome)
               \/ \E paused \in BOOLEAN, b \in Budgets : SavePolicy(paused, b)
               \/ Tick
  PROVE  IInv'
<1> USE DEF IInv, Books
<1>t. TypeOK'
  BY OutsideType
<1>u. money' = money /\ reserve' = reserve /\ worker' = worker /\ dedicated' = dedicated
      /\ treasurer' = treasurer
  BY DEF LateCharge, OrdinaryPayment, ManualTopup, SettlePro, SavePolicy, Tick,
         bookVars, orderVars, procVars
<1>b. BooksOK' /\ PreparationIsTracked'
  BY <1>u, UnchangedAmends, BooksAmended, PreparationKept
<1>1. ASSUME NEW o \in Ops, NEW c \in Cards, LateCharge(o, c) PROVE IInv'
  <2>0. clock' = clock
    BY <1>1 DEF LateCharge, boundVars
  <2>1. charge[o] = "late" /\ charge' = [charge EXCEPT ![o] = "done"]
    BY <1>1 DEF LateCharge
  <2>2. \A p \in Ops \ {o} : charge'[p] = charge[p]
    BY <2>1 DEF TypeOK
  <2>3. CycleOK'
    BY <1>u, <2>0, UnchangedAmends, CycleKept
  <2>4. DeskOK'
    BY <1>u, <2>1, <2>2, DeskKept DEF OrdersKept
  <2>5. Recorded(o) /\ money[o].state \notin {"no_charge_verified", "cancelled"}
    <3>1. Recorded(o) /\ money[o].state # "cancelled"
      BY <2>1 DEF ChargesOK, UnrecordedIsUnsent, NoChargeIsTrue, InState
    <3>2. money[o].state # "no_charge_verified"
      <4>1. clock < money[o].at + Day /\ clock \in Nat /\ money[o].at \in Nat /\ Day \in Nat
        BY <1>1, ConstantTypes DEF LateCharge, TypeOK, Money
      <4> QED
        BY <4>1 DEF ChargesOK, WrittenOffLate
    <3> QED
      BY <3>1, <3>2
  <2>6. ledger \subseteq ledger'
    BY <1>1 DEF LateCharge, Execute
  <2>7. money[o].action \in Topups => Entered(o)'
    <3> SUFFICES ASSUME money[o].action \in Topups PROVE Entered(o)'
      OBVIOUS
    <3>1. money[o].at <= clock /\ clock <= money[o].at + Day
      <4>1. clock < money[o].at + Day /\ clock \in Nat /\ money[o].at \in Nat /\ Day \in Nat
        BY <1>1, ConstantTypes DEF LateCharge, TypeOK, Money
      <4> QED
        BY <2>5, <4>1 DEF ChargesOK, RecordIsPast
    <3> DEFINE e == [id |-> o, card |-> c, amount |-> money[o].amount, at |-> clock, ok |-> TRUE]
    <3>2. c = money[o].card /\ e \in ledger'
      BY <1>1 DEF LateCharge, Execute
    <3> QED
      BY <1>u, <3>1, <3>2 DEF Entered
  <2>8. ChargesOK'
    BY <1>u, <2>0, <2>2, <2>5, <2>6, <2>7, UnchangedAmends, ChargesSent
  <2> QED
    BY <1>t, <1>b, <2>3, <2>4, <2>8
<1>2. ASSUME charge' = charge, ledger \subseteq ledger', clock' = clock PROVE IInv'
  <2>1. CycleOK' /\ DeskOK'
    BY <1>2, <1>u, UnchangedAmends, CycleKept, DeskKept DEF OrdersKept
  <2>2. clock \in Nat /\ clock <= clock
    BY DEF TypeOK
  <2>3. ChargesOK'
    BY <1>2, <1>u, <2>2, UnchangedAmends, ChargesKept
  <2> QED
    BY <1>t, <1>b, <2>1, <2>3
<1>3. ASSUME NEW c \in Cards, OrdinaryPayment(c) \/ \E a \in ManualAmounts : ManualTopup(c, a)
      PROVE  IInv'
  BY <1>2, <1>3 DEF OrdinaryPayment, ManualTopup, boundVars
<1>4. ASSUME NEW d \in Orders, NEW outcome \in {"completed", "failed"}, SettlePro(d, outcome)
      PROVE  IInv'
  BY <1>2, <1>4 DEF SettlePro, boundVars
<1>5. ASSUME NEW paused \in BOOLEAN, NEW b \in Budgets, SavePolicy(paused, b) PROVE IInv'
  BY <1>2, <1>5 DEF SavePolicy, upVars
<1>6. CASE Tick
  <2>0. /\ clock \in Nat /\ clock' = clock + 1 /\ charge' = charge /\ ledger' = ledger
        /\ treasurer.pc = "idle" \/ clock < treasurer.at + Lease
        /\ Lease \in Nat /\ treasurer.at \in Nat
    BY <1>6, ConstantTypes DEF Tick, TypeOK, upVars, Treasurer
  <2>1. CycleOK'
    <3>1. WithinLease'
      BY <1>u, <2>0 DEF CycleOK, WithinLease
    <3>2. /\ TreasurerHasOp' /\ CallIsCurrent' /\ CallIsDated' /\ PlanIsWhole'
          /\ QuietWhenDeciding'
      BY <1>u DEF CycleOK, TreasurerHasOp, CallIsCurrent, CallIsDated, PlanIsWhole,
                  QuietWhenDeciding, Deciding, Outstanding
    <3> QED
      BY <3>1, <3>2 DEF CycleOK
  <2>2. DeskOK'
    BY <1>u, <2>0, DeskKept DEF OrdersKept
  <2>3. ChargesOK'
    <3>1. clock <= clock' /\ clock' \in Nat
      BY <2>0
    <3> QED
      BY <1>u, <2>0, <3>1, UnchangedAmends, ChargesKept
  <2> QED
    BY <1>t, <1>b, <2>1, <2>2, <2>3
<1> QED
  BY <1>1, <1>3, <1>4, <1>5, <1>6

------------------------------------------------------------------------------
\* The treasurer.

\* A step of the treasurer that leaves the books leaves the rest.
LEMMA TreasurerFrame ==
  ASSUME IInv, money' = money, charge' = charge, ledger' = ledger, clock' = clock,
         worker' = worker, dedicated' = dedicated
  PROVE  BooksOK' /\ DeskOK' /\ ChargesOK'
<1>1. BooksOK /\ DeskOK /\ ChargesOK /\ TypeOK
  BY DEF IInv, Books
<1>2. clock' \in Nat /\ clock <= clock'
  BY <1>1 DEF TypeOK
<1> QED
  BY <1>1, <1>2, UnchangedAmends, BooksAmended, DeskKept, ChargesKept DEF OrdersKept

\* An idle treasurer has nothing to keep.
LEMMA IdleCycle == ASSUME treasurer'.pc = "idle" PROVE CycleOK'
  BY DEF CycleOK, TreasurerHasOp, CallIsCurrent, CallIsDated, PlanIsWhole, QuietWhenDeciding,
         Deciding, WithinLease

LEMMA RestIsIdle == Rest => treasurer'.pc = "idle"
  BY DEF Rest, IdleTreasurer

LEMMA CycleSafe ==
  ASSUME IInv, \/ BeginCycle \/ Scan \/ GiveUp \/ LeaveReserve \/ ChooseOpening
               \/ \E c \in Cards : ChooseTopup(c)
  PROVE  IInv'
<1> USE DEF IInv, Books
<1>t. TypeOK'
  BY CycleType, FundType
<1>u. /\ money' = money /\ charge' = charge /\ ledger' = ledger /\ clock' = clock
      /\ worker' = worker /\ dedicated' = dedicated /\ reserve' = reserve
  BY DEF BeginCycle, Scan, GiveUp, LeaveReserve, ChooseOpening, ChooseTopup, bookVars, elsewhere
<1>f. BooksOK' /\ DeskOK' /\ ChargesOK' /\ PreparationIsTracked'
  BY <1>u, TreasurerFrame, UnchangedAmends, PreparationKept
<1>q. /\ treasurer \in Treasurer /\ clock \in Nat /\ Lease \in Nat
  BY ConstantTypes DEF TypeOK
<1> DEFINE Parts == TreasurerHasOp' /\ CallIsCurrent' /\ CallIsDated'
<1>1. CASE BeginCycle
  <2>1. CASE treasurer'.pc = "idle"
    BY <1>t, <1>f, <2>1, IdleCycle
  <2>2. CASE treasurer'.pc # "idle"
    <3>1. /\ treasurer'.pc = "scan" /\ treasurer'.at = clock
          /\ treasurer'.unsettled = (InState(Unresolved) # {})
      BY <1>1, <2>2 DEF BeginCycle, IdleTreasurer
    <3>2. WithinLease'
      BY <1>u, <1>q, <3>1 DEF WithinLease
    <3>3. QuietWhenDeciding'
      BY <1>u, <3>1 DEF QuietWhenDeciding, Deciding, Outstanding, InState
    <3>4. Parts /\ PlanIsWhole'
      BY <3>1 DEF TreasurerHasOp, CallIsCurrent, CallIsDated, PlanIsWhole
    <3> QED
      BY <1>t, <1>f, <3>2, <3>3, <3>4 DEF CycleOK
  <2> QED
    BY <2>1, <2>2
<1>2. CASE GiveUp
  BY <1>2, <1>t, <1>f, RestIsIdle, IdleCycle DEF GiveUp
<1>3. CASE Scan \/ LeaveReserve \/ ChooseOpening \/ \E c \in Cards : ChooseTopup(c)
  <2>1. /\ treasurer.pc \in {"scan", "reserve", "fund"} /\ treasurer'.at = treasurer.at
        /\ treasurer'.unsettled = treasurer.unsettled
        /\ treasurer.pc = "scan" <=> treasurer'.pc = "verify"
        /\ treasurer'.pc \in {"verify", "fund", "insert"}
    BY <1>3, <1>q DEF Scan, LeaveReserve, ChooseOpening, ChooseTopup, TreasurerAt, Treasurer
  <2>2. WithinLease'
    BY <1>u, <2>1 DEF CycleOK, WithinLease
  <2>3. QuietWhenDeciding'
    <3>1. Deciding' => Deciding
      BY <2>1 DEF Deciding
    <3> QED
      BY <1>u, <3>1 DEF CycleOK, QuietWhenDeciding, Outstanding
  <2>4. Parts
    BY <2>1 DEF TreasurerHasOp, CallIsCurrent, CallIsDated
  <2>5. PlanIsWhole'
    <3>1. CASE ChooseOpening
      BY <3>1, <1>q DEF ChooseOpening, PlanIsWhole, Treasurer
    <3>2. ASSUME NEW c \in Cards, ChooseTopup(c) PROVE PlanIsWhole'
      <4>1. treasurer'.plan.action = "topup" /\ treasurer'.plan.card = c
        BY <3>2, <1>q DEF ChooseTopup, Treasurer
      <4> QED
        BY <4>1 DEF PlanIsWhole
    <3>3. CASE Scan \/ LeaveReserve
      BY <3>3, <1>q DEF Scan, LeaveReserve, PlanIsWhole, Treasurer
    <3> QED
      BY <1>3, <3>1, <3>2, <3>3
  <2> QED
    BY <1>t, <1>f, <2>2, <2>3, <2>4, <2>5 DEF CycleOK
<1> QED
  BY <1>1, <1>2, <1>3

LEMMA VerifySafe ==
  ASSUME IInv, NEW o \in Ops,
         ConfirmByBalance(o) \/ ConfirmByLedger(o) \/ ProveNoCharge(o) \/ LeaveUnresolved(o)
  PROVE  IInv'
<1> USE DEF IInv, Books
<1>t. TypeOK'
  BY VerifyType
<1>u. /\ charge' = charge /\ ledger' = ledger /\ clock' = clock
      /\ worker' = worker /\ dedicated' = dedicated /\ reserve' = reserve
  BY DEF ConfirmByBalance, ConfirmByLedger, ProveNoCharge, LeaveUnresolved, bookVars, elsewhere
<1>q. /\ treasurer.pc = "verify" /\ treasurer'.pc = "verify" /\ treasurer'.at = treasurer.at
      /\ treasurer'.unsettled = treasurer.unsettled
  BY DEF ConfirmByBalance, ConfirmByLedger, ProveNoCharge, LeaveUnresolved, IsDue, TreasurerAt,
         Checked, TypeOK, Treasurer
<1>1. \/ money' = money
      \/ /\ money[o].action \notin {"pro_open", "pro5x_pay_fee"} /\ money[o].state # "none"
         /\ \/ money' = SetState(o, "balance_verified")
            \/ money' = SetState(o, "no_charge_verified") /\ ProveNoCharge(o)
  <2>1. CASE ConfirmByBalance(o)
    <3>1. money[o].state = "pending" /\ Target(o) # NoCard
      BY <2>1 DEF ConfirmByBalance, SeenInBalance
    <3>2. money[o].action # "pro_open" /\ money[o].action # "pro5x_pay_fee"
      BY <3>1 DEF Target, BooksOK, OpeningHasNoCard, FeesArePaid
    <3> QED
      BY <2>1, <3>1, <3>2 DEF ConfirmByBalance
  <2>2. CASE ConfirmByLedger(o)
    <3>1. money[o].action \in Topups
      BY <2>2 DEF ConfirmByLedger
    <3>2. money[o].state # "none" /\ money[o].action \notin {"pro_open", "pro5x_pay_fee"}
      BY <3>1, ActionsApart DEF BooksOK, NamedWhenRecorded
    <3> QED
      BY <2>2, <3>2 DEF ConfirmByLedger
  <2>3. CASE ProveNoCharge(o)
    BY <2>3 DEF ProveNoCharge
  <2>4. CASE LeaveUnresolved(o)
    BY <2>4 DEF LeaveUnresolved, bookVars
  <2> QED
    BY <2>1, <2>2, <2>3, <2>4
<1>2. Amended /\ \A p \in Ops \ {o} : money'[p] = money[p]
  <2>1. CASE money' = money
    BY <2>1, UnchangedAmends
  <2>2. CASE money' # money
    <3>1. \E st \in {"balance_verified", "no_charge_verified"} : money' = SetState(o, st)
      BY <1>1, <2>2
    <3> QED
      BY <1>1, <2>2, <3>1, SetStateIs, StatesApart DEF Amended
  <2> QED
    BY <2>1, <2>2
<1>3. CycleOK'
  <2>1. QuietWhenDeciding'
    BY <1>q, <1>2 DEF CycleOK, QuietWhenDeciding, Deciding, Outstanding, Amended
  <2>2. WithinLease'
    BY <1>q, <1>u DEF CycleOK, WithinLease
  <2> QED
    BY <1>q, <2>1, <2>2 DEF CycleOK, TreasurerHasOp, CallIsCurrent, CallIsDated, PlanIsWhole
<1>4. DeskOK'
  <2>1. \A p \in Ops : money[p].action \in {"pro_open", "pro5x_pay_fee"} => money'[p] = money[p]
    BY <1>1, <1>2
  <2> QED
    BY <1>u, <2>1, DeskKept DEF OrdersKept
<1>5. ChargesOK'
  <2>0. clock' \in Nat /\ clock <= clock'
    BY <1>u DEF TypeOK
  <2>1. CASE money' = money \/ money' = SetState(o, "balance_verified")
    <3>1. NoneWrittenOff
      BY <2>1, UnchangedAmends, SetStateIs DEF NoneWrittenOff
    <3> QED
      BY <1>u, <1>2, <2>0, <3>1, ChargesKept
  <2>2. CASE money' = SetState(o, "no_charge_verified") /\ ProveNoCharge(o)
    <3>0. /\ clock \in Nat /\ Day \in Nat /\ money[o].at \in Nat
      BY ConstantTypes DEF TypeOK, Money
    <3>1. /\ money[o].state = "unknown" /\ money[o].action = "topup"
          /\ clock - money[o].at >= Day /\ Entries(o) = {}
      BY <2>2 DEF ProveNoCharge
    <3>2. charge[o] # "done"
      <4>1. ~Entered(o)
        BY <3>1 DEF Entered, Entries
      <4> QED
        BY <3>1, <4>1, ActionsApart DEF ChargesOK, DoneIsEntered
    <3>3. money'[o].state = "no_charge_verified" /\ money'[o].at = money[o].at
      BY <2>2 DEF SetState, TypeOK, Money
    <3>4. UnrecordedIsUnsent' /\ RecordIsPast'
      BY <1>2, <1>u DEF ChargesOK, Amended, UnrecordedIsUnsent, RecordIsPast, Recorded
    <3>5. DoneIsEntered'
      BY <1>2, <1>u DEF ChargesOK, Amended, DoneIsEntered, Entered
    <3>6. WrittenOffLate'
      BY <1>2, <1>u, <3>0, <3>1, <3>3 DEF ChargesOK, WrittenOffLate
    <3>7. NoChargeIsTrue'
      BY <1>2, <1>u, <3>2, <3>3 DEF ChargesOK, NoChargeIsTrue, InState
    <3> QED
      BY <3>4, <3>5, <3>6, <3>7 DEF ChargesOK
  <2> QED
    BY <1>1, <2>1, <2>2
<1> QED
  BY <1>t, <1>u, <1>2, <1>3, <1>4, <1>5, BooksAmended, PreparationKept

LEMMA ReconcileSafe == ASSUME IInv, Reconcile \/ ReuseAsItIs \/ MarkForReview PROVE IInv'
<1> USE DEF IInv, Books
<1>t. TypeOK'
  BY ReconcileType, PrepareType, OutcomeType
<1>u. /\ money' = money /\ charge' = charge /\ ledger' = ledger /\ clock' = clock
      /\ worker' = worker /\ dedicated' = dedicated
  BY DEF Reconcile, ReuseAsItIs, MarkForReview, elsewhere
<1>f. BooksOK' /\ DeskOK' /\ ChargesOK'
  BY <1>u, TreasurerFrame
<1>r. reserve \in Reserve
  BY DEF TypeOK
<1>1. CASE Reconcile
  <2>1. PreparationIsTracked'
    <3>1. CASE reserve' = reserve
      BY <1>u, <3>1, UnchangedAmends, PreparationKept
    <3>2. CASE reserve' = [reserve EXCEPT !.state = NextReserveState]
      <4>1. ASSUME NEW o \in Ops, Outstanding(o), reserve.op = o,
                   reserve.state \in {"opening", "funding", "review"}
            PROVE  NextReserveState \in {"opening", "funding", "review"}
        <5>1. money[reserve.op].state # "balance_verified"
          BY <4>1, StatesApart DEF Outstanding
        <5> QED
          BY <4>1, <5>1 DEF NextReserveState
      <4>2. reserve'.op = reserve.op /\ reserve'.state = NextReserveState
        BY <3>2, <1>r DEF Reserve
      <4> QED
        BY <1>u, <4>1, <4>2, UnchangedAmends, PreparationKept
    <3> QED
      BY <1>1, <3>1, <3>2 DEF Reconcile
  <2>2. CASE Rest
    BY <1>t, <1>f, <2>1, <2>2, RestIsIdle, IdleCycle
  <2>3. CASE ~Rest
    <3>1. /\ treasurer.pc = "verify" /\ ~treasurer.unsettled
          /\ treasurer' = [treasurer EXCEPT !.pc = "reserve", !.uncertain = FALSE]
      BY <1>1, <2>3 DEF Reconcile, TreasurerAt
    <3>2. treasurer'.pc = "reserve" /\ treasurer'.at = treasurer.at
      BY <3>1 DEF TypeOK, Treasurer
    <3>3. QuietWhenDeciding'
      BY <1>u, <3>1 DEF CycleOK, QuietWhenDeciding, Deciding, Outstanding
    <3>4. WithinLease'
      BY <1>u, <3>1, <3>2 DEF CycleOK, WithinLease
    <3>5. CycleOK'
      BY <3>2, <3>3, <3>4 DEF CycleOK, TreasurerHasOp, CallIsCurrent, CallIsDated, PlanIsWhole
    <3> QED
      BY <1>t, <1>f, <2>1, <3>5
  <2> QED
    BY <2>2, <2>3
<1>2. CASE ReuseAsItIs
  <2>1. \A o \in Ops : ~Outstanding(o)
    BY <1>2 DEF ReuseAsItIs, MayPrepare, TreasurerAt, CycleOK, QuietWhenDeciding, Deciding
  <2>2. PreparationIsTracked'
    BY <1>u, <2>1, UnchangedAmends, PreparationKept
  <2> QED
    BY <1>2, <1>t, <1>f, <2>2, RestIsIdle, IdleCycle DEF ReuseAsItIs
<1>3. CASE MarkForReview
  <2>1. reserve' = reserve \/ reserve' = [reserve EXCEPT !.state = "review"]
    BY <1>3 DEF MarkForReview
  <2>2. PreparationIsTracked'
    BY <1>u, <1>r, <2>1, UnchangedAmends, PreparationKept DEF Reserve
  <2> QED
    BY <1>3, <1>t, <1>f, <2>2, RestIsIdle, IdleCycle DEF MarkForReview
<1> QED
  BY <1>1, <1>2, <1>3

\* The treasurer records an operation and goes on to call the platform.
LEMMA RecordingSafe ==
  ASSUME IInv, TypeOK', NEW o \in Ops, ~Recorded(o), NEW action \in Treasury, NEW card, NEW amount,
         NEW cost, NEW before,
         money' = Record(o, action, card, amount, cost, before, treasurer.at),
         Calling(o), Deciding, treasurer.pc # "idle",
         action \in Topups => card \in Cards,
         action = "open" => ~OpeningUnresolved,
         charge' = charge, ledger' = ledger, clock' = clock,
         worker' = worker, dedicated' = dedicated,
         IF action \in {"pro5x_reserve_open", "pro5x_reserve_topup"}
         THEN reserve'.op = o /\ reserve'.state \in {"opening", "funding", "review"}
         ELSE reserve' = reserve
  PROVE  IInv'
<1> USE DEF IInv, Books
<1>1. RecordsOnly(o, action, card, amount, "inflight", treasurer.at)
  BY DEF RecordsOnly, Record, TypeOK, Money
<1>2. \A p \in Ops : ~Outstanding(p)
  BY DEF CycleOK, QuietWhenDeciding
<1>3. action \in Actions /\ action \notin {"pro_open", "pro5x_pay_fee"} /\ action # "none"
  BY ActionsApart DEF Treasury
<1>4. BooksOK'
  <2>1. action \in {"open", "pro_open"} => ~OpeningUnresolved
    BY <1>3
  <2>2. "inflight" = IF action = "pro5x_pay_fee" THEN "balance_verified" ELSE "inflight"
    BY <1>3
  <2> QED
    BY <1>1, <1>2, <1>3, <2>1, <2>2, BooksRecorded
<1>5. treasurer.at \in Nat /\ treasurer.at <= clock /\ clock <= treasurer.at + Lease
  BY DEF CycleOK, WithinLease, TypeOK, Treasurer
<1>6. ChargesOK'
  BY <1>1, <1>5, ChargesRecorded
<1>7. DeskOK'
  <2>1. money[o].action = "none"
    BY DEF BooksOK, NamedWhenRecorded, Recorded
  <2>2. \A p \in Ops : money[p].action \in {"pro_open", "pro5x_pay_fee"} => money'[p] = money[p]
    BY <1>1, <2>1 DEF RecordsOnly
  <2> QED
    BY <2>2, DeskKept DEF OrdersKept
<1>8. CycleOK'
  <2>1. treasurer'.pc = "call" /\ treasurer'.op = o /\ treasurer'.at = treasurer.at
    BY DEF Calling, IdleTreasurer
  <2>2. TreasurerHasOp' /\ CallIsCurrent' /\ CallIsDated'
    BY <1>1, <2>1 DEF RecordsOnly, TreasurerHasOp, CallIsCurrent, CallIsDated
  <2>3. PlanIsWhole' /\ QuietWhenDeciding' /\ WithinLease'
    BY <1>5, <2>1 DEF PlanIsWhole, QuietWhenDeciding, Deciding, WithinLease
  <2> QED
    BY <2>2, <2>3 DEF CycleOK
<1>9. PreparationIsTracked'
  BY <1>1, <1>2, PreparationRecorded DEF RecordsOnly
<1> QED
  BY <1>4, <1>6, <1>7, <1>8, <1>9

LEMMA SpendSafe ==
  ASSUME IInv, NEW o \in Ops, ReuseAfterTopup(o) \/ PrepareNewCard(o) \/ Insert(o)
  PROVE  IInv'
<1> USE DEF IInv, Books
<1>t. TypeOK'
  BY PrepareType, FundType
<1>u. /\ charge' = charge /\ ledger' = ledger /\ clock' = clock
      /\ worker' = worker /\ dedicated' = dedicated
      /\ ~Recorded(o) /\ Calling(o) /\ Deciding /\ treasurer.pc # "idle"
  BY DEF ReuseAfterTopup, PrepareNewCard, Insert, MayPrepare, TreasurerAt, Deciding, Fresh, elsewhere
<1>1. CASE ReuseAfterTopup(o)
  <2> DEFINE amount == Pro5xInitial - treasurer.view[Reusable]
  <2>1. "pro5x_reserve_topup" \in Treasury /\ Reusable \in Cards
    BY <1>1, ActionsApart, ReusableType DEF ReuseAfterTopup
  <2>2. money' = Record(o, "pro5x_reserve_topup", Reusable, amount, amount,
                        treasurer.view[Reusable], treasurer.at)
    BY <1>1 DEF ReuseAfterTopup
  <2>3. reserve'.op = o /\ reserve'.state \in {"opening", "funding", "review"}
    BY <1>1 DEF ReuseAfterTopup
  <2> HIDE DEF amount
  <2> QED
    BY <1>t, <1>u, <2>1, <2>2, <2>3, RecordingSafe
<1>2. CASE PrepareNewCard(o)
  <2> DEFINE cost == Cost(Pro5xInitial, TRUE)
  <2>1. "pro5x_reserve_open" \in Treasury /\ "pro5x_reserve_open" \notin Topups
    BY ActionsApart
  <2>2. money' = Record(o, "pro5x_reserve_open", NoCard, Pro5xInitial, cost, 0, treasurer.at)
    BY <1>2 DEF PrepareNewCard
  <2>3. reserve'.op = o /\ reserve'.state \in {"opening", "funding", "review"}
    BY <1>2 DEF PrepareNewCard
  <2> HIDE DEF cost
  <2> QED
    BY <1>t, <1>u, <2>1, <2>2, <2>3, RecordingSafe
<1>3. CASE Insert(o)
  <2> DEFINE p == treasurer.plan
  <2>1. p.action \in {"topup", "open"} /\ (p.action = "topup" => p.card \in Cards)
    BY <1>3 DEF Insert, TreasurerAt, CycleOK, PlanIsWhole
  <2>2. p.action \in Treasury /\ (p.action \in Topups => p.card \in Cards)
    BY <2>1, ActionsApart
  <2>3. money' = Record(o, p.action, p.card, p.amount, p.cost, p.before, treasurer.at)
        /\ ~OpeningUnresolved /\ reserve' = reserve
    BY <1>3 DEF Insert
  <2>4. p.action \notin {"pro5x_reserve_open", "pro5x_reserve_topup"}
    BY <2>1
  <2> HIDE DEF p
  <2> QED
    BY <1>t, <1>u, <2>2, <2>3, <2>4, RecordingSafe
<1> QED
  BY <1>1, <1>2, <1>3

LEMMA OutcomeSafe == ASSUME IInv, RecordOutcome PROVE IInv'
<1> USE DEF IInv, Books
<1> DEFINE o == treasurer.op
<1>t. TypeOK'
  BY OutcomeType
<1>u. /\ charge' = charge /\ ledger' = ledger /\ clock' = clock
      /\ worker' = worker /\ dedicated' = dedicated /\ treasurer.pc = "record"
  BY DEF RecordOutcome, elsewhere, TreasurerAt
<1>o. o \in Ops /\ Outstanding(o) /\ money[o].state = "inflight"
  BY <1>u, StatesApart DEF CycleOK, TreasurerHasOp, CallIsCurrent, Outstanding
<1>1. /\ \A p \in Ops \ {o} : money'[p] = money[p]
      /\ money'[o].action = money[o].action /\ money'[o].card = money[o].card
      /\ money'[o].amount = money[o].amount /\ money'[o].at = money[o].at
      /\ money'[o].state \in {"pending", "unknown"}
  <2> DEFINE s == IF treasurer.ok THEN "pending" ELSE "unknown"
             r == IF treasurer.ok THEN made[o] ELSE money[o].result
  <2>1. money \in [Ops -> Money] /\ money[o] \in Money
    BY <1>o DEF TypeOK
  <2>2. money' = [money EXCEPT ![o] = [money[o] EXCEPT !.state = s, !.result = r]]
    BY <2>1 DEF RecordOutcome
  <2>3. money'[o] = [money[o] EXCEPT !.state = s, !.result = r]
        /\ \A p \in Ops \ {o} : money'[p] = money[p]
    BY <1>o, <2>1, <2>2
  <2>4. s \in {"pending", "unknown"}
    OBVIOUS
  <2> HIDE DEF s, r
  <2> QED
    BY <2>1, <2>3, <2>4 DEF Money
<1>2. Amended /\ NoneWrittenOff
  <2>1. money[o].action # "pro5x_pay_fee"
    BY <1>o DEF Outstanding, Treasury
  <2> QED
    BY <1>1, <1>o, <2>1, StatesApart DEF Amended, NoneWrittenOff
<1>3. ChargesOK'
  <2>1. clock' \in Nat /\ clock <= clock'
    BY <1>u DEF TypeOK
  <2> QED
    BY <1>u, <1>2, <2>1, ChargesKept
<1>4. DeskOK'
  <2>1. \A p \in Ops : money[p].action \in {"pro_open", "pro5x_pay_fee"} => money'[p] = money[p]
    BY <1>1, <1>o DEF Outstanding, Treasury
  <2> QED
    BY <1>u, <2>1, DeskKept DEF OrdersKept
<1>5. PreparationIsTracked'
  <2>1. reserve' = reserve \/ (reserve'.op = reserve.op /\ reserve'.state = "funding")
    BY DEF RecordOutcome, TypeOK, Reserve
  <2> QED
    BY <1>2, <2>1, PreparationKept
<1>6. CycleOK'
  <2>1. CASE Rest
    BY <2>1, RestIsIdle, IdleCycle
  <2>2. CASE treasurer' = [treasurer EXCEPT !.pc = "mark"]
    <3>1. treasurer'.pc = "mark" /\ treasurer'.op = o /\ treasurer'.at = treasurer.at
      BY <2>2 DEF TypeOK, Treasurer
    <3>2. TreasurerHasOp' /\ WithinLease'
      BY <1>u, <1>1, <1>o, <3>1 DEF TreasurerHasOp, CycleOK, WithinLease, Outstanding
    <3> QED
      BY <3>1, <3>2 DEF CycleOK, CallIsCurrent, CallIsDated, PlanIsWhole, QuietWhenDeciding, Deciding
  <2> QED
    BY <2>1, <2>2 DEF RecordOutcome
<1> QED
  BY <1>t, <1>2, <1>3, <1>4, <1>5, <1>6, BooksAmended

\* What a request does to the charges of its operation.
LEMMA RequestSends ==
  ASSUME TypeOK, NEW o \in Ops, NEW accepted, NEW c, Requested(o, accepted, c)
  PROVE  /\ \A p \in Ops \ {o} : charge'[p] = charge[p]
         /\ ledger \subseteq ledger'
         /\ charge'[o] = "done" /\ money[o].action \in Topups =>
              [id |-> o, card |-> money[o].card, amount |-> money[o].amount, at |-> clock,
               ok |-> TRUE] \in ledger'
<1>1. CASE /\ charge' = [charge EXCEPT ![o] = "done"]
           /\ money[o].action \notin Openings => c = money[o].card
           /\ Execute(o, c)
  <2>1. money[o].action \in Topups => money[o].action \notin Openings
    BY ActionsApart
  <2> QED
    BY <1>1, <2>1 DEF Execute, TypeOK
<1>2. CASE /\ charge' = [charge EXCEPT ![o] = "late"] \/ charge' = [charge EXCEPT ![o] = "never"]
           /\ ledger \subseteq ledger'
  BY <1>2 DEF TypeOK
<1> QED
  BY <1>1, <1>2 DEF Requested

LEMMA CallSafe ==
  ASSUME IInv, NEW ok \in BOOLEAN, NEW c \in Cards \cup {NoCard}, Call(ok, c)
  PROVE  IInv'
<1> USE DEF IInv, Books
<1>t. TypeOK'
  BY OutcomeType
<1>u. /\ money' = money /\ clock' = clock /\ reserve' = reserve
      /\ worker' = worker /\ dedicated' = dedicated /\ treasurer.pc = "call"
  BY DEF Call, bookVars, orderVars, boundVars, TreasurerAt
<1>p. PICK o \in Ops : o = treasurer.op
  BY <1>u DEF CycleOK, TreasurerHasOp
<1>o. /\ o \in Ops /\ money[o].state = "inflight" /\ money[o].action \in Treasury
      /\ money[o].at = treasurer.at
  BY <1>u, <1>p DEF CycleOK, TreasurerHasOp, CallIsCurrent, CallIsDated
<1>1. /\ \A p \in Ops \ {o} : charge'[p] = charge[p]
      /\ ledger \subseteq ledger'
      /\ charge'[o] = "done" /\ money[o].action \in Topups =>
           [id |-> o, card |-> money[o].card, amount |-> money[o].amount, at |-> clock,
            ok |-> TRUE] \in ledger'
  <2>1. Requested(o, ok, c)
    BY <1>p DEF Call
  <2> QED
    BY <1>o, <2>1, RequestSends
<1>2. money[o].at <= clock /\ clock <= money[o].at + Day
  <2>1. /\ treasurer.at <= clock /\ clock <= treasurer.at + Lease
        /\ treasurer.at \in Nat /\ clock \in Nat /\ Lease \in Nat /\ Day \in Nat /\ Lease <= Day
    BY <1>u, ConstantTypes DEF CycleOK, WithinLease, TypeOK, Treasurer
  <2> QED
    BY <1>o, <2>1
<1>3. ChargesOK'
  <2>1. charge'[o] = "done" /\ money[o].action \in Topups => Entered(o)'
    BY <1>u, <1>1, <1>2 DEF Entered
  <2>2. Recorded(o) /\ money[o].state \notin {"no_charge_verified", "cancelled"}
    BY <1>o DEF Recorded
  <2> QED
    BY <1>o, <1>u, <1>1, <2>1, <2>2, UnchangedAmends, ChargesSent
<1>4. DeskOK'
  <2>1. \A p \in Ops : money[p].action \in {"pro_open", "pro5x_pay_fee"} => charge'[p] = charge[p]
    BY <1>1, <1>o DEF Treasury
  <2> QED
    BY <1>u, <2>1, DeskKept DEF OrdersKept
<1>5. CycleOK'
  <2>1. treasurer'.pc = "record" /\ treasurer'.op = o /\ treasurer'.at = treasurer.at
    BY <1>p DEF Call, TypeOK, Treasurer
  <2>2. TreasurerHasOp' /\ CallIsCurrent' /\ WithinLease'
    BY <1>u, <1>o, <2>1 DEF CycleOK, TreasurerHasOp, CallIsCurrent, WithinLease
  <2> QED
    BY <2>1, <2>2 DEF CycleOK, CallIsDated, PlanIsWhole, QuietWhenDeciding, Deciding
<1> QED
  BY <1>t, <1>u, <1>3, <1>4, <1>5, UnchangedAmends, BooksAmended, PreparationKept

LEMMA TreasurerSafe == ASSUME IInv, TreasurerStep PROVE IInv'
  BY CycleSafe, VerifySafe, ReconcileSafe, SpendSafe, OutcomeSafe, CallSafe DEF TreasurerStep

------------------------------------------------------------------------------
\* The orders.

\* An order's step amends at most its own operation.
LEMMA OrderMoves ==
  ASSUME IInv, TypeOK', NEW d \in Orders, dedicated[d].op \in Ops, Amended,
         \A p \in Ops : money[p].action # "pro_open" \/ p # dedicated[d].op => money'[p] = money[p],
         \A e \in Orders \ {d} : worker'[e] = worker[e],
         \A e \in Orders : dedicated'[e].op = dedicated[e].op,
         worker'[d].pc # "check",
         worker'[d].pc \in {"open", "bind", "poll"} =>
           d \in Pro20 /\ money'[dedicated[d].op].state \in Unresolved,
         \A p \in Ops : p # dedicated[d].op => charge'[p] = charge[p],
         treasurer' = treasurer, clock' = clock, reserve' = reserve
  PROVE  BooksOK' /\ CycleOK' /\ DeskOK' /\ PreparationIsTracked'
<1> USE DEF IInv, Books
<1>1. BooksOK' /\ PreparationIsTracked'
  BY BooksAmended, PreparationKept
<1>2. CycleOK'
  <2>1. money'[dedicated[d].op].action = money[dedicated[d].op].action
    BY DEF Amended
  <2>2. TreasuryKept
    BY <2>1 DEF TreasuryKept, Treasury
  <2> QED
    BY <2>2, CycleKept
<1>3. DeskOK'
  <2>0. \A e \in Pro20 : e \in Orders
    BY DEF Orders
  <2>1. OrdersHaveOps'
    BY DEF DeskOK, OrdersHaveOps, Amended
  <2>2. OrdersApart' /\ WorkersHaveOps'
    BY DEF DeskOK, OrdersApart, WorkersHaveOps
  <2>3. \A e \in Pro20 \ {d} : worker[e].pc # "idle" =>
          dedicated[e].op \in Ops /\ dedicated[e].op # dedicated[d].op
    BY <2>0 DEF DeskOK, OrdersApart, WorkersHaveOps
  <2>4. WorkerIsUnsettled' /\ CheckIsUnsent'
    BY <2>0, <2>3 DEF DeskOK, WorkerIsUnsettled, CheckIsUnsent
  <2> QED
    BY <2>1, <2>2, <2>4 DEF DeskOK
<1> QED
  BY <1>1, <1>2, <1>3

\* The failure of a preparation: its operation, if it was an opening, is left
\* unresolved only if it was.
LEMMA FailingSafe ==
  ASSUME IInv, TypeOK', NEW d \in Orders, NEW state \in {"unknown", "balance_verified", "cancelled"},
         FailWith(d, state), dedicated[d].op \in Ops,
         d \in Pro20 /\ state = "unknown" => money[dedicated[d].op].state \in Unresolved,
         \A p \in Ops : p # dedicated[d].op => charge'[p] = charge[p]
  PROVE  /\ Amended /\ BooksOK' /\ CycleOK' /\ DeskOK' /\ PreparationIsTracked'
         /\ money' = money \/ (d \in Pro20 /\ money' = SetState(dedicated[d].op, state))
         /\ clock' = clock
         /\ state # "cancelled" => NoneWrittenOff
<1> USE DEF IInv, Books
<1>1. /\ treasurer' = treasurer /\ clock' = clock /\ reserve' = reserve
      /\ money' = money \/ (d \in Pro20 /\ money' = SetState(dedicated[d].op, state))
      /\ worker' = [worker EXCEPT ![d] = IdleWorker]
      /\ dedicated' = dedicated \/ dedicated' = [dedicated EXCEPT ![d].state = "review"]
  BY DEF FailWith, aside, WorkerEnds
<1>2. worker'[d].pc = "idle" /\ \A e \in Orders \ {d} : worker'[e] = worker[e]
  BY <1>1 DEF TypeOK, IdleWorker
<1>3. \A e \in Orders : dedicated'[e].op = dedicated[e].op
  <2>1. CASE dedicated' = dedicated
    BY <2>1
  <2>2. CASE dedicated' = [dedicated EXCEPT ![d].state = "review"]
    BY <2>2 DEF TypeOK, Dedicated
  <2> QED
    BY <1>1, <2>1, <2>2
<1>4. PICK o \in Ops : o = dedicated[d].op
  OBVIOUS
<1>5. d \in Pro20 => money[o].action = "pro_open" /\ money[o].state # "none"
  BY <1>4 DEF DeskOK, OrdersHaveOps, BooksOK, NamedWhenRecorded
<1>6. Amended /\ \A p \in Ops \ {o} : money'[p] = money[p]
  <2>1. CASE d \in Pro20 /\ money' = SetState(dedicated[d].op, state)
    <3>1. money' = SetState(o, state)
      BY <1>1, <1>4, <2>1
    <3> QED
      BY <1>4, <1>5, <2>1, <3>1, SetStateIs, StatesApart DEF Amended
  <2>2. CASE money' = money
    BY <1>1, <2>2, UnchangedAmends
  <2> QED
    BY <1>1, <2>1, <2>2
<1>7. \A p \in Ops : money[p].action # "pro_open" \/ p # o => money'[p] = money[p]
  <2>1. CASE d \in Pro20 /\ money' = SetState(dedicated[d].op, state)
    BY <1>5, <1>6, <2>1
  <2>2. CASE money' = money
    BY <1>1, <2>2
  <2> QED
    BY <1>1, <2>1, <2>2
<1>8. state # "cancelled" => NoneWrittenOff
  <2>1. CASE d \in Pro20 /\ money' = SetState(dedicated[d].op, state)
    <3>1. money' = SetState(o, state)
      BY <1>1, <1>4, <2>1
    <3> QED
      BY <3>1, SetStateIs DEF NoneWrittenOff
  <2>2. CASE money' = money
    BY <1>1, <2>2, UnchangedAmends
  <2> QED
    BY <1>1, <2>1, <2>2
<1> QED
  BY <1>1, <1>2, <1>3, <1>4, <1>6, <1>7, <1>8, OrderMoves

LEMMA FailSafe == ASSUME IInv, NEW d \in Orders, Fail(d) PROVE IInv'
<1> USE DEF IInv, Books
<1>t. TypeOK'
  BY PreparingType
<1>u. charge' = charge /\ ledger' = ledger /\ worker[d].pc \in {"check", "bind", "poll", "verified"}
  BY DEF Fail, platformSame
<1>1. PICK o \in Ops : o = dedicated[d].op
  BY <1>u DEF DeskOK, WorkersHaveOps
<1> DEFINE st == SpentWhenFailing(d)
<1>2. /\ st \in {"unknown", "balance_verified", "cancelled"}
      /\ st = "cancelled" => worker[d].pc = "check"
      /\ st = "unknown" => worker[d].pc \in {"bind", "poll"}
  BY DEF SpentWhenFailing, WorkerAt
<1>3. FailWith(d, st)
  BY DEF Fail
<1>4. d \in Pro20 /\ st = "unknown" => money[o].state \in Unresolved
  BY <1>1, <1>2 DEF DeskOK, WorkerIsUnsettled
<1> HIDE DEF st
<1>5. /\ Amended /\ BooksOK' /\ CycleOK' /\ DeskOK' /\ PreparationIsTracked' /\ clock' = clock
      /\ money' = money \/ (d \in Pro20 /\ money' = SetState(o, st))
      /\ st # "cancelled" => NoneWrittenOff
  BY <1>t, <1>u, <1>1, <1>2, <1>3, <1>4, FailingSafe
<1>6. clock' \in Nat /\ clock <= clock'
  BY <1>5 DEF TypeOK
<1>7. ChargesOK'
  <2>1. CASE st # "cancelled" \/ money' = money
    <3>1. NoneWrittenOff
      BY <1>5, <2>1, UnchangedAmends
    <3> QED
      BY <1>u, <1>5, <1>6, <3>1, ChargesKept
  <2>2. CASE st = "cancelled" /\ d \in Pro20 /\ money' = SetState(o, st)
    <3>1. charge[o] = "unsent"
      BY <1>1, <1>2, <2>2 DEF DeskOK, CheckIsUnsent
    <3>2. /\ \A p \in Ops \ {o} : money'[p] = money[p]
          /\ money'[o].state = "cancelled"
      BY <1>5, <2>2, SetStateIs
    <3>3. UnrecordedIsUnsent' /\ RecordIsPast'
      BY <1>u, <1>5 DEF ChargesOK, Amended, UnrecordedIsUnsent, RecordIsPast, Recorded
    <3>4. DoneIsEntered'
      BY <1>u, <1>5 DEF ChargesOK, Amended, DoneIsEntered, Entered
    <3>5. WrittenOffLate'
      BY <1>5, <3>2 DEF ChargesOK, WrittenOffLate
    <3>6. NoChargeIsTrue'
      BY <1>u, <3>1, <3>2 DEF ChargesOK, NoChargeIsTrue, InState
    <3> QED
      BY <3>3, <3>4, <3>5, <3>6 DEF ChargesOK
  <2> QED
    BY <1>5, <2>1, <2>2
<1> QED
  BY <1>t, <1>5, <1>7

LEMMA TakingSafe ==
  ASSUME IInv, NEW d \in Orders, NEW o \in Ops, StartPro20(d, o) \/ ClaimReserve(d, o)
  PROVE  IInv'
<1> USE DEF IInv, Books
<1>t. TypeOK'
  BY TakingType
<1>u. /\ charge' = charge /\ ledger' = ledger /\ clock' = clock /\ treasurer' = treasurer
      /\ ~Recorded(o)
  BY DEF StartPro20, ClaimReserve, platformSame, aside, Fresh
<1>0. clock \in Nat /\ money[o].action = "none" /\ charge[o] = "unsent"
  BY <1>u DEF TypeOK, BooksOK, NamedWhenRecorded, Recorded, ChargesOK, UnrecordedIsUnsent
<1> DEFINE action == IF d \in Pro20 THEN "pro_open" ELSE "pro5x_pay_fee"
           state == IF d \in Pro20 THEN "inflight" ELSE "balance_verified"
<1>1. /\ \E card, amount : /\ RecordsOnly(o, action, card, amount, state, clock)
                           /\ d \in Pro20 => card = NoCard
      /\ d \in Pro20 => ~OpeningUnresolved
      /\ dedicated'[d].op = o /\ worker'[d].pc = "check"
      /\ \A e \in Orders \ {d} : dedicated'[e] = dedicated[e] /\ worker'[e] = worker[e]
      /\ d \in Pro20 => reserve' = reserve
      /\ d \notin Pro20 => reserve.state = "ready"
  <2>1. CASE StartPro20(d, o)
    <3> DEFINE cost == Cost(ProInitial, TRUE) + ApiFee
    <3>0. d \in Pro20 /\ money' = Record(o, "pro_open", NoCard, ProInitial, cost, 0, clock)
      BY <2>1 DEF StartPro20
    <3> HIDE DEF cost
    <3>1. RecordsOnly(o, action, NoCard, ProInitial, state, clock)
      BY <3>0 DEF RecordsOnly, Record, TypeOK, Money
    <3> HIDE DEF action, state
    <3> QED
      BY <2>1, <3>0, <3>1 DEF StartPro20, TypeOK
  <2>2. CASE ClaimReserve(d, o)
    <3>0. d \notin Pro20
      BY <2>2, ConstantTypes DEF ClaimReserve
    <3>1. RecordsOnly(o, action, reserve.card, 0, state, clock)
      <4>1. money' = [Record(o, "pro5x_pay_fee", reserve.card, 0, ApiFee, 0, clock)
                        EXCEPT ![o].state = "balance_verified"]
        BY <2>2 DEF ClaimReserve
      <4> QED
        BY <3>0, <4>1 DEF RecordsOnly, Record, TypeOK, Money
    <3> HIDE DEF action, state
    <3> QED
      BY <2>2, <3>0, <3>1 DEF ClaimReserve, TypeOK
  <2> QED
    BY <2>1, <2>2
<1>2. PICK card, amount : /\ RecordsOnly(o, action, card, amount, state, clock)
                          /\ d \in Pro20 => card = NoCard
  BY <1>1
<1>a. /\ action \in Actions /\ action \notin Treasury /\ action \notin Topups
      /\ state = IF action = "pro5x_pay_fee" THEN "balance_verified" ELSE "inflight"
      /\ state \in {"inflight", "balance_verified"}
      /\ action = "pro_open" => d \in Pro20
  BY DEF Actions, Openings, Topups, Treasury
<1>b. action = IF d \in Pro20 THEN "pro_open" ELSE "pro5x_pay_fee"
  OBVIOUS
<1>s. d \in Pro20 => state \in Unresolved
  BY StatesApart
<1> HIDE DEF action, state
<1>3. BooksOK'
  <2>1. action \in {"open", "pro_open"} => ~OpeningUnresolved
    BY <1>1, <1>b
  <2> QED
    BY <1>u, <1>2, <1>a, <2>1, BooksRecorded
<1>4. ChargesOK'
  BY <1>u, <1>0, <1>2, <1>a, ChargesRecorded
<1>5. CycleOK'
  <2>1. TreasuryKept
    BY <1>0, <1>2, <1>a, ActionsApart DEF TreasuryKept, RecordsOnly
  <2> QED
    BY <1>u, <2>1, CycleKept
<1>6. PreparationIsTracked'
  <2>1. money'[o].action \notin {"pro5x_reserve_open", "pro5x_reserve_topup"}
    BY <1>2, <1>a, ActionsApart DEF RecordsOnly
  <2>2. reserve' = reserve \/ reserve.state \notin {"opening", "funding", "review"}
    BY <1>1
  <2> QED
    BY <1>2, <2>1, <2>2, PreparationRecorded DEF RecordsOnly
<1>7. DeskOK'
  <2>0. /\ \A e \in Pro20 : e \in Orders
        /\ \A e \in Orders \ {d} : dedicated'[e].op = dedicated[e].op /\ worker'[e] = worker[e]
        /\ \A e \in Orders : dedicated[e].op \in Ops => dedicated[e].op # o
        /\ \A p \in Ops \ {o} : money'[p] = money[p]
        /\ money'[o].action = action /\ money'[o].state = state
    BY <1>0, <1>1, <1>2 DEF Orders, DeskOK, OrdersHaveOps, RecordsOnly
  <2>1. OrdersHaveOps'
    BY <1>1, <1>b, <2>0 DEF DeskOK, OrdersHaveOps
  <2>2. OrdersApart'
    BY <1>1, <2>0 DEF DeskOK, OrdersApart
  <2>3. WorkersHaveOps'
    BY <1>1, <2>0 DEF DeskOK, WorkersHaveOps
  <2>4. WorkerIsUnsettled'
    <3> SUFFICES ASSUME NEW e \in Pro20, worker'[e].pc \in {"check", "open", "bind", "poll"}
                 PROVE  money'[dedicated'[e].op].state \in Unresolved
      BY DEF WorkerIsUnsettled
    <3>1. CASE e = d
      BY <1>1, <1>s, <2>0, <3>1
    <3>2. CASE e # d
      BY <2>0, <3>2 DEF DeskOK, WorkerIsUnsettled, WorkersHaveOps
    <3> QED
      BY <3>1, <3>2
  <2>5. CheckIsUnsent'
    <3> SUFFICES ASSUME NEW e \in Pro20, worker'[e].pc = "check"
                 PROVE  charge'[dedicated'[e].op] = "unsent"
      BY DEF CheckIsUnsent
    <3>1. CASE e = d
      BY <1>0, <1>1, <1>u, <3>1
    <3>2. CASE e # d
      BY <1>u, <2>0, <3>2 DEF DeskOK, CheckIsUnsent
    <3> QED
      BY <3>1, <3>2
  <2> QED
    BY <2>1, <2>2, <2>3, <2>4, <2>5 DEF DeskOK
<1> QED
  BY <1>t, <1>3, <1>4, <1>5, <1>6, <1>7

\* Steps of an order that touch neither the platform's charges nor the treasurer.
LEMMA PreparingSafe ==
  ASSUME IInv, NEW d \in Orders, GoOn(d) \/ BindCard(d) \/ SeeBalance(d) \/ Submit(d)
  PROVE  IInv'
<1> USE DEF IInv, Books
<1>t. TypeOK'
  BY PreparingType
<1>u. /\ charge' = charge /\ ledger' = ledger /\ clock' = clock /\ treasurer' = treasurer
      /\ reserve' = reserve
      /\ worker[d].pc \in {"check", "bind", "poll", "verified"}
  BY DEF GoOn, BindCard, SeeBalance, Submit, WorkerAt, platformSame, aside
<1>1. PICK o \in Ops : o = dedicated[d].op
  BY <1>u DEF DeskOK, WorkersHaveOps
<1>2. \A e \in Orders \ {d} : worker'[e] = worker[e]
  BY DEF GoOn, BindCard, SeeBalance, Submit, WorkerGoes, TypeOK
<1>3. \A e \in Orders : dedicated'[e].op = dedicated[e].op
  BY DEF GoOn, BindCard, SeeBalance, Submit, TypeOK, Dedicated
<1>4. /\ money' = money
      \/ /\ worker[d].pc \in {"bind", "poll"}
         /\ \A p \in Ops \ {o} : money'[p] = money[p]
         /\ money'[o].action = money[o].action /\ money'[o].card = money[o].card
         /\ money'[o].amount = money[o].amount /\ money'[o].at = money[o].at
         /\ money'[o].state \in {"pending", "balance_verified"}
         /\ money'[o].state = "balance_verified" => SeeBalance(d)
  <2>1. CASE GoOn(d) \/ Submit(d)
    BY <2>1 DEF GoOn, Submit
  <2>2. CASE BindCard(d)
    <3>1. money' = [money EXCEPT ![o] = [money[o] EXCEPT !.result = worker[d].card,
                                                        !.state = "pending"]]
      BY <1>1, <2>2 DEF BindCard, TypeOK
    <3>2. money[o] \in Money /\ money \in [Ops -> Money]
      BY DEF TypeOK
    <3>3. /\ money'[o] = [money[o] EXCEPT !.result = worker[d].card, !.state = "pending"]
          /\ \A p \in Ops \ {o} : money'[p] = money[p]
      BY <3>1, <3>2
    <3>4. worker[d].pc = "bind"
      BY <2>2 DEF BindCard, WorkerAt
    <3> QED
      BY <3>2, <3>3, <3>4 DEF Money
  <2>3. CASE SeeBalance(d)
    <3>1. money' = SetState(o, "balance_verified") /\ worker[d].pc = "poll"
      BY <1>1, <2>3 DEF SeeBalance, WorkerAt
    <3> QED
      BY <2>3, <3>1, SetStateIs
  <2> QED
    BY <2>1, <2>2, <2>3
<1>5. worker[d].pc \in {"bind", "poll"} =>
        d \in Pro20 /\ money[o].action = "pro_open" /\ money[o].state \in Unresolved
  BY <1>1 DEF DeskOK, WorkersHaveOps, OrdersHaveOps, WorkerIsUnsettled
<1>6. Amended /\ NoneWrittenOff
  <2>1. CASE money' = money
    BY <2>1, UnchangedAmends
  <2>2. CASE money' # money
    BY <1>4, <1>5, <2>2, StatesApart DEF Amended, NoneWrittenOff
  <2> QED
    BY <2>1, <2>2
<1>7. \A p \in Ops : money[p].action # "pro_open" \/ p # o => money'[p] = money[p]
  BY <1>4, <1>5
<1>8. /\ worker'[d].pc # "check"
      /\ worker'[d].pc \in {"open", "bind", "poll"} =>
           d \in Pro20 /\ money'[o].state \in Unresolved
  <2>1. CASE GoOn(d)
    <3>1. worker'[d].pc = IF d \in Pro20 THEN "open" ELSE "verified"
      BY <2>1 DEF GoOn, WorkerGoes, TypeOK, Worker
    <3>2. worker[d].pc = "check" /\ money' = money
      BY <2>1 DEF GoOn, WorkerAt
    <3> QED
      BY <1>1, <3>1, <3>2 DEF DeskOK, WorkerIsUnsettled
  <2>2. CASE BindCard(d)
    <3>1. worker'[d].pc = "poll" /\ worker[d].pc = "bind" /\ ~SeeBalance(d)
      BY <2>2 DEF BindCard, SeeBalance, WorkerAt, WorkerGoes, TypeOK, Worker
    <3>2. money'[o].state \in Unresolved
      BY <1>4, <1>5, <3>1, StatesApart
    <3> QED
      BY <1>5, <3>1, <3>2
  <2>3. CASE SeeBalance(d) \/ Submit(d)
    BY <2>3 DEF SeeBalance, Submit, WorkerGoes, TypeOK, Worker
  <2> QED
    BY <2>1, <2>2, <2>3
<1>9. clock' \in Nat /\ clock <= clock'
  BY <1>u DEF TypeOK
<1>10. ChargesOK'
  BY <1>u, <1>6, <1>9, ChargesKept
<1>11. BooksOK' /\ CycleOK' /\ DeskOK' /\ PreparationIsTracked'
  BY <1>t, <1>u, <1>1, <1>2, <1>3, <1>6, <1>7, <1>8, OrderMoves
<1> QED
  BY <1>t, <1>10, <1>11

LEMMA OpenCardSafe ==
  ASSUME IInv, NEW d \in Orders, NEW ok \in BOOLEAN, NEW c \in Cards \cup {NoCard},
         OpenCard(d, ok, c)
  PROVE  IInv'
<1> USE DEF IInv, Books
<1>t. TypeOK'
  BY PreparingType
<1>1. PICK o \in Ops : o = dedicated[d].op
  BY DEF OpenCard, WorkerAt, DeskOK, WorkersHaveOps
<1>2. /\ worker[d].pc = "open" /\ d \in Pro20 /\ money[o].action = "pro_open"
      /\ money[o].state \in Unresolved
  BY <1>1 DEF OpenCard, WorkerAt, DeskOK, WorkersHaveOps, OrdersHaveOps, WorkerIsUnsettled
<1>3. Requested(o, ok, c)
  BY <1>1 DEF OpenCard
<1>4. (\A p \in Ops \ {o} : charge'[p] = charge[p]) /\ ledger \subseteq ledger'
  BY <1>3, RequestSends
<1>5. Recorded(o) /\ money[o].state \notin {"no_charge_verified", "cancelled"}
      /\ money[o].action \notin Topups
  BY <1>2, StatesApart, ActionsApart DEF Recorded
<1>6. CASE ok
  <2>1. /\ money' = money /\ clock' = clock /\ reserve' = reserve /\ treasurer' = treasurer
        /\ dedicated' = dedicated
        /\ worker' = [worker EXCEPT ![d].pc = "bind", ![d].card = c]
    BY <1>6 DEF OpenCard, aside
  <2>2. worker'[d].pc = "bind" /\ \A e \in Orders \ {d} : worker'[e] = worker[e]
    BY <2>1 DEF TypeOK, Worker
  <2>3. Amended /\ NoneWrittenOff
    BY <2>1, UnchangedAmends
  <2>4. ChargesOK'
    BY <1>4, <1>5, <2>1, <2>3, ChargesSent
  <2>5. BooksOK' /\ CycleOK' /\ DeskOK' /\ PreparationIsTracked'
    BY <1>t, <1>1, <1>2, <1>4, <2>1, <2>2, <2>3, OrderMoves
  <2> QED
    BY <1>t, <2>4, <2>5
<1>7. CASE ~ok
  <2>1. FailWith(d, "unknown")
    BY <1>7 DEF OpenCard
  <2>2. /\ Amended /\ BooksOK' /\ CycleOK' /\ DeskOK' /\ PreparationIsTracked' /\ clock' = clock
        /\ NoneWrittenOff
    BY <1>t, <1>1, <1>2, <1>4, <2>1, FailingSafe
  <2>3. ChargesOK'
    BY <1>4, <1>5, <2>2, ChargesSent
  <2> QED
    BY <1>t, <2>2, <2>3
<1> QED
  BY <1>6, <1>7

LEMMA PayingSafe ==
  ASSUME IInv, NEW d \in Orders,
         \/ PlaceUnheard(d) \/ RecordCompleted(d) \/ RecordFailed(d)
         \/ \E ok \in BOOLEAN : Pay(d, ok)
  PROVE  IInv'
<1> USE DEF IInv, Books
<1>t. TypeOK'
  BY PayingType
<1>u. /\ charge' = charge /\ ledger' = ledger /\ clock' = clock /\ treasurer' = treasurer
      /\ reserve' = reserve
  BY DEF PlaceUnheard, RecordCompleted, RecordFailed, Pay, FailWith, platformSame, aside
<1>0. clock' \in Nat /\ clock <= clock'
  BY <1>u DEF TypeOK
<1>1. CASE PlaceUnheard(d) \/ RecordCompleted(d) \/ RecordFailed(d)
  <2>1. money' = money /\ worker' = worker
    BY <1>1 DEF PlaceUnheard, RecordCompleted, RecordFailed
  <2>2. \A e \in Orders : dedicated'[e].op = dedicated[e].op
    <3>1. CASE PlaceUnheard(d)
      BY <3>1 DEF PlaceUnheard
    <3>2. CASE RecordCompleted(d)
      <4>1. dedicated[d] \in Dedicated /\ dedicated \in [Orders -> Dedicated]
        BY DEF TypeOK
      <4>2. \E st, c : dedicated' = [dedicated EXCEPT ![d] =
                                      [dedicated[d] EXCEPT !.state = st, !.card = c]]
        BY <3>2, <4>1 DEF RecordCompleted
      <4>3. PICK st, c : dedicated' = [dedicated EXCEPT ![d] =
                                         [dedicated[d] EXCEPT !.state = st, !.card = c]]
        BY <4>2
      <4>4. [dedicated[d] EXCEPT !.state = st, !.card = c].op = dedicated[d].op
        BY <4>1 DEF Dedicated
      <4> QED
        BY <4>1, <4>3, <4>4
    <3>3. CASE RecordFailed(d)
      BY <3>3 DEF RecordFailed, TypeOK, Dedicated
    <3> QED
      BY <1>1, <3>1, <3>2, <3>3
  <2>3. DeskOK'
    BY <1>u, <2>1, <2>2, DeskKept DEF OrdersKept
  <2> QED
    BY <1>t, <1>u, <1>0, <2>1, <2>3, UnchangedAmends, BooksAmended, CycleKept, ChargesKept,
       PreparationKept
<1>2. ASSUME NEW ok \in BOOLEAN, Pay(d, ok) PROVE IInv'
  <2>0. PICK o \in Ops : o = dedicated[d].op
    BY <1>2 DEF Pay, WorkerAt, DeskOK, WorkersHaveOps
  <2>1. CASE ok
    <3>1. money' = money /\ dedicated' = dedicated /\ worker' = [worker EXCEPT ![d] = IdleWorker]
      BY <1>2, <2>1 DEF Pay, WorkerEnds
    <3>2. worker'[d].pc = "idle" /\ \A e \in Orders \ {d} : worker'[e] = worker[e]
      BY <3>1 DEF TypeOK, IdleWorker
    <3>3. BooksOK' /\ CycleOK' /\ DeskOK' /\ PreparationIsTracked'
      BY <1>t, <1>u, <2>0, <3>1, <3>2, UnchangedAmends, OrderMoves
    <3>4. ChargesOK'
      BY <1>u, <1>0, <3>1, UnchangedAmends, ChargesKept
    <3> QED
      BY <1>t, <3>3, <3>4
  <2>2. CASE ~ok
    <3>1. FailWith(d, "balance_verified")
      BY <1>2, <2>2 DEF Pay
    <3>2. /\ Amended /\ BooksOK' /\ CycleOK' /\ DeskOK' /\ PreparationIsTracked'
          /\ NoneWrittenOff
      BY <1>t, <1>u, <2>0, <3>1, FailingSafe
    <3>3. ChargesOK'
      BY <1>u, <1>0, <3>2, ChargesKept
    <3> QED
      BY <1>t, <3>2, <3>3
  <2> QED
    BY <2>1, <2>2
<1> QED
  BY <1>1, <1>2

LEMMA OrderSafe == ASSUME IInv, DedicatedStep PROVE IInv'
  BY TakingSafe, FailSafe, PreparingSafe, OpenCardSafe, PayingSafe DEF DedicatedStep

LEMMA RestartSafe == ASSUME IInv, Restart PROVE IInv'
<1> USE DEF IInv, Books
<1>t. TypeOK'
  BY RestartType
<1>u. /\ charge' = charge /\ ledger' = ledger /\ clock' = clock /\ treasurer'.pc = "idle"
      /\ \A d \in Orders : worker'[d].pc = "idle"
  BY DEF Restart, upVars, IdleTreasurer, IdleWorker
<1>1. \A o \in Ops : \/ money'[o] = money[o]
                     \/ /\ money[o].state \in {"inflight", "pending"}
                        /\ money'[o] = [money[o] EXCEPT !.state = "unknown"]
  BY DEF Restart, RestartedMoney
<1>2. Amended /\ NoneWrittenOff
  <2>1. \A m \in Money : LET n == [m EXCEPT !.state = "unknown"] IN
          /\ n.action = m.action /\ n.card = m.card /\ n.amount = m.amount /\ n.at = m.at
          /\ n.state = "unknown"
    BY DEF Money
  <2>2. \A o \in Ops : money[o] \in Money
    BY DEF TypeOK
  <2> QED
    BY <1>1, <2>1, <2>2, StatesApart DEF Amended, NoneWrittenOff, BooksOK, FeesArePaid
<1>3. \A d \in Orders : dedicated'[d].op = dedicated[d].op
  BY DEF Restart, TypeOK, Dedicated
<1>4. DeskOK'
  <2>0. \A d \in Pro20 : d \in Orders
    BY DEF Orders
  <2>1. OrdersHaveOps' /\ OrdersApart'
    BY <1>2, <1>3 DEF DeskOK, OrdersHaveOps, OrdersApart, Amended
  <2>2. WorkersHaveOps' /\ WorkerIsUnsettled' /\ CheckIsUnsent'
    BY <1>u, <2>0 DEF WorkersHaveOps, WorkerIsUnsettled, CheckIsUnsent
  <2> QED
    BY <2>1, <2>2 DEF DeskOK
<1>5. PreparationIsTracked'
  <2>1. reserve' = reserve \/ (reserve'.op = reserve.op /\ reserve'.state = "review")
    BY DEF Restart, TypeOK, Reserve
  <2> QED
    BY <1>2, <2>1, PreparationKept
<1>6. clock' \in Nat /\ clock <= clock'
  BY <1>u DEF TypeOK
<1> QED
  BY <1>t, <1>u, <1>2, <1>4, <1>5, <1>6, BooksAmended, IdleCycle, ChargesKept

LEMMA UnchangedSafe == ASSUME IInv, UNCHANGED vars PROVE IInv'
<1> USE DEF vars, bookVars, orderVars, upVars, procVars, boundVars
<1>1. TypeOK'
  BY DEF IInv, Books, TypeOK
<1>2. BooksOK' /\ DeskOK' /\ ChargesOK'
  BY TreasurerFrame
<1>3. CycleOK' /\ PreparationIsTracked'
  BY UnchangedAmends, CycleKept, PreparationKept DEF IInv, Books
<1> QED
  BY <1>1, <1>2, <1>3 DEF IInv, Books

------------------------------------------------------------------------------
(* The inductive invariant. *)
LEMMA Invariance == Spec => []IInv
<1>1. Init => IInv
  BY SafeInit
<1>2. IInv /\ [Next]_vars => IInv'
  <2> SUFFICES ASSUME IInv, [Next]_vars PROVE IInv'
    OBVIOUS
  <2>1. CASE TreasurerStep
    BY <2>1, TreasurerSafe
  <2>2. CASE DedicatedStep
    BY <2>2, OrderSafe
  <2>3. CASE Restart
    BY <2>3, RestartSafe
  <2>4. CASE UNCHANGED vars
    BY <2>4, UnchangedSafe
  <2>5. CASE \/ \E o \in Ops, c \in Cards : LateCharge(o, c)
             \/ \E c \in Cards : OrdinaryPayment(c) \/ \E a \in ManualAmounts : ManualTopup(c, a)
             \/ \E d \in Orders, outcome \in {"completed", "failed"} : SettlePro(d, outcome)
             \/ \E paused \in BOOLEAN, b \in Budgets : SavePolicy(paused, b)
             \/ Tick
    BY <2>5, OutsideSafe
  <2> QED
    BY <2>1, <2>2, <2>3, <2>4, <2>5 DEF Next
<1> QED
  BY <1>1, <1>2, PTL DEF Spec

\* A set without two different members has at most one.
LEMMA AtMostOne == ASSUME NEW S, \A x, y \in S : x = y PROVE Cardinality(S) <= 1
<1>1. CASE S = {}
  BY <1>1, FS_EmptySet
<1>2. CASE S # {}
  <2>1. PICK x \in S : TRUE
    BY <1>2
  <2>2. S = {x}
    BY <2>1
  <2> QED
    BY <2>2, FS_Singleton
<1> QED
  BY <1>1, <1>2

(* Every table and local variable stays in its domain; in particular amounts,
   balances and deadlines are never negative, whatever was recharged or paid. *)
THEOREM TypeCorrect == Spec => []TypeOK
<1>1. IInv => TypeOK
  BY DEF IInv, Books
<1> QED
  BY <1>1, Invariance, PTL

(* At most one opening of the ordinary and the pro_20x flow is unresolved: the
   condition of their INSERTs cannot be undone later, since nothing that is
   resolved - verified, cancelled, failed - becomes unresolved again.          *)
THEOREM OpeningsOneByOne == Spec => []OneOpening
<1>1. IInv => OneOpening
  <2> SUFFICES ASSUME IInv PROVE OneOpening
    OBVIOUS
  <2> DEFINE S == InState(Unresolved) \cap OfAction({"open", "pro_open"})
  <2>1. \A x, y \in S : x = y
    BY DEF IInv, Books, BooksOK, OneCardOpening, OpeningCard, InState, OfAction
  <2> HIDE DEF S
  <2>2. Cardinality(S) <= 1
    BY <2>1, AtMostOne
  <2> QED
    BY <2>2 DEF OneOpening, S
<1> QED
  BY <1>1, Invariance, PTL

(* The treasurer has at most one operation unresolved, although its INSERT asks
   about openings only: it decides only in a cycle that found nothing unresolved
   of its own, and nobody else adds to that.                                    *)
THEOREM OperationsOneByOne == Spec => []OneOperationAtATime
<1>1. IInv => OneOperationAtATime
  <2> SUFFICES ASSUME IInv PROVE OneOperationAtATime
    OBVIOUS
  <2> DEFINE S == InState(Unresolved) \cap OfAction(Actions \ {"pro_open"})
  <2>1. \A x \in S : x \in Ops /\ Outstanding(x)
    BY StatesApart DEF IInv, Books, BooksOK, FeesArePaid, Outstanding, Treasury, InState, OfAction
  <2>2. \A x, y \in S : x = y
    BY <2>1 DEF IInv, Books, BooksOK, OneOutstanding
  <2> HIDE DEF S
  <2>3. Cardinality(S) <= 1
    BY <2>2, AtMostOne
  <2> QED
    BY <2>3 DEF OneOperationAtATime, S
<1> QED
  BY <1>1, Invariance, PTL

(* The row of the prepared card names the operation that is not resolved, and
   offers no card, through errors, lost answers and restarts.                 *)
THEOREM PreparationStaysTracked == Spec => []PreparationIsTracked
<1>1. IInv => PreparationIsTracked
  BY DEF IInv
<1> QED
  BY <1>1, Invariance, PTL

(* What is written off as not charged has not been charged and never will be,
   provided that the platform executes and enters a recharge within Day.      *)
THEOREM WriteOffsAreTrue == Spec => []NoChargeIsTrue
<1>1. IInv => NoChargeIsTrue
  BY DEF IInv, ChargesOK
<1> QED
  BY <1>1, Invariance, PTL
=============================================================================
