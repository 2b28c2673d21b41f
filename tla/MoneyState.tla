----------------------------- MODULE MoneyState ------------------------------
(***************************************************************************)
(* The state of the automatic money operations: the ledger of operations   *)
(* (automation_money and its evidence), the policy, the dedicated orders   *)
(* and the prepared pro_5x card, the platform's cards, requests and        *)
(* recharge ledger, and the local variables of the treasurer and of the    *)
(* goroutines that prepare dedicated cards.                                *)
(* Modules Treasurer and DedicatedCards add the operations, MoneyShop      *)
(* composes them.                                                          *)
(* Amounts are counted in one unit, times in ticks.                        *)
(***************************************************************************)
EXTENDS Integers, FiniteSets, Sequences, FiniteSetsExt

CONSTANTS Cards,          \* cards the account has or may still open
          Stock,          \* the cards it has at the start
          Pro20, Pro5,    \* redemption codes for a pro_20x or pro_5x membership
          MaxOps,         \* bound: money operations ever recorded
          NoCard,
          Floor,          \* the balance an ordinary working card needs
          Step,           \* the platform's smallest recharge
          Ceiling,        \* CardCeiling, the most a card may hold after a top-up
          InitAmount,     \* first balance of an ordinary card
          ProInitial, Pro5xInitial,
          OpenFee, FeePercent, ApiFee,
          MaxOperation,   \* the most one operation may cost
          ProDailyMaximum,
          Budgets,        \* daily budgets the administrator may set
          DailyOpen,      \* openings allowed in a day
          Day, Quarter,   \* how long a late entry of the ledger is believed
          Settle,         \* age at which an operation is verified
          Lease,          \* money_after: distance of two cycles
          Horizon,        \* bound: the clock
          ManualAmounts,  \* what the operator may recharge by hand
          MaxEvents       \* bound: recharges by hand, changes of the policy, restarts

Ops == 1 .. MaxOps
Orders == Pro20 \cup Pro5
NoOp == 0
Missing == -1

ASSUME CardsFinite == IsFiniteSet(Cards)
ASSUME StockIsCards == Stock \subseteq Cards
ASSUME NullApart == NoCard \notin Cards
ASSUME PlansApart == Pro20 \cap Pro5 = {}
ASSUME AmountsAreNat == /\ {Floor, Step, Ceiling, InitAmount, ProInitial, Pro5xInitial,
                            OpenFee, FeePercent, ApiFee, MaxOperation, ProDailyMaximum,
                            DailyOpen} \subseteq Nat
                        /\ Budgets \subseteq Nat /\ Budgets # {}
                        /\ ManualAmounts \subseteq Nat
ASSUME BoundsAreNat == {MaxOps, MaxEvents, Horizon} \subseteq Nat
ASSUME TimesOrdered == /\ {Day, Quarter, Settle, Lease} \subseteq Nat
                       /\ Quarter <= Day /\ Lease <= Day

VARIABLES
  money,       \* automation_money: one record per operation
  evidence,    \* automation_money_evidence: the ledger entry an operation was confirmed by
  policy,      \* automation_policy
  pool,        \* site_settings: the cards enrolled for ordinary payments
  reserve,     \* pro5x_card_reserve
  code,        \* local_cdks: the orders' codes
  dedicated,   \* pro_dedicated_orders
  used,        \* pro5x_card_policy: cards of completed pro_5x orders, by updated_at
  moneyAfter,  \* automation_runtime.money_after
  clock,
  charge,      \* the platform: what became of each operation's request
  made,        \* the platform: the card opened for an operation
  balance,     \* the platform: balances of the cards
  ledger,      \* the platform: the cards' recharge entries
  paid,        \* the platform: the membership order placed for each code
  treasurer,   \* local state of the maintenance goroutine
  worker,      \* local state of each order's goroutine
  events       \* recharges by hand, changes of the policy and restarts so far

bookVars   == <<money, evidence, policy, pool, reserve, moneyAfter>>
orderVars  == <<code, dedicated, used>>
upVars     == <<charge, made, balance, ledger, paid>>
procVars   == <<treasurer, worker>>
boundVars  == <<clock, events>>
vars == <<bookVars, orderVars, upVars, procVars, boundVars>>

------------------------------------------------------------------------------
\* Domains.

Openings == {"open", "pro_open", "pro5x_reserve_open"}
Topups   == {"topup", "pro5x_reserve_topup"}
Actions  == Openings \cup Topups \cup {"pro5x_pay_fee"}
Unresolved  == {"inflight", "pending", "unknown"}
MoneyStates == Unresolved \cup {"balance_verified", "no_charge_verified", "cancelled"}

NoMoney == [action |-> "none", card |-> NoCard, amount |-> 0, reserved |-> 0,
            before |-> 0, state |-> "none", at |-> 0, result |-> NoCard]
Money == [action : Actions \cup {"none"}, card : Cards \cup {NoCard},
          amount : Nat, reserved : Nat, before : Nat,
          state : MoneyStates \cup {"none"}, at : Nat, result : Cards \cup {NoCard}]

\* "late" is a request the platform has but has not executed yet.
Fates == {"unsent", "late", "done", "never"}

EmptyReserve == [card |-> NoCard, op |-> NoOp, state |-> "empty"]
Reserve == [card : Cards \cup {NoCard}, op : Ops \cup {NoOp},
            state : {"empty", "opening", "funding", "ready", "review"}]

Code == [status : {"unused", "reserved", "review", "consumed", "failed"},
         card : Cards \cup {NoCard}, requested : BOOLEAN]
NoDedicated == [state |-> "none", card |-> NoCard, op |-> NoOp]
Dedicated == [state : {"none", "opening", "funding", "submitted", "review",
                       "completed", "failed"},
              card : Cards \cup {NoCard}, op : Ops \cup {NoOp}]

\* "plan" is what the treasurer has decided to do and not yet recorded; "view" the
\* inventory it read, Missing for a card that is not there.
NoPlan == [action |-> "none", card |-> NoCard, amount |-> 0, cost |-> 0, before |-> 0]
Plan == [action : {"none", "topup", "open"}, card : Cards \cup {NoCard},
         amount : Nat, cost : Nat, before : Nat]
NoView == [c \in Cards |-> Missing]
Treasurer == [pc : {"idle", "scan", "verify", "reserve", "fund", "insert", "call",
                    "record", "mark"},
              at : Nat, version : Nat, paused : BOOLEAN, unsettled : BOOLEAN,
              uncertain : BOOLEAN, view : [Cards -> Nat \cup {Missing}],
              enrolled : SUBSET Cards, todo : SUBSET Ops, plan : Plan,
              op : Ops \cup {NoOp}, ok : BOOLEAN]
IdleTreasurer(t) == [pc |-> "idle", at |-> t, version |-> 0, paused |-> FALSE,
                     unsettled |-> FALSE, uncertain |-> FALSE, view |-> NoView,
                     enrolled |-> {}, todo |-> {}, plan |-> NoPlan, op |-> NoOp,
                     ok |-> FALSE]

IdleWorker == [pc |-> "idle", version |-> 0, card |-> NoCard]
Worker == [pc : {"idle", "check", "open", "bind", "poll", "verified", "pay"},
           version : Nat, card : Cards \cup {NoCard}]

TypeOK == /\ money \in [Ops -> Money]
          /\ evidence \in [Ops -> Int]
          /\ policy \in [version : Nat, paused : BOOLEAN, budget : Budgets]
          /\ pool \subseteq Cards
          /\ reserve \in Reserve
          /\ code \in [Orders -> Code]
          /\ dedicated \in [Orders -> Dedicated]
          /\ used \in Seq(Cards)
          /\ moneyAfter \in Nat /\ clock \in Nat
          /\ charge \in [Ops -> Fates]
          /\ made \in [Ops -> Cards \cup {NoCard}]
          /\ balance \in [Cards -> Nat]
          /\ ledger \subseteq [id : Int, card : Cards, amount : Nat, at : Nat, ok : BOOLEAN]
          /\ paid \in [Orders -> {"none", "open", "completed", "failed"}]
          /\ treasurer \in Treasurer
          /\ worker \in [Orders -> Worker]
          /\ events \in Nat

------------------------------------------------------------------------------
\* What the tables say.

Recorded(o) == money[o].state # "none"
\* Identifiers are random; here they are taken in order.
Fresh(o) == o \in Ops /\ ~Recorded(o) /\ \A p \in Ops : p < o => Recorded(p)
InState(S) == {o \in Ops : money[o].state \in S}
OfAction(A) == {o \in Ops : money[o].action \in A}
Since(t) == {o \in Ops : Recorded(o) /\ money[o].at > t}

\* SUM(reserved_minor) of the operations created after t.
ReservedSince(t) == MapThenSumSet(LAMBDA o : money[o].reserved, Since(t))
OpenedSince(t, A) == Cardinality(Since(t) \cap OfAction(A))

\* dedicatedMoneyBlocked, and the NOT EXISTS of the statements that record.
OpeningUnresolved == InState(Unresolved) \cap OfAction({"open", "pro_open"}) # {}

\* A card that an unfinished dedicated order holds, or that is prepared for one.
HeldByOrder(c) == \E d \in Orders :
  /\ dedicated[d].card = c
  /\ ~(d \in Pro5 /\ dedicated[d].state = "completed" /\ code[d].status = "consumed")
Prepared(c) == reserve.card = c /\ reserve.state # "empty"

\* productCost.
Cost(amount, opening) ==
  amount + (IF opening THEN OpenFee ELSE (amount * FeePercent + 99) \div 100)

ProBudget == IF policy.budget > ProDailyMaximum THEN ProDailyMaximum ELSE policy.budget

Record(o, action, card, amount, reserved, before, at) ==
  [money EXCEPT ![o] = [action |-> action, card |-> card, amount |-> amount,
                        reserved |-> reserved, before |-> before,
                        state |-> "inflight", at |-> at, result |-> NoCard]]
SetState(o, state) == [money EXCEPT ![o].state = state]

\* The card an operation is about, as the verification sees it.
Target(o) == IF money[o].action \in {"open", "pro5x_reserve_open"}
             THEN money[o].result ELSE money[o].card

------------------------------------------------------------------------------
\* The platform.

Owned == Stock \cup {made[o] : o \in {p \in Ops : made[p] # NoCard}}
Inventory == [c \in Cards |-> IF c \in Owned THEN balance[c] ELSE Missing]

\* Operation o is executed on card c; a recharge makes an entry, an opening none.
Execute(o, c) ==
  /\ balance' = [balance EXCEPT ![c] = @ + money[o].amount]
  /\ ledger' = IF money[o].action \in Topups
               THEN ledger \cup {[id |-> o, card |-> c, amount |-> money[o].amount,
                                  at |-> clock, ok |-> TRUE]}
               ELSE ledger

\* The request of operation o reaches the platform, or is lost.  An accepted
\* request is executed at once or later; of one without a good answer nobody
\* knows, and a recharge that failed may have left an entry that says so.
Requested(o, accepted, c) ==
  LET opening == money[o].action \in Openings
  IN \/ /\ charge' = [charge EXCEPT ![o] = "done"]
        /\ opening => made' = [made EXCEPT ![o] = c] /\ c \in Cards \ Owned
        /\ ~opening => made' = made /\ c = money[o].card
        /\ Execute(o, c)
     \/ /\ charge' = [charge EXCEPT ![o] = "late"]
        /\ IF opening /\ accepted
           THEN made' = [made EXCEPT ![o] = c] /\ c \in Cards \ Owned
           ELSE made' = made /\ c = money[o].card
        /\ UNCHANGED <<balance, ledger>>
     \/ /\ ~accepted
        /\ charge' = [charge EXCEPT ![o] = "never"]
        /\ c = money[o].card
        /\ ledger' \in {ledger} \cup
             (IF opening THEN {}
              ELSE {ledger \cup {[id |-> o, card |-> c, amount |-> money[o].amount,
                                  at |-> clock, ok |-> FALSE]}})
        /\ UNCHANGED <<made, balance>>

\* A late request is executed, within a day.
LateCharge(o, c) ==
  /\ charge[o] = "late" /\ clock < money[o].at + Day
  /\ IF money[o].action \in Topups
     THEN c = money[o].card /\ made' = made
     ELSE IF made[o] # NoCard THEN c = made[o] /\ made' = made
          ELSE c \in Cards \ Owned /\ made' = [made EXCEPT ![o] = c]
  /\ charge' = [charge EXCEPT ![o] = "done"]
  /\ Execute(o, c)
  /\ UNCHANGED <<bookVars, orderVars, paid, procVars, boundVars>>

\* The operator recharges a card by hand.
ManualTopup(c, amount) ==
  /\ events < MaxEvents /\ events' = events + 1
  /\ c \in Owned
  /\ balance' = [balance EXCEPT ![c] = @ + amount]
  /\ ledger' = ledger \cup {[id |-> -events', card |-> c, amount |-> amount, at |-> clock,
                             ok |-> TRUE]}
  /\ UNCHANGED <<bookVars, orderVars, charge, made, paid, procVars, clock>>

\* An ordinary order is paid with an enrolled card.
OrdinaryPayment(c) ==
  /\ c \in pool /\ ~Prepared(c) /\ ~HeldByOrder(c)
  /\ balance[c] >= Floor
  /\ balance' = [balance EXCEPT ![c] = @ - Floor]
  /\ UNCHANGED <<bookVars, orderVars, charge, made, ledger, paid, procVars, boundVars>>

\* The platform settles a dedicated order; a completed one has used up the card.
SettlePro(d, outcome) ==
  /\ paid[d] = "open"
  /\ paid' = [paid EXCEPT ![d] = outcome]
  /\ IF outcome = "completed"
     THEN balance' = [balance EXCEPT ![code[d].card] = 0]
     ELSE balance' = balance
  /\ UNCHANGED <<bookVars, orderVars, charge, made, ledger, procVars, boundVars>>

\* A cycle's context ends it before its lease does.
Tick == /\ clock < Horizon
        /\ treasurer.pc = "idle" \/ clock < treasurer.at + Lease
        /\ clock' = clock + 1
        /\ UNCHANGED <<bookVars, orderVars, upVars, procVars, events>>
=============================================================================
