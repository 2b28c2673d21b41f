------------------------------ MODULE Treasurer ------------------------------
(***************************************************************************)
(* The maintenance cycle of the cards' money (automation_money.go,         *)
(* pro5x_reserve.go): read the inventory, verify the operations that are   *)
(* not resolved, prepare the pro_5x card, top one card up or open one.     *)
(* One goroutine, one cycle at a time, at most one new operation a cycle.  *)
(***************************************************************************)
EXTENDS MoneyState

TreasurerAt(pc) == treasurer.pc = pc
Rest == treasurer' = IdleTreasurer(clock)
Calling(o) == treasurer' = [IdleTreasurer(treasurer.at) EXCEPT !.pc = "call", !.op = o]
elsewhere == <<code, dedicated, used, charge, made, balance, ledger, paid, worker,
               clock, events>>

------------------------------------------------------------------------------
\* The beginning of a cycle.

\* The lease is taken, the policy read, the unresolved operations counted.  The
\* goroutine's timer keeps two cycles apart.
BeginCycle ==
  LET uncertain == InState({"inflight", "unknown"}) # {}
      unsettled == InState(Unresolved) # {}
  IN /\ TreasurerAt("idle") /\ clock > treasurer.at
     /\ moneyAfter <= clock
     /\ moneyAfter' = clock + Lease
     /\ treasurer' = IF ~unsettled /\ policy.paused
                     THEN IdleTreasurer(clock)
                     ELSE [IdleTreasurer(clock) EXCEPT
                             !.pc = "scan", !.version = policy.version,
                             !.paused = policy.paused, !.unsettled = unsettled,
                             !.uncertain = uncertain]
     /\ UNCHANGED <<money, evidence, policy, pool, reserve, elsewhere>>

\* The inventory is read, then the operations old enough to be verified.
Scan ==
  /\ TreasurerAt("scan")
  /\ treasurer' = [treasurer EXCEPT !.pc = "verify", !.view = Inventory,
                     !.todo = {o \in InState({"pending", "unknown"}) :
                                  money[o].at < clock - Settle}]
  /\ UNCHANGED <<bookVars, elsewhere>>

\* A failing query, a wallet below its floor, prices that changed, a switch that
\* is off, a random number that cannot be drawn: the cycle ends.
GiveUp ==
  /\ treasurer.pc \in {"scan", "reserve", "fund", "insert"}
  /\ Rest
  /\ UNCHANGED <<bookVars, elsewhere>>

------------------------------------------------------------------------------
\* Verification: verifyMoneyOperationsForScope, for one operation.

IsDue(o) == /\ TreasurerAt("verify") /\ o \in treasurer.todo
            /\ \A p \in treasurer.todo : o <= p
Checked(o) == treasurer' = [treasurer EXCEPT !.todo = @ \ {o}]

\* An accepted operation whose card shows the balance expected.
SeenInBalance(o) ==
  /\ money[o].state = "pending"
  /\ Target(o) # NoCard
  /\ treasurer.view[Target(o)] >= money[o].before + money[o].amount

\* The entries of the card's recharge ledger that may be the operation's.
Entries(o) ==
  {e \in ledger :
     /\ e.card = money[o].card /\ e.amount = money[o].amount
     /\ e.at >= money[o].at
     /\ e.at <= money[o].at + (IF money[o].state = "unknown" THEN Day ELSE Quarter)}
Successes(o) == {e \in Entries(o) : e.ok}

\* A card opened for ordinary payments is enrolled once it is confirmed, unless
\* the list changed meanwhile or is full.
Enrolled(o) ==
  IF money[o].action = "open" /\ ~policy.paused
  THEN {pool, pool \cup {Target(o)}} ELSE {pool}

ConfirmByBalance(o) ==
  /\ IsDue(o)
  /\ SeenInBalance(o)
  /\ money' = SetState(o, "balance_verified")
  /\ pool' \in Enrolled(o)
  /\ Checked(o)
  /\ UNCHANGED <<evidence, policy, reserve, moneyAfter, elsewhere>>

\* An entry confirms one operation only (UNIQUE upstream_id).
ConfirmByLedger(o) ==
  /\ IsDue(o)
  /\ ~SeenInBalance(o)
  /\ money[o].action \in Topups
  /\ \E e \in ledger :
       /\ Successes(o) = {e}
       /\ \A p \in Ops : evidence[p] # e.id
       /\ evidence' = [evidence EXCEPT ![o] = e.id]
  /\ money' = SetState(o, "balance_verified")
  /\ Checked(o)
  /\ UNCHANGED <<policy, pool, reserve, moneyAfter, elsewhere>>

\* Mutant: the ledger is believed complete as soon as for an accepted operation.
ProveNoChargeEarly(o) ==
  /\ IsDue(o)
  /\ money[o].state = "unknown" /\ money[o].action = "topup"
  /\ clock - money[o].at >= Quarter
  /\ Entries(o) = {}
  /\ treasurer.view[money[o].card] \in 0 .. money[o].before
  /\ money' = SetState(o, "no_charge_verified")
  /\ Checked(o)
  /\ UNCHANGED <<evidence, policy, pool, reserve, moneyAfter, elsewhere>>

\* A day later the ledger is complete: without an entry, and with a balance that
\* never rose, nothing was charged.
ProveNoCharge(o) ==
  /\ IsDue(o)
  /\ money[o].state = "unknown" /\ money[o].action = "topup"
  /\ clock - money[o].at >= Day
  /\ Entries(o) = {}
  /\ treasurer.view[money[o].card] \in 0 .. money[o].before
  /\ money' = SetState(o, "no_charge_verified")
  /\ Checked(o)
  /\ UNCHANGED <<evidence, policy, pool, reserve, moneyAfter, elsewhere>>

\* No proof, or a ledger that cannot be read.
LeaveUnresolved(o) ==
  /\ IsDue(o)
  /\ ~SeenInBalance(o)
  /\ Checked(o)
  /\ UNCHANGED <<bookVars, elsewhere>>

------------------------------------------------------------------------------
\* Reconciliation of the prepared card and of the enrolled cards.

Shows(c, amount) == c # NoCard /\ treasurer.view[c] >= amount

\* reconcilePro5xReserve: the state that the inventory and the ledger call for.
NextReserveState ==
  LET verified == reserve.op # NoOp /\ money[reserve.op].state = "balance_verified"
      unclear  == reserve.op # NoOp /\ money[reserve.op].state = "unknown"
      funded   == Shows(reserve.card, Pro5xInitial)
  IN CASE reserve.state = "review" /\ verified /\ funded -> "ready"
       [] reserve.state = "funding" /\ unclear -> "review"
       [] reserve.state = "funding" /\ verified /\ funded -> "ready"
       [] reserve.state = "ready" /\ ~funded -> "review"
       [] OTHER -> reserve.state

\* reconcileCreatedCardEnrollment: cards to be found on the payment list.
Enrollable ==
  {c \in Cards : /\ treasurer.view[c] # Missing
                 /\ ~Prepared(c) /\ ~HeldByOrder(c)
                 /\ \/ \E o \in Ops : money[o].action = "open" /\ money[o].result = c
                                      /\ money[o].state = "balance_verified"
                    \/ \E i \in DOMAIN used : used[i] = c}

\* Mutant: only openings stop the cycle.
ReconcileOpeningsOnly ==
  /\ TreasurerAt("verify") /\ treasurer.todo = {}
  /\ reserve' = [reserve EXCEPT !.state = NextReserveState]
  /\ treasurer' = IF OpeningUnresolved THEN IdleTreasurer(clock)
                  ELSE [treasurer EXCEPT !.pc = "reserve", !.uncertain = FALSE]
  /\ UNCHANGED <<money, evidence, policy, pool, moneyAfter, elsewhere>>

\* New money is spent only in a cycle that began, and still is, without an
\* unresolved operation.
Reconcile ==
  /\ TreasurerAt("verify") /\ treasurer.todo = {}
  /\ IF treasurer.uncertain
        /\ InState({"inflight", "unknown"}) \cap OfAction({"open", "pro_open"}) # {}
     THEN Rest /\ UNCHANGED <<pool, reserve, moneyAfter>>
     ELSE /\ reserve' = [reserve EXCEPT !.state = NextReserveState]
          /\ moneyAfter' = IF reserve.state = "funding" /\ NextReserveState = "ready"
                           THEN 0 ELSE moneyAfter
          /\ pool' \in IF treasurer.paused THEN {pool} ELSE {pool, pool \cup Enrollable}
          /\ IF treasurer.unsettled \/ OpeningUnresolved
             THEN Rest
             ELSE treasurer' = [treasurer EXCEPT !.pc = "reserve", !.uncertain = FALSE]
  /\ UNCHANGED <<money, evidence, policy, elsewhere>>

------------------------------------------------------------------------------
\* The prepared card: maintainPro5xReserve.

\* The card of the pro_5x order completed last, if it is still there.
Reusable == IF used # <<>> /\ treasurer.view[Head(used)] # Missing
            THEN Head(used) ELSE NoCard

MayPrepare == /\ TreasurerAt("reserve")
              /\ ~treasurer.paused /\ Pro5 # {}
              /\ reserve.state = "empty"

\* What each statement that records an operation for the prepared card requires.
PreparationAllowed(cost) ==
  /\ ReservedSince(treasurer.at - Day) + cost <= ProBudget
  /\ InState(Unresolved) = {}
  /\ policy.version = treasurer.version

ReuseAsItIs ==
  /\ MayPrepare /\ Reusable # NoCard
  /\ treasurer.view[Reusable] = Pro5xInitial
  /\ reserve' = [card |-> Reusable, op |-> NoOp, state |-> "ready"]
  /\ Rest
  /\ UNCHANGED <<money, evidence, policy, pool, moneyAfter, elsewhere>>

\* Only a product whose recharge is free is used.
ReuseAfterTopup(o) ==
  LET amount == Pro5xInitial - treasurer.view[Reusable]
  IN /\ MayPrepare /\ Fresh(o) /\ Reusable # NoCard
     /\ amount >= Step
     /\ PreparationAllowed(amount)
     /\ money' = Record(o, "pro5x_reserve_topup", Reusable, amount, amount,
                        treasurer.view[Reusable], treasurer.at)
     /\ reserve' = [card |-> Reusable, op |-> o, state |-> "funding"]
     /\ Calling(o)
     /\ UNCHANGED <<evidence, policy, pool, moneyAfter, elsewhere>>

PrepareNewCard(o) ==
  LET cost == Cost(Pro5xInitial, TRUE)
  IN /\ MayPrepare /\ Fresh(o) /\ Reusable = NoCard
     /\ PreparationAllowed(cost)
     /\ OpenedSince(treasurer.at - Day, Openings) < DailyOpen
     /\ money' = Record(o, "pro5x_reserve_open", NoCard, Pro5xInitial, cost, 0, treasurer.at)
     /\ reserve' = [card |-> NoCard, op |-> o, state |-> "opening"]
     /\ Calling(o)
     /\ UNCHANGED <<evidence, policy, pool, moneyAfter, elsewhere>>

\* Nothing to prepare, or not now.
LeaveReserve ==
  /\ TreasurerAt("reserve")
  /\ treasurer' = [treasurer EXCEPT !.pc = "fund", !.enrolled = pool]
  /\ UNCHANGED <<bookVars, elsewhere>>

------------------------------------------------------------------------------
\* Ordinary funding.

\* Mutant: cards of dedicated orders are not spared.
ChooseAnyCard(c) ==
  LET amount == IF Floor - treasurer.view[c] < Step THEN Step ELSE Floor - treasurer.view[c]
  IN /\ TreasurerAt("fund")
     /\ c \in treasurer.enrolled \cup {used[i] : i \in DOMAIN used}
     /\ treasurer.view[c] \in 0 .. Floor - 1
     /\ treasurer.view[c] + amount <= Ceiling
     /\ treasurer' = [treasurer EXCEPT !.pc = "insert", !.view = NoView,
                        !.plan = [action |-> "topup", card |-> c, amount |-> amount,
                                  cost |-> Cost(amount, FALSE), before |-> treasurer.view[c]]]
     /\ UNCHANGED <<bookVars, elsewhere>>

\* A card of the payment list that is low, not prepared for, and not held by, a
\* dedicated order.  The order of preference is left open, as is the need.
ChooseTopup(c) ==
  LET amount == IF Floor - treasurer.view[c] < Step THEN Step ELSE Floor - treasurer.view[c]
  IN /\ TreasurerAt("fund")
     /\ c \in treasurer.enrolled \cup {used[i] : i \in DOMAIN used}
     /\ ~Prepared(c) /\ ~HeldByOrder(c)
     /\ treasurer.view[c] \in 0 .. Floor - 1
     /\ treasurer.view[c] + amount <= Ceiling
     /\ treasurer' = [treasurer EXCEPT !.pc = "insert", !.view = NoView,
                        !.plan = [action |-> "topup", card |-> c, amount |-> amount,
                                  cost |-> Cost(amount, FALSE), before |-> treasurer.view[c]]]
     /\ UNCHANGED <<bookVars, elsewhere>>

\* A new card, unless one opened earlier still waits to be enrolled.
ChooseOpening ==
  /\ TreasurerAt("fund")
  /\ \A o \in OfAction({"open"}) : money[o].result \in treasurer.enrolled \cup {NoCard}
                                     \cup {used[i] : i \in DOMAIN used}
  /\ InitAmount <= Ceiling
  /\ treasurer' = [treasurer EXCEPT !.pc = "insert", !.view = NoView,
                     !.plan = [action |-> "open", card |-> NoCard, amount |-> InitAmount,
                               cost |-> Cost(InitAmount, TRUE), before |-> 0]]
  /\ UNCHANGED <<bookVars, elsewhere>>

\* Mutant: an unresolved opening does not stop another.
InsertBesideOpening(o) ==
  LET p == treasurer.plan
  IN /\ TreasurerAt("insert") /\ Fresh(o)
     /\ ~policy.paused /\ policy.version = treasurer.version
     /\ p.cost <= MaxOperation
     /\ ReservedSince(treasurer.at - Day) + p.cost <= policy.budget
     /\ pool = treasurer.enrolled
     /\ money' = Record(o, p.action, p.card, p.amount, p.cost, p.before, treasurer.at)
     /\ Calling(o)
     /\ UNCHANGED <<evidence, policy, pool, reserve, moneyAfter, elsewhere>>

\* The operation is recorded, under everything that may have changed since the
\* decision: the policy, the budget, the openings, the orders on the card and
\* the payment list.
Insert(o) ==
  LET p == treasurer.plan
  IN /\ TreasurerAt("insert") /\ Fresh(o)
     /\ ~policy.paused /\ policy.version = treasurer.version
     /\ 0 < p.cost /\ p.cost <= MaxOperation
     /\ ReservedSince(treasurer.at - Day) + p.cost <= policy.budget
     /\ ~OpeningUnresolved
     /\ p.action = "open" => OpenedSince(treasurer.at - Day, Openings) < DailyOpen
     /\ \A d \in Orders : code[d].card = p.card /\ p.card # NoCard
                            => code[d].status \notin {"reserved", "review"}
     /\ pool = treasurer.enrolled
     /\ money' = Record(o, p.action, p.card, p.amount, p.cost, p.before, treasurer.at)
     /\ Calling(o)
     /\ UNCHANGED <<evidence, policy, pool, reserve, moneyAfter, elsewhere>>

------------------------------------------------------------------------------
\* The call, and the record of its outcome.

Call(ok, c) ==
  /\ TreasurerAt("call")
  /\ Requested(treasurer.op, ok, c)
  /\ treasurer' = [treasurer EXCEPT !.pc = "record", !.ok = ok]
  /\ UNCHANGED <<bookVars, orderVars, paid, worker, boundVars>>

\* With an answer the operation is pending and the card known, without one it is
\* unknown.  The prepared card's row follows in the same transaction in the first
\* case, by a statement of its own in the second.
RecordOutcome ==
  LET o == treasurer.op
      preparing == reserve.op = o
  IN /\ TreasurerAt("record")
     /\ money' = [money EXCEPT
                    ![o].state  = IF treasurer.ok THEN "pending" ELSE "unknown",
                    ![o].result = IF treasurer.ok THEN made[o] ELSE @]
     /\ reserve' = IF preparing /\ treasurer.ok /\ reserve.state = "opening"
                   THEN [reserve EXCEPT !.card = made[o], !.state = "funding"]
                   ELSE reserve
     /\ IF preparing /\ ~treasurer.ok
        THEN treasurer' = [treasurer EXCEPT !.pc = "mark"]
        ELSE Rest
     /\ UNCHANGED <<evidence, policy, pool, moneyAfter, elsewhere>>

MarkForReview ==
  /\ TreasurerAt("mark")
  /\ reserve' = IF reserve.op = treasurer.op
                THEN [reserve EXCEPT !.state = "review"] ELSE reserve
  /\ Rest
  /\ UNCHANGED <<money, evidence, policy, pool, moneyAfter, elsewhere>>

TreasurerStep ==
  \/ BeginCycle \/ Scan \/ GiveUp \/ Reconcile \/ ReuseAsItIs \/ LeaveReserve
  \/ ChooseOpening \/ RecordOutcome \/ MarkForReview
  \/ \E o \in Ops : \/ ConfirmByBalance(o) \/ ConfirmByLedger(o) \/ ProveNoCharge(o)
                    \/ LeaveUnresolved(o) \/ ReuseAfterTopup(o) \/ PrepareNewCard(o)
                    \/ Insert(o)
  \/ \E c \in Cards : ChooseTopup(c)
  \/ \E ok \in BOOLEAN, c \in Cards \cup {NoCard} : Call(ok, c)
=============================================================================
