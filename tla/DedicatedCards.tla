--------------------------- MODULE DedicatedCards ----------------------------
(***************************************************************************)
(* Orders that are paid with a card of their own (pro_dedicated.go,        *)
(* pro5x_redeem.go, claimPro5xReserve): a pro_20x order opens a card and   *)
(* waits for its balance, a pro_5x order claims the prepared card; then    *)
(* the order is placed and its outcome recorded by the watcher.  Each      *)
(* order's preparation runs in a goroutine of its own, which a restart     *)
(* loses.                                                                  *)
(***************************************************************************)
EXTENDS MoneyState

WorkerAt(d, pc) == worker[d].pc = pc
WorkerGoes(d, pc) == worker' = [worker EXCEPT ![d].pc = pc]
WorkerEnds(d) == worker' = [worker EXCEPT ![d] = IdleWorker]
aside == <<evidence, policy, pool, treasurer, clock, events>>
platformSame == <<charge, made, balance, ledger, paid>>

\* valid(): the policy under which the order was taken is still in force.
StillValid(d) == policy.version = worker[d].version /\ ~policy.paused

------------------------------------------------------------------------------
\* Taking an order: one transaction each.

\* Mutant: the budget does not count what the other flows reserved.
StartPro20Unbudgeted(d, o) ==
  LET cost == Cost(ProInitial, TRUE) + ApiFee
  IN /\ d \in Pro20 /\ Fresh(o)
     /\ code[d].status = "unused" /\ ~policy.paused /\ ~OpeningUnresolved
     /\ cost <= ProBudget
     /\ money' = Record(o, "pro_open", NoCard, ProInitial, cost, 0, clock)
     /\ code' = [code EXCEPT ![d].status = "reserved"]
     /\ dedicated' = [dedicated EXCEPT ![d] = [state |-> "opening", card |-> NoCard, op |-> o]]
     /\ worker' = [worker EXCEPT ![d] = [pc |-> "check", version |-> policy.version,
                                         card |-> NoCard]]
     /\ UNCHANGED <<aside, reserve, used, moneyAfter, platformSame>>

\* startProDedicated: the code, the budget and the order's row.
StartPro20(d, o) ==
  LET cost == Cost(ProInitial, TRUE) + ApiFee
  IN /\ d \in Pro20 /\ Fresh(o)
     /\ code[d].status = "unused"
     /\ ~policy.paused
     /\ ~OpeningUnresolved
     /\ ReservedSince(clock - Day) + cost <= ProBudget
     /\ OpenedSince(clock - Day, {"open", "pro_open"}) < DailyOpen
     /\ money' = Record(o, "pro_open", NoCard, ProInitial, cost, 0, clock)
     /\ code' = [code EXCEPT ![d].status = "reserved"]
     /\ dedicated' = [dedicated EXCEPT ![d] = [state |-> "opening", card |-> NoCard, op |-> o]]
     /\ worker' = [worker EXCEPT ![d] = [pc |-> "check", version |-> policy.version,
                                         card |-> NoCard]]
     /\ UNCHANGED <<aside, reserve, used, moneyAfter, platformSame>>

\* startPreparedPro5x and claimPro5xReserve: the prepared card goes to the order and
\* the treasurer is woken.  No two rows of pro_dedicated_orders have one card.  The
\* card's balance was looked at before and may be another by now; so was the ledger
\* for unresolved openings, and the transaction does not ask again.
ClaimReserve(d, o) ==
  /\ d \in Pro5 /\ Fresh(o)
  /\ code[d].status = "unused"
  /\ ~policy.paused
  /\ reserve.state = "ready" /\ reserve.card # NoCard
  /\ ReservedSince(clock - Day) + ApiFee <= ProBudget
  /\ \A e \in Orders : dedicated[e].card # reserve.card
  /\ money' = [Record(o, "pro5x_pay_fee", reserve.card, 0, ApiFee, 0, clock)
                 EXCEPT ![o].state = "balance_verified"]
  /\ dedicated' = [dedicated EXCEPT ![d] = [state |-> "funding", card |-> reserve.card,
                                            op |-> o]]
  /\ code' = [code EXCEPT ![d].status = "reserved", ![d].card = reserve.card]
  /\ reserve' = EmptyReserve
  /\ moneyAfter' = 0
  /\ worker' = [worker EXCEPT ![d] = [pc |-> "check", version |-> policy.version,
                                      card |-> reserve.card]]
  /\ UNCHANGED <<aside, used, platformSame>>

------------------------------------------------------------------------------
\* Failure: whatever the rows say, they are sent to review, by a statement for each;
\* one that fails, or is not reached because the server stops, leaves its row as it is.

FailWith(d, state) ==
  /\ money' \in {money, IF d \in Pro20 THEN SetState(dedicated[d].op, state) ELSE money}
  /\ dedicated' \in {dedicated, [dedicated EXCEPT ![d].state = "review"]}
  /\ code' \in {code, [code EXCEPT ![d].status = "review"]}
  /\ WorkerEnds(d)
  /\ UNCHANGED <<aside, reserve, used, moneyAfter>>

\* Before the opening nothing was spent; until the balance is seen nothing is
\* known; after that the card is funded.
SpentWhenFailing(d) ==
  IF WorkerAt(d, "check") THEN "cancelled"
  ELSE IF WorkerAt(d, "bind") \/ WorkerAt(d, "poll") THEN "unknown"
  ELSE "balance_verified"

\* A check fails, the platform cannot be read, the time is up, a write fails.
Fail(d) ==
  /\ worker[d].pc \in {"check", "bind", "poll", "verified"}
  /\ FailWith(d, SpentWhenFailing(d))
  /\ UNCHANGED platformSame

------------------------------------------------------------------------------
\* runProDedicated: open the card, bind it, wait for its balance.

GoOn(d) ==
  /\ WorkerAt(d, "check")
  /\ StillValid(d)
  /\ WorkerGoes(d, IF d \in Pro20 THEN "open" ELSE "verified")
  /\ UNCHANGED <<aside, money, reserve, moneyAfter, code, dedicated, used, platformSame>>

\* An unclear answer ends the preparation at once.
OpenCard(d, ok, c) ==
  /\ WorkerAt(d, "open")
  /\ Requested(dedicated[d].op, ok, c)
  /\ IF ok
     THEN /\ worker' = [worker EXCEPT ![d].pc = "bind", ![d].card = c]
          /\ UNCHANGED <<aside, money, reserve, moneyAfter, code, dedicated, used, paid>>
     ELSE FailWith(d, "unknown") /\ paid' = paid

BindCard(d) ==
  LET c == worker[d].card
  IN /\ WorkerAt(d, "bind")
     /\ \A e \in Orders \ {d} : dedicated[e].card # c
     /\ dedicated' = [dedicated EXCEPT ![d].card = c, ![d].state = "funding"]
     /\ money' = [money EXCEPT ![dedicated[d].op].result = c,
                               ![dedicated[d].op].state = "pending"]
     /\ code' = [code EXCEPT ![d].card = c]
     /\ WorkerGoes(d, "poll")
     /\ UNCHANGED <<aside, reserve, moneyAfter, used, platformSame>>

SeeBalance(d) ==
  /\ WorkerAt(d, "poll")
  /\ worker[d].card \in Owned /\ balance[worker[d].card] >= ProInitial
  /\ money' = SetState(dedicated[d].op, "balance_verified")
  /\ WorkerGoes(d, "verified")
  /\ UNCHANGED <<aside, reserve, moneyAfter, code, dedicated, used, platformSame>>

\* The order is claimed for payment, if nobody else touched it or its card.
Submit(d) ==
  LET c == worker[d].card
  IN /\ WorkerAt(d, "verified")
     /\ StillValid(d)
     /\ dedicated[d].state = "funding" /\ dedicated[d].card = c
     /\ code[d].status = "reserved" /\ ~code[d].requested
     /\ \A e \in Orders \ {d} :
          code[e].card = c => d \in Pro5 /\ code[e].status \notin {"reserved", "review"}
     /\ dedicated' = [dedicated EXCEPT ![d].state = "submitted"]
     /\ code' = [code EXCEPT ![d].requested = TRUE]
     /\ WorkerGoes(d, "pay")
     /\ UNCHANGED <<aside, money, reserve, moneyAfter, used, platformSame>>

\* The membership order is placed, or the request is lost; without an answer the
\* order goes to review, placed or not.
Pay(d, ok) ==
  /\ WorkerAt(d, "pay")
  /\ \/ paid[d] = "none" /\ paid' = [paid EXCEPT ![d] = "open"]
     \/ (ok => paid[d] # "none") /\ paid' = paid
  /\ IF ok
     THEN WorkerEnds(d)
          /\ UNCHANGED <<aside, money, reserve, moneyAfter, code, dedicated, used>>
     ELSE FailWith(d, "balance_verified")
  /\ UNCHANGED <<charge, made, balance, ledger>>

\* The order is placed while its answer is still on the way: the platform may settle
\* it, and the watcher record that, before the goroutine goes on.
PlaceUnheard(d) ==
  /\ WorkerAt(d, "pay") /\ paid[d] = "none"
  /\ paid' = [paid EXCEPT ![d] = "open"]
  /\ UNCHANGED <<aside, money, reserve, moneyAfter, code, dedicated, used, worker,
                 charge, made, balance, ledger>>

------------------------------------------------------------------------------
\* The watcher: recordAuthoritativeLocalStatus for a dedicated order.

\* A card is in the list once: card_id is the key of pro5x_card_policy.
Without(c) == LET i == CHOOSE i \in DOMAIN used : used[i] = c
              IN SubSeq(used, 1, i - 1) \o SubSeq(used, i + 1, Len(used))
MovedToFront(c) == <<c>> \o (IF \E i \in DOMAIN used : used[i] = c THEN Without(c) ELSE used)

\* A completion is recorded at every poll of a completed order; a pro_5x order
\* then gives its card back.
RecordCompleted(d) ==
  LET done == dedicated[d].state \in {"submitted", "completed"}
      back == d \in Pro5 /\ code[d].card # NoCard
  IN /\ code[d].requested /\ paid[d] = "completed"
     /\ code' = [code EXCEPT ![d].status = "consumed"]
     /\ dedicated' = [dedicated EXCEPT
                        ![d].state = IF done THEN "completed" ELSE @,
                        ![d].card  = IF done /\ back THEN NoCard ELSE @]
     /\ used' = IF back THEN MovedToFront(code[d].card) ELSE used
     /\ UNCHANGED <<aside, money, reserve, moneyAfter, worker, platformSame>>

RecordFailed(d) ==
  /\ code[d].requested /\ paid[d] = "failed"
  /\ code[d].status \in {"reserved", "review", "failed"}
  /\ code' = [code EXCEPT ![d].status = "failed"]
  /\ dedicated' = [dedicated EXCEPT
                     ![d].state = IF @ \in {"submitted", "completed"} THEN "failed" ELSE @]
  /\ UNCHANGED <<aside, money, reserve, moneyAfter, used, worker, platformSame>>

------------------------------------------------------------------------------
\* The administrator, and a restart.

SavePolicy(paused, budget) ==
  /\ events < MaxEvents /\ events' = events + 1
  /\ policy' = [version |-> policy.version + 1, paused |-> paused, budget |-> budget]
  /\ UNCHANGED <<money, evidence, pool, reserve, moneyAfter, orderVars, upVars, procVars,
                 clock>>

\* recoverInterruptedProOrders and recoverInterruptedPro5xReserve: preparations
\* that were under way are sent to review, with what they may have spent.
Interrupted == {d \in Orders : dedicated[d].state \in {"opening", "funding"}}
RestartedMoney ==
  LET opened == {dedicated[d].op : d \in Interrupted}
      prepared == IF reserve.state = "opening" THEN {reserve.op} ELSE {}
  IN [o \in Ops |->
        IF \/ o \in opened /\ money[o].state \in {"inflight", "pending"}
           \/ o \in prepared /\ money[o].state = "inflight"
        THEN [money[o] EXCEPT !.state = "unknown"] ELSE money[o]]

\* Mutant: an opening that was interrupted is forgotten and begun again.
RestartEmptiesReserve ==
  /\ events < MaxEvents /\ events' = events + 1
  /\ reserve' = IF reserve.state = "opening" THEN EmptyReserve ELSE reserve
  /\ treasurer' = IdleTreasurer(0)
  /\ worker' = [d \in Orders |-> IdleWorker]
  /\ UNCHANGED <<money, code, dedicated, evidence, policy, pool, moneyAfter, used, upVars,
                 clock>>

Restart ==
  /\ events < MaxEvents /\ events' = events + 1
  /\ money' = RestartedMoney
  /\ reserve' = IF reserve.state = "opening" /\ money[reserve.op].state = "inflight"
                THEN [reserve EXCEPT !.state = "review"] ELSE reserve
  /\ dedicated' = [d \in Orders |-> IF d \in Interrupted
                                    THEN [dedicated[d] EXCEPT !.state = "review"]
                                    ELSE dedicated[d]]
  /\ code' = [d \in Orders |-> IF d \in Interrupted
                               THEN [code[d] EXCEPT !.status = "review"] ELSE code[d]]
  /\ treasurer' = IdleTreasurer(0)
  /\ worker' = [d \in Orders |-> IdleWorker]
  /\ UNCHANGED <<evidence, policy, pool, moneyAfter, used, upVars, clock>>

DedicatedStep ==
  \E d \in Orders :
    \/ \E o \in Ops : StartPro20(d, o) \/ ClaimReserve(d, o)
    \/ Fail(d) \/ GoOn(d) \/ BindCard(d) \/ SeeBalance(d) \/ Submit(d) \/ PlaceUnheard(d)
    \/ \E ok \in BOOLEAN : Pay(d, ok)
    \/ \E ok \in BOOLEAN, c \in Cards \cup {NoCard} : OpenCard(d, ok, c)
    \/ RecordCompleted(d) \/ RecordFailed(d)
=============================================================================
