------------------------------ MODULE LocalShop ------------------------------
(***************************************************************************)
(* The redemption shop as a whole: public handlers, order pollers and card *)
(* maintenance over one database and one payment platform, with crashes.   *)
(* The properties are about what a customer is charged for, what a card    *)
(* carries, and what the shop's books say of both.                         *)
(***************************************************************************)
EXTENDS Redeem, OrderSync, CardKeeper

Next == RedeemNext \/ SyncNext \/ KeeperNext

Spec == Init /\ [][Next]_vars

(***************************************************************************)
(* Fairness.  Every query has a timeout, so a poll that has begun ends.    *)
(* The watcher takes due codes in the order of next_check, so no code is   *)
(* passed over for ever; a query that fails is repeated, and the pages of  *)
(* FindDirectOrder are walked in turn, so a query that can succeed         *)
(* eventually does.  Nothing is assumed of the customers, the              *)
(* administrator or the platform's decisions.                              *)
(***************************************************************************)
PollStep(p) == \/ ReconcileBind(p) \/ WatchFind(p) \/ PollGivesUp(p) \/ PollRead(p)
               \/ PollWrite(p) \/ PollWriteFails(p) \/ PollDecline(p)

Fairness ==
  /\ \A p \in Pollers : WF_vars(PollStep(p))
  /\ \A c \in Codes :
       /\ SF_vars(\E p \in Pollers : WatchLoad(p, c))
       /\ SF_vars(\E p \in Pollers : poller[p].code = c /\ (WatchFind(p) \/ PollRead(p)))

FairSpec == Spec /\ Fairness

------------------------------------------------------------------------------
\* Safety.

\* A card carries at most one code whose payment is open, whatever the order of
\* the reservations, preflights and restarts: the swap in LocalCDKRedeem is the
\* only guard, the offer a handler computed earlier may be stale.
OneBusyCodePerCard ==
  \A c, d \in Codes : c # d /\ Busy(c) /\ Busy(d) => row[c].card # row[d].card

\* One code is charged for once: no interleaving of double submissions, errors,
\* reconciliations and crashes makes a second DirectOrder request.
OneCallPerCode == \A c \in Codes : calls[c] <= 1

\* The platform never has two unsettled orders on one card (or one of them still
\* on the wire): the card is not released before its order is known settled.
OneOpenOrderPerCard ==
  \A c, d \in Codes :
    /\ c # d
    /\ order[c] \in Unsettled \cup {"sent"}
    /\ order[d] \in Unsettled \cup {"sent"}
    => row[c].card # row[d].card

\* A code for which an order may exist cannot be redeemed again or withdrawn,
\* also while the order's fate is unknown to the shop.
OrderKeepsCodeLocked ==
  \A c \in Codes : order[c] # "none" => row[c].status \notin {"unused", "disabled"}

\* The final status of a code agrees with its order, although every poller writes
\* what it read some time ago.
OutcomeMatchesOrder ==
  \A c \in Codes : /\ row[c].status = "consumed" => order[c] = "completed"
                   /\ row[c].status = "failed" => order[c] \in {"failed_precharge", "cancelled"}

\* A card is not charged for a code while its balance is being changed: the
\* reservation and the top-up exclude each other in both orders.
HeldCardIsIdle == \A k \in held : ~CardBusy(k)

\* While the deletion of a card is on its way or unclear, nothing new begins on it:
\* no money operation holds it, and of the codes and orders that may still charge
\* it each has a decline recorded before.  The conditions of the choice last until
\* then, although the claim does not repeat them.  (A declined order is not over:
\* it may yet complete, as the run of CompletionIsCommitted shows.)
RetiringCardTakesNothingNew ==
  \A k \in Cards : lifecycle[k] \in {"inflight", "unknown"} =>
    /\ k \notin held
    /\ \A c \in Codes : /\ row[c].card = k
                        /\ Busy(c) \/ order[c] \in Unsettled \cup {"sent"}
                        => c \in declined

\* success_count is the number of delivered plus codes of the card: none counted
\* twice by two pollers, none missed.
UsesAreCounted ==
  \A k \in Cards :
    wins[k] = Cardinality({c \in Codes : /\ row[c].status = "consumed"
                                         /\ PlanOf[c] = "plus"
                                         /\ row[c].card = k})

\* Once reserved, a code keeps its card and request id for good, a final status
\* is never left, and nothing returns to "unused" (the trigger
\* trg_local_cdk_failed_terminal says so of "failed").
CommitmentsStand ==
  [][\A c \in Codes :
       /\ row[c].request # NoHandler => /\ row'[c].request = row[c].request
                                        /\ row'[c].card = row[c].card
                                        /\ row'[c].status \notin {"unused", "disabled"}
       /\ row[c].status \in {"consumed", "failed", "disabled"}
            => row'[c].status = row[c].status]_vars

\* The pause switch and the products' switches work at once: no reservation is
\* made while they are off, also by a handler that checked them before.
SwitchesStopReservations ==
  [][\A c \in Codes : row[c].status = "unused" /\ row'[c].status = "reserved"
       => ~policy.paused /\ OnSale(c) /\ row'[c].card \notin held]_vars

------------------------------------------------------------------------------
\* The promise to the code's holder, under the mapping of statuses below.

Promise(status) == CASE status = "unused"   -> "offered"
                     [] status = "disabled" -> "withdrawn"
                     [] BusyStatus(status)  -> "committed"
                     [] status = "consumed" -> "delivered"
                     [] status = "failed"   -> "void"

CP == INSTANCE CodePromise
        WITH Counted <- {c \in Codes : PlanOf[c] = "plus"},
             promise <- [c \in Codes |-> Promise(row[c].status)],
             on      <- [c \in Codes |-> IF row[c].request = NoHandler
                                           THEN NoCard ELSE row[c].card],
             uses    <- wins

\* Every step of the shop is a step of the promise, or changes nothing in it.
KeepsPromise == CP!Spec

------------------------------------------------------------------------------
\* Liveness.

\* A completed order is delivered to its code in the end, unless the code is a
\* plus code whose card has meanwhile been taken out of service.
CompletedIsDelivered ==
  \A c \in Codes :
    order[c] = "completed" ~>
      \/ row[c].status = "consumed"
      \/ PlanOf[c] = "plus" /\ \E k \in Cards : row[c].card = k /\ lifecycle[k] # "active"

\* A failed order is closed in the end, which releases its card.
FailureReleasesCard ==
  \A c \in Codes : order[c] \in {"failed_precharge", "cancelled"} ~> row[c].status = "failed"

\* A card's refusal is counted against it in the end, also when the server
\* crashes between writing the code's status and recording the decline: the
\* watcher does not stop at a final status.
DeclineIsRecorded ==
  \A c \in Codes : order[c] = "failed_precharge" ~> c \in declined

------------------------------------------------------------------------------
\* What comments and tests say of the code, and the code does not do.

\* "recordAuthoritativeLocalCompletion commits a verified upstream completion":
\* the transaction refuses the completion of a plus code when its card left
\* service after the reservation, and refuses it again at every later poll.
CompletionIsCommitted ==
  \A c \in Codes : order[c] = "completed" ~> row[c].status = "consumed"
=============================================================================
