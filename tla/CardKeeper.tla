----------------------------- MODULE CardKeeper ------------------------------
(***************************************************************************)
(* The maintenance of the payment cards (maintainAutomationCards,          *)
(* automation_lifecycle.go): topping a card up, deleting a retired one     *)
(* upstream, and what a restart of the server makes of the tables.  One    *)
(* goroutine at a time holds the maintenance lease.                        *)
(* Of the top-ups only what they mean to a card is here - it is held until *)
(* the operation is resolved; the money itself is another model's subject. *)
(***************************************************************************)
EXTENDS ShopState

KeeperAt(pc) == keeper.pc = pc
KeeperReturn == keeper' = IdleKeeper
keeperSame == <<codeVars, policy, onSale, admin, wins, declined, order, calls,
                handler, poller, restarts>>

\* removeRetiredCardFromSettings, a compare-and-swap tried three times.
WithoutCard(s, k) == [s EXCEPT !.pool = @ \ {k}]

------------------------------------------------------------------------------
\* Top-ups.

\* An idle card in need is chosen, and the policy and settings remembered.  While
\* any operation is unresolved no new one is begun.
TopupChoose(k) ==
  /\ KeeperAt("idle")
  /\ ~policy.paused /\ settings.enabled
  /\ held = {}
  /\ k \in settings.pool \cap Fundable /\ lifecycle[k] = "active" /\ ~CardBusy(k)
  /\ keeper' = [pc |-> "topup", card |-> k, version |-> policy.version, cred |-> settings]
  /\ UNCHANGED <<keeperSame, settings, lifecycle, held, deleted>>

\* Mutant: the card chosen is trusted to be still idle.
TopupReserveChosen ==
  /\ KeeperAt("topup")
  /\ policy.version = keeper.version /\ settings = keeper.cred
  /\ lifecycle[keeper.card] = "active"
  /\ held' = held \cup {keeper.card}
  /\ KeeperReturn
  /\ UNCHANGED <<keeperSame, settings, lifecycle, deleted>>

\* The operation is recorded, if nothing it depends on has changed.
TopupReserve ==
  LET k == keeper.card
  IN /\ KeeperAt("topup")
     /\ policy.version = keeper.version
     /\ settings = keeper.cred
     /\ ~CardBusy(k)
     /\ lifecycle[k] = "active"
     /\ held' = held \cup {k}
     /\ KeeperReturn
     /\ UNCHANGED <<keeperSame, settings, lifecycle, deleted>>

\* A card's operation is confirmed, or rejected, later.
MoneyResolved(k) ==
  /\ k \in held
  /\ held' = held \ {k}
  /\ UNCHANGED <<keeperSame, keeper, settings, lifecycle, deleted>>

------------------------------------------------------------------------------
\* Retirement: processQueuedCardRetirement.

\* Mutant: a queued card is deleted at once.
RetireChooseAtOnce(k) ==
  /\ KeeperAt("idle")
  /\ lifecycle[k] = "queued" /\ k \notin deleted /\ ~policy.paused
  /\ keeper' = [pc |-> "retire", card |-> k, version |-> policy.version, cred |-> NoSettings]
  /\ UNCHANGED <<keeperSame, settings, lifecycle, held, deleted>>

RetireChoose(k) ==
  /\ KeeperAt("idle")
  /\ lifecycle[k] = "queued"
  /\ NoPendingCharge(k)
  /\ k \notin held
  /\ k \notin deleted
  /\ ~policy.paused
  /\ keeper' = [pc |-> "retire", card |-> k, version |-> policy.version, cred |-> NoSettings]
  /\ UNCHANGED <<keeperSame, settings, lifecycle, held, deleted>>

\* The claim that precedes the call is conditional on the queue state only.
RetireClaim ==
  LET k == keeper.card
  IN /\ KeeperAt("retire")
     /\ lifecycle[k] = "queued"
     /\ lifecycle' = [lifecycle EXCEPT ![k] = "inflight"]
     /\ keeper' = [keeper EXCEPT !.pc = "deleting"]
     /\ UNCHANGED <<keeperSame, settings, held, deleted>>

\* AutomationDeleteCard takes effect at the platform.
PlatformDeletes ==
  /\ KeeperAt("deleting")
  /\ keeper.card \notin deleted
  /\ deleted' = deleted \cup {keeper.card}
  /\ UNCHANGED <<keeperSame, keeper, settings, lifecycle, held>>

RetireClosed ==
  LET k == keeper.card
  IN /\ KeeperAt("deleting")
     /\ k \in deleted
     /\ lifecycle' = [lifecycle EXCEPT ![k] = IF @ = "inflight" THEN "closed" ELSE @]
     /\ keeper' = [keeper EXCEPT !.pc = "forget"]
     /\ UNCHANGED <<keeperSame, settings, held, deleted>>

\* An error from the call: the card may be gone all the same.
RetireUnknown ==
  LET k == keeper.card
  IN /\ KeeperAt("deleting")
     /\ lifecycle' = [lifecycle EXCEPT ![k] = IF @ = "inflight" THEN "unknown" ELSE @]
     /\ KeeperReturn
     /\ UNCHANGED <<keeperSame, settings, held, deleted>>

RetireForget ==
  /\ KeeperAt("forget")
  /\ settings' = WithoutCard(settings, keeper.card)
  /\ KeeperReturn
  /\ UNCHANGED <<keeperSame, lifecycle, held, deleted>>

KeeperGivesUp ==
  /\ keeper.pc \in {"topup", "retire", "forget"}
  /\ KeeperReturn
  /\ UNCHANGED <<keeperSame, settings, lifecycle, held, deleted>>

\* The operator closes a card by hand when its deletion is unclear.
OperatorDeletes(k) ==
  /\ lifecycle[k] = "unknown"
  /\ deleted' = deleted \cup {k}
  /\ UNCHANGED <<keeperSame, keeper, settings, lifecycle, held>>

\* reconcileRetiredCards: a retiring card missing from the inventory is closed
\* and leaves the settings; one still there cannot have been deleted for sure.
ReconcileRetired(k) ==
  /\ KeeperAt("idle")
  /\ \/ /\ lifecycle[k] \in {"queued", "inflight", "unknown"}
        /\ k \in deleted
        /\ lifecycle' = [lifecycle EXCEPT ![k] = "closed"]
        /\ settings' \in {settings, WithoutCard(settings, k)}
     \/ /\ lifecycle[k] = "inflight"
        /\ k \notin deleted
        /\ lifecycle' = [lifecycle EXCEPT ![k] = "unknown"]
        /\ UNCHANGED settings
  /\ UNCHANGED <<keeperSame, keeper, held, deleted>>

------------------------------------------------------------------------------
\* A crash takes every goroutine; InitLocalCDK runs before the server serves
\* again, and queues the cards whose recorded declines it counts to two.
Restart ==
  /\ restarts < MaxRestarts
  /\ restarts' = restarts + 1
  /\ handler' = [h \in Handlers |-> IdleHandler]
  /\ poller' = [p \in Pollers |-> IdlePoller]
  /\ KeeperReturn
  /\ lifecycle' = [k \in Cards |->
       IF lifecycle[k] = "active" /\ TwoCodesDeclined(k, declined)
         THEN "queued" ELSE lifecycle[k]]
  /\ UNCHANGED <<codeVars, configVars, declined, held, wins, upVars>>

KeeperNext ==
  \/ \E k \in Cards : \/ TopupChoose(k) \/ MoneyResolved(k) \/ RetireChoose(k)
                      \/ OperatorDeletes(k) \/ ReconcileRetired(k)
  \/ TopupReserve \/ RetireClaim \/ PlatformDeletes \/ RetireClosed
  \/ RetireUnknown \/ RetireForget \/ KeeperGivesUp
  \/ Restart
=============================================================================
