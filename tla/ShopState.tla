------------------------------ MODULE ShopState ------------------------------
(***************************************************************************)
(* The state the shop's processes share: the SQLite tables they all read   *)
(* and write, the orders and cards the upstream payment platform keeps,    *)
(* and the local variables of every goroutine that can be caught half-way. *)
(* Modules Redeem, OrderSync and CardKeeper add the operations; module     *)
(* LocalShop composes them.                                                *)
(***************************************************************************)
EXTENDS Integers, FiniteSets

CONSTANTS Codes,            \* redemption codes (rows of local_cdks)
          Cards,            \* payment cards
          Handlers,         \* goroutines serving public HTTP requests
          Pollers,          \* goroutines reading order states upstream
          PlanOf,           \* the plan of each code, "plus" or "go"
          EmailOf,          \* the account e-mail each code is redeemed for
          UnknownEmail,     \* an account e-mail the platform does not tell
          SettingsChoices,  \* local settings the administrator may save
          Fundable,         \* cards that may fall below the top-up threshold
          Perishable,       \* codes whose expiry date falls in the period modelled
          NoCode, NoCard, NoHandler, NoSettings,
          MaxIssued,        \* bound: tokens issued per code
          MaxAdmin,         \* bound: administrator's configuration changes
          MaxRestarts       \* bound: crashes of the server process

Plans == {"plus", "go"}

\* The settings a configuration can hold: cards can also leave the pool when
\* they are retired (removeRetiredCardFromSettings).
Settings == [enabled : BOOLEAN, pool : SUBSET Cards]

ASSUME CodesFinite == IsFiniteSet(Codes)
ASSUME PlansKnown == PlanOf \in [Codes -> Plans]
ASSUME ChoicesAreSettings == SettingsChoices \subseteq Settings
ASSUME FundableAreCards == Fundable \subseteq Cards
ASSUME PerishableAreCodes == Perishable \subseteq Codes
ASSUME NullsDistinct == /\ NoCode \notin Codes
                        /\ NoCard \notin Cards
                        /\ NoHandler \notin Handlers
                        /\ NoSettings \notin Settings
ASSUME BoundsAreNat == /\ MaxIssued \in Nat
                       /\ MaxAdmin \in Nat
                       /\ MaxRestarts \in Nat

VARIABLES
  row,        \* local_cdks: one record per code
  issued,     \* random tokens handed out so far for each code
  expired,    \* codes whose expires_at has passed
  settings,   \* site_settings 'local_cdk_settings'
  policy,     \* automation_policy: version and the paused switch
  onSale,     \* operations_products: the plans enabled for redemption
  lifecycle,  \* automation_card_lifecycle.retire_state
  declined,   \* automation_card_declines: codes with a recorded decline
  held,       \* cards with an unresolved row in automation_money
  wins,       \* local_card_cycles.success_count
  order,      \* the upstream order made for each code
  calls,      \* DirectOrder requests ever sent for each code
  deleted,    \* cards closed upstream
  handler,    \* local state of each HTTP goroutine
  poller,     \* local state of each polling goroutine
  keeper,     \* local state of the card-maintenance goroutine
  admin,      \* configuration changes made so far
  restarts    \* crashes so far

codeVars   == <<row, issued, expired>>
configVars == <<settings, policy, onSale, admin>>
cardVars   == <<lifecycle, declined, held, wins>>
upVars     == <<order, calls, deleted>>
procVars   == <<handler, poller, keeper, restarts>>
vars == <<codeVars, configVars, cardVars, upVars, procVars>>

------------------------------------------------------------------------------
\* Domains.

Statuses == {"unused", "disabled", "reserved", "review", "consumed", "failed"}
RetireStates == {"active", "queued", "inflight", "unknown", "closed"}

\* "sent" is a request on the wire; "lost" one that never arrived.  The platform
\* leaves a settled order alone; an unsettled one may still change.  The state
\* "failed" is treated as "requires_action" is, and is included in it.
Unsettled == {"processing", "requires_action", "declined"}
Settled   == {"completed", "failed_precharge", "cancelled"}
Accepted  == Unsettled \cup Settled
Orders    == Accepted \cup {"none", "sent", "lost"}

Row == [status : Statuses, card : Cards \cup {NoCard}, token : Nat, pf : Nat,
        cred : Settings \cup {NoSettings}, request : Handlers \cup {NoHandler},
        upstream : BOOLEAN]

IdleHandler == [pc |-> "idle", code |-> NoCode, token |-> 0, pf |-> 0,
                cred |-> NoSettings, version |-> 0, offer |-> {}]
HandlerState == [pc : {"idle", "preview", "preflight", "checked", "listed",
                       "reserved", "calling"},
                 code : Codes \cup {NoCode}, token : Nat, pf : Nat,
                 cred : Settings \cup {NoSettings}, version : Nat,
                 offer : SUBSET Cards]

\* "status" is the status loaded, then the one to write (localState); "decline"
\* says that the order read is one to count against the card.
IdlePoller == [pc |-> "idle", code |-> NoCode, status |-> "unused", decline |-> FALSE]
PollerState == [pc : {"idle", "bind", "find", "read", "write", "decline"},
                code : Codes \cup {NoCode}, status : Statuses, decline : BOOLEAN]

IdleKeeper == [pc |-> "idle", card |-> NoCard, version |-> 0, cred |-> NoSettings]
KeeperState == [pc : {"idle", "topup", "retire", "deleting", "forget"},
                card : Cards \cup {NoCard}, version : Nat,
                cred : Settings \cup {NoSettings}]

TypeOK == /\ row \in [Codes -> Row]
          /\ issued \in [Codes -> Nat]
          /\ expired \subseteq Codes
          /\ settings \in Settings
          /\ policy \in [version : Nat, paused : BOOLEAN]
          /\ onSale \subseteq Plans
          /\ lifecycle \in [Cards -> RetireStates]
          /\ declined \subseteq Codes
          /\ held \subseteq Cards
          /\ wins \in [Cards -> Nat]
          /\ order \in [Codes -> Orders]
          /\ calls \in [Codes -> Nat]
          /\ deleted \subseteq Cards
          /\ handler \in [Handlers -> HandlerState]
          /\ poller \in [Pollers -> PollerState]
          /\ keeper \in KeeperState
          /\ admin \in Nat
          /\ restarts \in Nat

------------------------------------------------------------------------------
\* What the tables say.

\* A code in these states occupies its card.
BusyStatus(s) == s \in {"reserved", "review"}
Busy(c) == BusyStatus(row[c].status)
CardBusy(k) == \E c \in Codes : Busy(c) /\ row[c].card = k

OnSale(c) == PlanOf[c] \in onSale

\* A code that can still be redeemed.
Redeemable(c) == row[c].status = "unused" /\ c \notin expired /\ OnSale(c)

\* The order in which the cards are tried is random (localFairShuffleCards), so
\* the offer is a set.  A card the platform reports unusable only shortens the
\* offer, which the free choice from the set covers.
Available(s) == {k \in s.pool : lifecycle[k] = "active" /\ k \notin held /\ ~CardBusy(k)}

\* Every busy code of card k has a decline recorded: the deletion of a card waits
\* for the others, and for money operations on it.
NoPendingCharge(k) == \A c \in Codes : Busy(c) /\ row[c].card = k => c \in declined

\* Two declines of card k from different, known accounts.
TwoAccountsDeclined(k, S) ==
  \E c, d \in S : /\ row[c].card = k /\ row[d].card = k
                  /\ EmailOf[c] # EmailOf[d]
                  /\ EmailOf[c] # UnknownEmail /\ EmailOf[d] # UnknownEmail

\* Two declines of card k, whoever they come from.
TwoCodesDeclined(k, S) == \E c, d \in S : c # d /\ row[c].card = k /\ row[d].card = k

Init == /\ row = [c \in Codes |-> [status |-> "unused", card |-> NoCard, token |-> 0,
                                   pf |-> 0, cred |-> NoSettings,
                                   request |-> NoHandler, upstream |-> FALSE]]
        /\ issued = [c \in Codes |-> 0]
        /\ expired = {}
        /\ settings \in SettingsChoices
        /\ policy = [version |-> 1, paused |-> FALSE]
        /\ onSale = Plans
        /\ lifecycle = [k \in Cards |-> "active"]
        /\ declined = {}
        /\ held = {}
        /\ wins = [k \in Cards |-> 0]
        /\ order = [c \in Codes |-> "none"]
        /\ calls = [c \in Codes |-> 0]
        /\ deleted = {}
        /\ handler = [h \in Handlers |-> IdleHandler]
        /\ poller = [p \in Pollers |-> IdlePoller]
        /\ keeper = IdleKeeper
        /\ admin = 0
        /\ restarts = 0
=============================================================================
