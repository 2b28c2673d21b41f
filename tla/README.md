# A formal model of the card shop

The repository is a shop that sells memberships by redemption code. A customer
enters a code and an account; the server reserves a prepaid payment card, asks an
upstream payment platform to place an order on it, and follows that order until it
is settled. Around this run a watcher of orders, an automatic treasurer that tops
up, opens and closes cards, and a number of reports and forms.

The TLA+ modules here model the part in which money and codes can go wrong: what
is reserved, charged for, delivered, retried and released when handlers, pollers,
the treasurer, the platform and crashes interleave. TLC checks small instances;
TLAPS proves every invariant and every action property that the passing runs check, for
every number of codes, cards, handlers, pollers, operations, orders, visits, queries,
messages and snapshots, and that the redemption and the outbox implement their abstract
specifications; the liveness properties are model-checked only.

## 1. The system

All server state is in one SQLite database; a transaction, or a single statement
outside one, is atomic. Requests are served by goroutines that read the database,
call the platform over HTTP for seconds or minutes, and write afterwards. Nothing
is locked meanwhile: the writes are compare-and-swaps. One background goroutine
(`StartAutomation`) runs every 30 s: it polls the orders that are due, then
maintains the cards.

| Component | State | Operations | Hard parts |
|---|---|---|---|
| Local code redemption (`handler/local_cdk.go`) | `local_cdks`, settings, policy, products | issue, preview, preflight, redeem, disable, configure | double submission, stale lists and switches, an error that says nothing |
| Order synchronisation (`handler/automation.go`, `local_cdk.go`, `local_card_cycles.go`) | `local_cdks.status`, `automation_watch`, `local_card_cycles` | watch, query the result, reconcile | late and repeated answers, lost order numbers |
| Card retirement (`handler/automation_lifecycle.go`) | `automation_card_lifecycle`, `automation_card_declines` | record a decline, queue, claim, delete, reconcile | choice and claim apart, unclear deletions |
| Start-up migration (`db/local_cdk.go`) | all of them | `InitLocalCDK` | crash at any point, rules that differ from the running server's |
| Automatic money operations (`handler/automation_money.go`) | `automation_money` | reserve, recharge, open, verify, enrol | budget, leases, unclear results |
| Dedicated pro cards (`handler/pro_dedicated.go`, `pro5x_*.go`) | `pro_dedicated_orders`, `pro5x_card_reserve` | open a card for one order, prepare one in advance | three goroutines, recovery |
| Marketplace completion outbox (`handler/marketplace_completion_bridge.go`) | `marketplace_local_cdk_bindings`, `marketplace_completion_outbox` | bind, enqueue, claim, post, mark, release | binding after completion, lost acknowledgements, leases, refused events |
| Managed activation (`handler/managed_activation.go`, `db/jz_activation.go`) | `managed_activation_attempts` | preview, preflight, submit, query, import | repeated submissions, late and lost answers |
| Public codes (`handler/cardplatform_cdk.go`, `db/db.go`) | `cdk_session_bindings`, `cdk_preflight_grants` | preview, preflight, redeem, result, purge, sweep | windows that end, grants counted before they exist, purges of what was read |
| Stock of platform codes (`cardplatform_cdk.go`, `agent_exchange.go`, `cardplatform/client.go`) | `cardplatform_cdk_codes`, `agent_cdk_exchanges` | issue, recover, list, switch, store, exchange | answers written late, an exchange asked twice |
| Card health (`handler/card_health.go`, `webhook.go`) | `card_fail_events`, `card_blocklist` | webhook, observe, block, unblock | observations that overlap, repeated deliveries, statements that fail halfway |
| Code replacement (`local_code_replacement.go`, `marketplace_cdk_issue.go`) | `local_code_reserve`, `local_code_replacements` | issue for a sale, refill, replace | lost answers, several devices |
| Alerts (`failure_bridge.go`, `notifications.go`) | `automation_alerts`, `notification_outbox` | raise, resolve, tell the store, notify | one row for the alert and the marker, leases, lost answers, settings changed meanwhile |
| Backups (`operations_backup.go`) | a folder of files | back up, rehearse, prune | crash between files, a budget next to a retention |
| Reminders (`customer_expiry_notifications.go`) | `customer_expiry_notifications` | seed, claim, send, record | crash around the call, orders dated anew |
| Reports, administration, web client, scripts | views and preferences | - | see "Not modelled" |

The components meet in the tables. The redemption writes a code's row and the
watcher finishes it; the treasurer and the redemption exclude each other through
`automation_money` and the status of the codes on a card; declines recorded by the
pollers retire cards that the treasurer deletes; a completion puts an event into
the outbox.

What makes them correct:

- redemption: a code is charged for at most once, a card carries one open payment,
  a code with an order is never free again, the switches stop new reservations;
- synchronisation: the final status is the order's, it is written once, its card's
  use is counted once, and it is reached in the end;
- retirement and money: a card is not charged while its balance is being changed;
  nothing new begins on one that is being deleted; declines are not lost;
- managed activation: one request at a time for an attempt, nothing with a task is
  offered for resubmission, a completion keeps its date;
- the outbox: every bound and proven completion is notified, nothing unproven is, and
  an event is closed only when the marketplace has accepted it;
- public codes: one call per attempt, one live order while its query window lasts, an
  open attempt that no preview, purge or late answer removes - as far as the platform's
  tokens tell attempts apart;
- the stock and card health: a code is exchanged only when its latest order looked failed,
  a card is blocked when it has failed often enough and only then;
- code replacement: for every code sold exactly one live code;
- alerts, reminders: nothing is sent twice, nothing is marked as sent unheard;
- backups: a sound restore point once made is not lost to a later failure.

## 2. Modules

| Module | What it is |
|---|---|
| `ShopState` | the tables, the platform's orders and cards, the goroutines' local variables; the domains, `TypeOK`, `Init` |
| `Redeem` | the public handlers and the administrator |
| `OrderSync` | the platform's orders and the three kinds of pollers |
| `CardKeeper` | top-ups as a card sees them, retirement, restart |
| `LocalShop` | composes the three; fairness; the properties |
| `CodePromise` | the abstract specification: what a code's holder and a card's owner are promised |
| `MCLocalShop` | instances for TLC |
| `LocalShopProofs` | type correctness, the inductive invariants and the safety theorems; `LocalShop` implements `CodePromise` |
| `ManagedActivation` | one code of the second provider: its row, visits, submissions, queries |
| `MCManagedActivation`, `ManagedProofs` | its instances and its proofs |
| `CompletionOutbox` | bindings, completions and the events that tell the marketplace |
| `NoticePromise` | the abstract specification: an at-least-once channel |
| `MCCompletionOutbox`, `OutboxProofs` | its instances and its proofs |
| `MoneyState` | the tables of the automatic money operations, the platform's account, cards and recharge ledger |
| `Treasurer` | the maintenance cycle: verify, prepare, top up, open |
| `DedicatedCards` | orders paid with a card of their own, the administrator's policy, restart |
| `MoneyShop` | composes the two with the platform; the properties |
| `MCMoneyShop`, `MoneyProofs` | its instances, the proofs of its invariants |
| `SpendingProofs` | the proofs of its two action properties: the budget, and what a recharge spares |
| `PublicCodes` | one code of the payment platform and all its visitors |
| `MCPublicCodes`, `PublicProofs` | its instances and its proofs |
| `FeedState` | the platform's codes and orders, and the tables about them |
| `CodeStock` | issuing, recovering, probing, switching and exchanging those codes |
| `CardHealth` | webhooks, and the failures observed on cards |
| `PlatformFeed` | composes the three; the properties |
| `CodeReplacement` | codes sold on the marketplace, and their replacement from a reserve |
| `AlertDesk` | the alerts, the bridge to the store, the notifications |
| `Backups` | the backup manager and its folder |
| `Reminders` | the expiry reminders |
| `MCBackOffice` | instances of the last five, one per behaviour |
| `FeedProofs` | the proofs about the feed of the platform |
| `OfficeProofs` | the proofs about code replacement, alerts, backups and reminders |

`Redeem`, `OrderSync` and `CardKeeper` extend `ShopState` and own disjoint sets of
actions over the shared variables, as the Go files own functions over the shared
tables.

### State

| Variable | Code |
|---|---|
| `row[c]` | the row of `local_cdks`: `status`, `card` (`card_id`), `token` (`token_hash`), `pf` (`preflight_hash`), `cred` (`credential_hash`), `request` (`request_id`), `upstream` (`upstream_id` is set) |
| `issued` | fresh random values drawn for a code; a token or preflight is its number |
| `expired` | codes past `expires_at` |
| `settings`, `policy`, `onSale` | `local_cdk_settings`, `automation_policy`, `operations_products.enabled` |
| `lifecycle`, `declined`, `wins` | `retire_state`, `automation_card_declines`, `success_count` |
| `held` | cards with an `inflight`, `pending` or `unknown` row in `automation_money` |
| `order`, `calls`, `deleted` | the platform: an order's state, requests sent, cards closed |
| `handler`, `poller`, `keeper` | where a goroutine is, and the values it read earlier and will use later |

A handler is a sequence of steps (`pc`), one for each stretch between two
database accesses or upstream calls; whatever another goroutine does may come in
between, and the values read before stay in the local record. `cred` is the
settings a preflight was bound to: the code hashes the credential and the settings
together, and the credential of a code never changes. `email` is constant per code.

### What is abstracted

- The cards on offer are a set: `localFairShuffleCards` orders them at random
  within equal history, and the platform may call any card unusable.
- A refusal before the reservation (prices, limits, the seven-day window, a
  failed query, an expired token) is `Refuse`, enabled at every step; a poll that
  finds nothing or fails is `PollGivesUp`.
- Expiry of a preflight and of a code are actions that may happen at any time.
- The platform's order state "failed" is treated by every handler exactly as
  "requires_action" and is included in it. Completed, failed before charge and
  cancelled orders are assumed to be settled for good; declined ones may still
  complete.
- A top-up is a card's membership in `held`; amounts, the ledger and new cards are
  in `MoneyShop`.
- The treasurer is one process: one goroutine under a database lease.
- Left out: issuing codes, pro plans, renewal cancellation, alerts, outcome
  statistics, failing database writes; the event of a completion is in
  `CompletionOutbox`.

`Restart` is a crash at any point followed by `InitLocalCDK`: local state is lost,
tables stay, cards with two recorded declines are queued for deletion.

### Managed activation

`ManagedActivation` stands alone: these codes have their own table and meet the
local ones nowhere. Codes share nothing, so one is modelled. `row` is its row of
`managed_activation_attempts` (`attempt_hash`, whether `preflight_hash` is set,
`status`, `task_id`, whether `submit_claimed_at` is set, `activated_at`); `visit`,
`redeem` and `query` are the local variables of the handlers; `task` and `latest`
are the provider's tasks. Each handler asks the provider first and writes
afterwards, and the row is guarded by what its UPDATE repeats and nothing else.

The provider is external. It is assumed to hold one task per code at a time that has
not failed, to answer queries with the latest task, to answer with one of the five
refusals of `safeManagedRetry` only when it created nothing (a 503 among them, which the
code takes at its word and the model assumes with it), and to settle a task once. `pending`, `submitted` and `manual_review` are one state, "processing". A
history import is one of a completion the provider has. The clean-up at start-up
dates completed rows that have no date; the invariant `CompletedHasTime` says there
are none, so `Crash` only forgets the requests. `plan`, `account_email` and the
expiry, which is a month after `activated_at`, follow their neighbours and are left
out.

### Completion outbox

`CompletionOutbox` meets the shop in one transaction only, the completion of a code
(`Complete`), and stands alone for the rest. `row[c]` is what that transaction and the
binding read of a code: whether it is consumed, whether the consumption was proven by
a direct order (`upstream_completion_verified_at` and `_source`), the bound order.
`event[c]` is the code's row of the outbox - one per code, as `event_id` and `local_id`
are unique; "stale" is a row left "sending" whose lease has run out. `due` holds the unsent
events that are due in the order of `next_attempt_at`, which is all a claim looks at,
and `wait` the time until a released event joins it. `sender` is the dispatcher in the
automation cycle, one goroutine: claim, post, write, up to `Batch` times, ending
at the first failure.

A post ends within 8 s and the lease is 60 s, so the lease of an event on the wire does not
expire. `Loss` is a crash, or a failing write, at any step. The delay of a retry
(30 s to 15 min, by the number of attempts) is any number of ticks up to `MaxDelay`:
the run asks whether the order of retries can matter, not how long they take. The
marketplace is external: it refuses the codes in `Refused` for ever, and otherwise may
accept without being heard. `Historical` codes were consumed before completions were
proven; the watcher may still prove them, because it goes on reading the orders of
consumed codes. Left out: signatures, bindings of managed codes, which create no
event, and codes that fail, which complete no more.

### Automatic money operations and dedicated cards

`MoneyShop` models what `CardKeeper` only shows from a redemption's side. `money[o]` is
a row of `automation_money`, `evidence` the row that ties it to an entry of the
platform's ledger, `moneyAfter` the lease of the cycle, `reserve` the single row of
`pro5x_card_reserve`, `dedicated[d]` a row of `pro_dedicated_orders`, `used` the cards of
`pro5x_card_policy` in the order of `updated_at`. `treasurer` is one execution of
`maintainAutomationCards`: what it read (`view`, `enrolled`, `version`, `unsettled`) and
what it has decided (`plan`) is used steps later, after other goroutines have written.
`worker[d]` is the goroutine of a dedicated order.

Time is a counter of ticks; a cycle ends within its lease (its context has 90 s, the
lease is 300 s), `Quarter` and `Day` are how long a ledger entry is believed to be an
accepted or an unclear operation's, `Settle` the age at which an operation is verified.
Amounts are small numbers with the code's order among them: a new card costs more than a
recharge, a dedicated card more than an ordinary one, a recharge of the prepared card is
free. The platform executes a request at once, later but within a day, or never; an
answer without an error is only given for a request it executes. That it executes nothing
after a day is what the code relies on when it writes an operation off, and is assumed
here. The operator recharges cards by hand at any time, and ordinary orders spend.

Left open instead of modelled: which of the low cards is topped up (renewal dates,
payment capacity, platform exclusions) and how many cards are ready - any
choice the code could make is a choice of the model - and every early return for prices,
products or the wallet (`GiveUp`). An enrolment may always fail (`pool` stays). Left out:
alerts, inventory snapshots, card retirement (in `CardKeeper`), and the administrator's
settlement of an order under review.

### Public codes

`PublicCodes` is one code: its row of `cdk_session_bindings` (`attempt` stands for the
nonce and for `updated_at`, both new at every bind), `elapsed` for the deadline the row
has passed, `grants` for `cdk_preflight_grants`. A preview draws the attempt, so `visit[a]`
is the call of `PublicCDKPreview` that creates `a`; `check`, `redeem` and `query` are the
local variables of the other handlers. Every handler reads the row, calls the platform, and
writes with a condition that repeats part of what it read (`UnchangedSince`, `Pending`,
`OfAttempt`, `StillSnapshot`): which part is what the properties are about. `Purge` is the
purge by code, `PurgeSnapshot` the one of a row found expired earlier, `Sweep` the
ticker's; all erase what identifies the customer and leave the row.

The platform is external. It may give several previews one token (`TokenOf`), as the
comment at `cardplatform_cdk.go:1536` expects after a failed retry or an expiry, and it
answers a question about a token with the last order placed with it (`latest`). An answer may
so be about another attempt's order; `SharesAFailure` names the attempts for which it may be
about a declined one, and the properties except them by that name. "declined"
is a failure that may be resubmitted. No call outlasts its window of a day. `lapsed` is a
history variable: an attempt whose query window of seven days has ended is no longer
protected from replacement, as the code documents.

### The feed of the platform

`FeedState` holds the platform (`upstream`, `order`, `last` order of a code, `feed` the
webhooks still to arrive) and the site's tables: `stored` (`cardplatform_cdk_codes`),
`exchanged` (`agent_cdk_exchanges`), `events` and `blocked`. An order is "stalled" when its
status is none that `orderLooksUnpaid` lists and its stage speaks of a failure
(`agent_exchange.go:93`); it may still end in any way. `ListedAs` and `Detailed` are what the
list and the detail tell of an order: a charge may show in the detail only, and the detail
cannot always be read. `CodeStock` has the handlers
that ask the platform first and write afterwards; `CardHealth` the webhook, which corrects
the stored status and then observes the order's end in a goroutine of its own, statement
by statement. Each statement may fail: without its event an observation leaves nothing
(`InsertFails`), after it the card stays as it is (`ObservationFails`). `ServerStops` ends all
handlers and observations at any point. `replaced`, `pardoned` and `interrupted` - cards with
an observation cut short after its event, and none since that got as far - are history
variables. `crew` is the set of
handlers that act together, chosen at the start: any two of them, as the properties are
broken by two. `EmailFor` leaves open which e-mail an observation resolves - the
session's, the platform's masked one, or none.

### Code replacement

`shelf[c]` is a code's row of `local_cdks`, with the code sold for which it stands; the
codes of a sale are computed from its number, so the identifiers of `Wares` exist before
they are issued. Replacement is one transaction under a mutex, and its model one action:
what is interesting is that the answer can be lost (`told`), that the request is repeated,
and that devices share codes. Spares are random codes, never computed twice.

### Alerts

A row of `automation_alerts` is both an order's alert and the bridge's marker that the
store has been told. `watch[w]` is a poll or a result page between claim, post and record;
a lease ends only when its holder has: the post takes at most 8 s, the lease five minutes.
`outbox[n]` is a row of `notification_outbox`, one for an alert, its text and the version of
the settings, with `dispatch` the dispatcher. `received` and `accepted` are what arrived.
`shift` chooses which orders, troubles, watchers, dispatcher and settings act in a behaviour.

### Backups and reminders

A snapshot is the set of its files: "partial" while it is written, "file" once its rehearsal
has passed, "manifest" once it may be listed. `job` is the holder of the manager's mutex;
it prunes before and after it copies, from a list it read once (`doomed`). A failure can
come at every step, a crash too, and nothing cleans up after a crash. The assumption
`(ManualRetention + 1) * MaxBytes <= Budget` relates sizes that the code leaves to the data:
with the code's three manual backups and 768 MB it says that no snapshot exceeds 192 MB,
and the code accepts none above 128 MB.

An event of `customer_expiry_notifications` belongs to a dated activation, `<<customer,
date>>`, as its id hashes `activated_at` (line 66). `Activate` gives a customer's latest
activation any other date: a later one by a new completion, or a changed or earlier one, for
the mirror of direct orders writes the date again at every sync (`direct_order_mirror.go:123`).
`round` is the cycle under its mutex, with the due events it listed. `RoundSends` may be
taken by the store without being heard; `RoundRecords` may fail unnoticed.

### Coarser than the code

- `PreflightStore` reads the offer of cards and writes the row in one step; the reservation
  repeats what matters, so nothing checked depends on the moment between (`local_cdk.go:642`,
  `:652`).
- `ClaimReserve` has no guard on unresolved openings: the handler looks at the ledger early
  (`local_cdk.go:700`) and the claim does not repeat it (`pro5x_reserve.go:364-404`), so
  the claim may come while one is unresolved. The claim of the prepared card costs a fee and
  is not an opening.
- `FailWith` is the failure closure of a dedicated order: three statements whose errors are
  ignored (`pro_dedicated.go:157-159`), so any subset of them takes effect.
- `CycleBegins` of `AlertDesk` leaves out the 600 s between cycles: cycles may follow at once.
- The stored status of a platform code drives two things only: an exchange is refused for a
  code the site has not stored, and a webhook's failure does not take back a consumed one.
  No property is about it; it is there because those two steps read it.

## 3. Runs

| Run | Instance | Shows |
|---|---|---|
| `exclusive` | 2 codes (plus, go), 1 card, 2 handlers, 1 poller | one open payment per card, one call per code, one open order per card, no code with an order is free; refinement of `CodePromise` |
| `one_code` | 1 code, 2 fair pollers, 1 change by the administrator, 1 crash | outcomes agree with orders, uses counted exactly, commitments stand, the switches stop reservations at once; completed orders are delivered, failures release cards, declines are recorded in the end |
| `retire` | 3 codes of two accounts, 1 fundable card | top-up and payment exclude each other; nothing new begins on a card being deleted, only orders declined before may still charge it |
| `late_completion` | violation | see findings |
| `managed` | 2 visits, 2 submissions, 2 queries, 2 completion times, crashes | one call per attempt; freed attempts have no task; recorded completions keep their time |
| `managed_retry` | violation | see findings |
| `outbox` | 3 codes: good, historical, refused; 3 orders; 2 crashes | every bound and proven completion has its event; only proven ones are heard of; refinement of `NoticePromise`; acceptable events are delivered in the end |
| `dedicated` | a pro_20x order, the treasurer, 2 cards, 2 operations, 3 ticks, 1 restart or change of policy | one opening unresolved; spending within the budget in force, by all flows together |
| `reserve` | a pro_5x order, the prepared card, ordinary funding, 3 operations, 1 restart, change or recharge by hand | one operation at a time; written-off operations are never charged; a preparation is on record; top-ups spare dedicated cards |
| `public` | 3 visits, two with one token, 3 preflights of two accounts, 3 submissions, 1 query, one grant | one call per attempt; one live order, the e-mail of an order of the token, and an open attempt that stands, except where a token shares a failure; grants bounded |
| `back_office` | five parts, one per behaviour (below) | a code is exchanged after its latest order looked failed; a card is blocked when, and only when, it should be, unless an observation was cut short; one live code for a sale; no notice or reminder twice; no marker unheard; restore points stand |
| `exchanged_twice` | violation | see findings |

No run checks a type invariant: `TypeOK` of `LocalShop`, `ManagedActivation`,
`CompletionOutbox`, `MoneyState`, `PublicCodes` and `PlatformFeed`, `ReplacementTypeOK`,
`DeskTypeOK`, `BackupTypeOK` and `ReminderTypeOK` are theorems. `OfficeTypeOK` of
`MCBackOffice` collects those of the back office, and TLC can evaluate any of them under the
same configurations.

Bounds. `MaxIssued` limits tokens and preflights per code: two are a preview and a
preflight. `MaxAdmin` and
`MaxRestarts` limit configuration changes and crashes, `Perishable` and `Fundable`
name the codes that may expire and the cards that may need money. The exclusion
properties are about two codes on one card, so two codes and one card suffice to
break them; retirement needs a third code to be open on a card that two declines
have queued. For a managed code two
submissions suffice to call twice, two visits to replace an attempt, two queries to
write answers in the wrong order, and two times to tell a date that moves. In the
outbox three codes put a good, a historical and a refused event into the queue at once,
with an order to spare for each; a batch of two both continues and ends a cycle; a
delay of two lets retries overtake each other; two losses hit both writes of one
event. For the money operations two operations are what it takes to overspend or to open
twice, a third one follows a preparation and its claim; a day is two ticks, so three ticks
hold an operation, its late execution and its writing off; `MaxEvents` counts recharges by
hand, changes of the policy and restarts together, as each multiplies the states; and a failure
of an order that is written in part (`FailWith`) does not follow such an event, and is followed by
none but the restart that mends it (`FewFaults`). The
`reserve` run starts also with a card that served an order before and one that is prepared
already.

For a public code three visits are needed: one submitted, one that read the row before, and
one that is bound between the two. Two preflights of two accounts fill a grant limit of one
and can mix up e-mails. Two of the visits are given one token (`ReusedToken`), the third has
its own: the first order of the shared token can fail, the second be live and be taken for the
first, and the third be opened beside it. So each visit needs a submission, and each submission
a preflight; `ThirdIsLast` keeps the third preflight until the first two have begun, and leaves
out queries from then on, which the first two attempts have met. 1.9 million states, in two
and a half minutes.

`back_office` unites five parts that share no variable, and `office` chooses one for each
behaviour, so their states add up and do not multiply. Feed: two orders of one code by two
accounts on one card and a threshold of two, so that the second failure blocks; of two
webhooks, a probe, an issue and an exchange two act together, in the pairs of `Pairs`, and
the server may stop at any point; `Fresh` codes are as many as
an issue and an exchange may take; one change by the administrator. Replacement: a sale of two
codes, two spares and a reserve of one, so that a replacement empties and refills it and may
itself be replaced; two devices. Alerts: a failed order with two watchers, or two troubles with
the dispatcher (one when the settings change), with two texts, two versions of the settings, two
tries and two faults. Backups: four snapshots,
two daily and one manual retained, a budget of four units and sizes of one and two: both
the retention and the budget bite. Reminders: one customer, as customers share nothing but
the cycle, with three dates, so that an activation is dated anew before or after its reminder,
later or back to an earlier date, and two restarts.

The proofs do not depend on any bound.

`CHECK_DEADLOCK FALSE`: when every code is settled and every bound is used up the
shop has nothing left to do.

Symmetry is used in safety runs only: handlers and pollers are interchangeable
everywhere, codes where plan and account are the same; in `public` the visits and the
submissions, in `back_office` the webhooks and the unissued codes.

Fairness (`FairSpec`). A poll in progress takes its next step, as every HTTP query
has a timeout. The watcher takes due codes in the order of `next_check` and writes
that column after each attempt, so a code that stays due is loaded again and again
(strong fairness of `WatchLoad`). A query that can succeed is repeated for ever
and eventually succeeds (strong fairness of finding and reading). Nothing is
assumed of customers, the administrator, the platform or the treasurer. The
policy's `sync` switch is assumed to be on for these runs. In the outbox the dispatcher
runs at the end of every cycle, also when `sync` is off (weak fairness of its steps and
of time); and a marketplace that does not refuse an event accepts it, and is
heard, at some attempt if there are infinitely many (strong fairness of `Delivered`).
Neither customers nor the marketplace's bindings are assumed to come. All other runs check
safety, under specifications without fairness.

## 4. Proofs

The shop comes first (`LocalShopProofs`). `TypeCorrect` proves `TypeOK` with `Snapshots`:
what a goroutine remembers of a code, it has one - the step's code is in `Codes`.

The safety properties need these strengthenings, each an invariant of its own with
one step per action:

- `Books`: for every code, what its row says against its order and its caller.
  A code without a request has no order and no call; a handler between reservation
  and call is the only one for its code; the number of calls is one exactly after
  the call. `CalledOnce`, `OrderedStaysLocked` and `CommitmentsAreKept` follow.
- `Reports`: what a poller carries to the write step is still true of the order,
  since a settled order does not change. `OutcomeIsTrue` follows.
- `Ledger`: `wins` is the number of consumed plus codes of each card; the set of
  those codes grows by one element exactly when `PollWrite` counts. `UsesAreExact`
  follows.
- `Exclusion` and `Retirement`: busy codes on different cards, held cards idle,
  cards being deleted idle, with the snapshots the treasurer keeps between choice
  and claim. `CardsAreExclusive`, `OrdersAreExclusive`, `HeldCardsAreIdle`,
  `RetiringCardsTakeNothingNew` and `SwitchesWork` follow. That the claim of a card need
  not repeat the conditions of its choice is the least obvious part: between the
  two a queued card cannot be reserved or funded, because both require "active". What the
  theorem does not say is that a card being deleted cannot be charged: an order that was
  declined may still complete, and the formula names those orders.

`ShopKeepsPromise` maps status to promise and proves every step to be a step of
`CodePromise` or a stutter, from the invariants above.

For the managed activation (`ManagedProofs`) the inductive invariant `IInv` joins to
`TypeOK` and `NotSubmittedIsTrue`: the row is claimed while a request for its attempt
is on its way (`ClaimIsHeld`), no two requests carry one attempt (`RequestsApart`), a
request that has created nothing is of an attempt without a task
(`UntriedHasNoTask`), a token not yet issued has left no trace (`TokensAreFresh`),
and a completed row has a time (`CompletedHasTime`). The hard step is the release of a claim: it may free the
attempt only because the answer it acts on excludes a task, and no other request can
have made one. `CalledOnceAtATime`, `FreedIsUnsubmitted` and `CompletionIsDated`
follow.

For the outbox (`OutboxProofs`) the inductive invariant says, code by code, that a
proof is of a paid and consumed code and an event of a proven and bound one, naming its
order (`Books`); that orders have one code (`BindingsUnique`); that the dispatcher's event
is "sending" and an acceptance it heard was given (`Dispatch`); and that acceptances
(`Heard`) and closed events (`ClosedIsHeard`) agree with the events. One lemma for each
action that writes any of this; `Queued` and `Verified` follow. `OutboxKeepsPromise` maps
events to debts, acceptances to notices and "sent" to closed: `Enqueue` owes, an accepted
post tells, `MarkSent` closes, every other step stutters.

For the public codes (`PublicProofs`) the inductive invariant `IInv` has these parts:
`History` says how the row, the requests and the orders depend on each other - the row's
attempt was bound by its visit (`RowIsBound`), a request works on an attempt that was bound and
submitted (`RequestsUse`), so do an order (`OrdersUse`) and a query (`QueriesUse`), nothing is called for an attempt before
its one request (`CallsAreFirst`, `OneCallPerAttempt`), what a visit remembers of the row was the
row (`SnapshotsAreOld`), and a token's last order is of an attempt with that token
(`LatestIsOwn`). `ClosedStaysClosed`, `ExpiredStaysExpired` and `ProofsHold` say what a visit's
snapshot still proves when it binds: an attempt that it found ended has ended, and of one that it
found failed the order was declined, or that of another attempt with its token. `WindowsAreCounted`
ties the deadlines to `lapsed`, `LiveIsOpen` says that a live attempt within its window is the row's
and submitted, or shares a failure; `AnswersAreTrue`, `EmailIsHeld` and `EmailIsOfTheOrder` that
the accounts carried by requests and queries are those of orders placed with their token. No theorem
assumes anything of the tokens. The exception cannot be dropped: `OneOpenOrder` and
`OpenAttemptStands` without `SharesAFailure`, and `EmailIsOfTheOrder` with the attempt's own order
only, are false in the run's instance (section 5).

For the money operations (`MoneyProofs`) `IInv` has a part for each actor. `BooksOK`: one
operation of the treasurer and one opening at most is unresolved (`OneOutstanding`,
`OneCardOpening`). `CycleOK`: from the INSERT to the record of the answer nobody else resolves
the treasurer's operation (`CallIsCurrent`), it decides only while nothing of its own is unresolved
(`QuietWhenDeciding`: the flag read when the cycle began is still true, since only the treasurer
adds to it), and its clock is within its lease. `DeskOK`: orders have operations of their own
(`OrdersApart`), which stay unresolved until their goroutine sees the balance
(`WorkerIsUnsettled`: an opening of an order has no card in the books, so that the verification
cannot resolve it) and unsent until it opens (`CheckIsUnsent`). `ChargesOK`: a recharge that was
executed is in the ledger within a day (`DoneIsEntered`), so a day later an empty ledger is a
proof. A step either amends the books - fields kept, nothing resolved reopened (`Amended`) - or
records one operation (`RecordsOnly`); each part has one lemma for each of the two, and each
action one lemma that says which it is. The hypothesis that matters is `Lease <= Day`: a call is
made within the cycle that recorded it.

`SpendingProofs` adds the two action properties. For the budget (`BudgetIsKept`) an operation
that becomes recorded has been recorded by one of the five statements (`NewlyRecorded`), each of
which compares what was reserved since a moment of its own with the policy in force. The
treasurer's moment is the beginning of its cycle, which lies before the present: it counts more
operations, never fewer, so what the property counts is bounded by what the statement counted plus
the new reservation (`StaysWithin`). That needs the sum over a set of operations to be what it
should be. `ReservedSince` folds over a set in an order that CHOOSE picks; `TotalIsSum` shows that
it is the one function with `F[{}] = 0` and `F[S] = f[x] + F[S \ {x}]` for every `x` in `S`, and
`TotalGrows` that it grows with the set. The existence of that function is an induction over
`Ops`, done with a least counterexample (`Least`, from the well-foundedness of `<`), since the
library's induction theorems take an operator.

For the recharge (`TopupIsSpared`) the inductive invariant `PInv` says where cards come from. A
card that no pro_20x order has opened is `Spare`; the enrolled cards, those of the list of used
cards, the prepared card and the cards of pro_5x orders are all spare (`ListsAreSpare`,
`RowsAreSpare`), because what the books and the goroutines know of an opened card is what the
platform did (`AnswersOK`), a card is opened by one operation, and a request is sent once
(`RequestsOK`). Hence an order that opens a card of its own never gets the one the treasurer has
chosen. A pro_5x order gets the prepared one, and that is not the chosen card when the choice is
made (`ChooseTopup` looks) nor later, since the row of the prepared card is filled by the treasurer
alone, which is between choice and INSERT (`PlanSpares`). `CardTaken` and `CardGivenBack` say that
a completed pro_5x order has given its card back, so that the choice may ignore it. `OwnCardsStayApart`
is the part of `PInv` that says most by itself: no other flow enrols, prepares or reuses a pro_20x order's card.

For the feed (`FeedProofs`) `Typed` ties an order to the last order of its code, so that an
observation resolves to a known e-mail. `NoMissedBlock` follows from `SuspectIsAlerted`: while a
card has the failures that make it suspect and is neither blocked nor pardoned nor `interrupted`,
some webhook has still to look at it, or has looked and found it suspect. The event that tips the scale comes from
such a webhook, and one that reads a verdict reads it after its own event is in the table; two
webhooks that interleave both find the card suspect, never neither. `BlockIsJustified` needs that
events are of declined orders, one for each (`EventsAreDeclines`, `OneEventEach`), so that the
events counted are no more than the orders declined, and that a webhook which goes on to block has
counted enough (`HooksAreFounded`), which stays true because a declined order stays declined;
what is counted is finite (`FinitelyStarted`). `ExchangeFollowsFailure` follows from what an
exchange knows when it asks for a new code (`ExchangesKnow`): of the orders it was shown those before
the latest are over and none completed, because an open order is the last of its code (`OpenIsLast`);
the latest is what it looked like if that was a failure, was charged if its detail has not been
read, and is left open if it looked stalled. Orders are only added meanwhile (`TriedGrow`), and then
the latest changes, so that an unchanged list means an unchanged latest order.

For code replacement (`OfficeProofs`) `ReplacementInv` says that of the codes that stand for a code
sold one is not replaced (`OneIsLive`), a replaced code is disabled (`ReplacedIsVoid`), a code of
the reserve has not been issued (`ReserveIsUnmade`), and a code stands for one that has been sold,
a sold one for itself (`StandsForSold`). A replacement moves the one live code, whichever of the
codes of its line was asked about and whoever repeats the request.

For the backups `BackupInv` says that what is listed was rehearsed (`ListedIsSound`), what the
holder of the lock has under way (`UnderWay`, `LaterIsEmpty`), and that for everything prune is
about to remove it spares something newer, daily for a daily one (`PruneSpares`). The hard fact is
that the newest backup and the newest daily one are never chosen (`NewestIsKept`,
`NewestDailyIsKept`): what is kept beside them is bounded by `MaxBytes` times the manual ones
(`KeptBound`), and the assumption on `Budget` leaves room for one more. `KeptBytes` is a recursive
function over the snapshots; that it satisfies its equation (`KeptBytesDef`) and the bound are
inductions by a least counterexample as well.

For the alerts (`OfficeProofs`) a message that may still be sent has not arrived
(`QueuedIsUnsent`), the dispatcher sends what it has claimed and only once
(`ClaimIsFresh`), and it queues again only after an explicit refusal (`RetryIsUnsent`); an
acceptance that a watcher carries to the marker was given (`HeardIsTrue`), whoever has written
the row meanwhile. The reminders' proof is alike: a claimed event has not been sent
(`ClaimIsFresh`), and what is recorded is true of it (`AnswerIsTrue`).

The assumptions are the named ASSUMEs of `ManagedActivation` (tokens are distinct from the
reserved ones, times are positive), `CompletionOutbox` (finitely many codes, positive
bounds), `PublicCodes` (names, functions of the right sorts, a positive limit),
`MoneyState` (finitely many cards, natural amounts and times, a lease of at most a day),
`FeedState` (functions of the right sorts, a positive threshold), `CodeReplacement` (spares are
not among the codes sold, a reserve of at least one), `Backups` (positive bounds, and the room
described in section 2), `AlertDesk` and `Reminders` (natural bounds) and `ShopState`: finite
`Codes`, constants of the right sorts, null values outside their domains.

Only model-checked: the liveness properties `CompletedIsDelivered`, `FailureReleasesCard`,
`DeclineIsRecorded` and `CompletionIsNotified`, since fairness and ENABLED are out of the prover's
reach. For the same reason the theorems about `CodePromise` and `NoticePromise` are about their
initial states and steps, which is all that these two specifications consist of.

## 5. Findings

- `late_completion`: an order that is declined first and completes later can find
  its card queued by that very decline; the completion transaction then rolls back
  at every poll and the code stays reserved although the membership is active.

- `managed_retry`: a query's answer is written by code, whatever task it is about. The
  failure of an earlier task, written after a new claim, makes the next preview replace
  an attempt whose task is being created or runs.
- `exchanged_twice`: two exchanges of one failed code run side by side. Both find no record
  of an exchange (`agent_exchange.go:153`), each asks for a new code with an idempotency key of
  its own (245), and the record (276) comes too late: two codes for one.

Met while modelling, without a run of their own: the unconditional write behind
`managed_retry` also takes a completed row back to "processing", after which a history
import moves the date that comments at `jz_activation.go:213` say cannot move; a recharge
by hand of the same card and amount within a day resolves an unclear top-up
(`automation_money.go:745` says an unrelated one cannot); a failed dedicated order's row
keeps its card when the order completes after all, because only submitted rows are
completed (`local_card_cycles.go:297`); and an unclear top-up stops the funding of all cards
(`automation_money.go:307`), while its alert says that other cards are not affected.

- Retirement: the running server retires a card after declines of two distinct accounts
  (`automation_lifecycle.go:106`, and the test at `local_card_cycles_test.go:99`), the
  start-up migration after any two declines (`db/local_cdk.go:263`).
- The prepared card: the next pro_5x card is the one completed last, also while an order that
  claimed it again has not paid yet (`pro5x_reserve.go:125`, `:139`). It is then "ready" but
  cannot be claimed, and after that payment the reserve goes to "review", which without an
  operation of its own it never leaves.
- Public codes: with a token that the platform hands out twice, the answer to a query is
  about another attempt's order (the comment at `cardplatform_cdk.go:1536` expects such tokens;
  the preview does not compare its token with earlier ones): the e-mail written may be that of
  another attempt with the token, and a live order may be taken for the failed one, so that a
  preview replaces its attempt and a second live order is opened. `public` reaches these states;
  its properties name them.
- Alerts: an alert that comes back with the text it had before is not notified again, since its
  notice exists already (`notifications.go:351`, `:531`).
- Failure bridge: a read error overwrites the marker that the store has been told
  (`failure_bridge.go:110`), and the next poll tells it again.
- Card health: a failure whose session is gone counts with the platform's masked e-mail
  (`card_health.go:257`), so one customer can count as two. When the statistics cannot be read
  (`:161`), the block cannot be written (`:199`, only logged) or the server stops after the event
  is stored, the suspect card stays unblocked until one of its failures is observed again.
- Exchange: neither the list nor the detail is repeated before the new code is issued
  (`agent_exchange.go:231-268`), so an old code that is tried again meanwhile may be paid
  and exchanged. An order whose status the function does not know, `requires_action` for one,
  is exchanged when its stage speaks of a failure (`:93-98`), and may complete afterwards. When
  the detail cannot be read, a charge that shows only there is not seen; and of the orders before
  the latest only a completion is looked for (`:223`), not a charge.
- Backups: a crash leaves `.partial` files and snapshots without a manifest, which no prune
  lists; the budget may remove the newest manual backup.
- Reminders: a renewal does not cancel the reminder recorded for the activation before it; and an
  order that the mirror dates anew gets a second event, so its customer may be reminded twice.

Consequences that no text of the repository denies: a card may be charged while its deletion is
under way, by an order that was declined before and completes after all; a crash after a top-up or an ordinary
opening is recorded and before its result is stored leaves it "inflight", which nothing
resolves, and funding stops; an opening without an answer is never verified, as its card is
unknown; a crash between the committed
reservation and the payment call leaves the code and its card reserved for ever,
since nothing distinguishes it from a lost answer; the binding of a local code does not
look at the bindings of managed ones, so one marketplace order can have a code of
each kind; and a code that replaces a failed one is not bound to the failed one's
order, so its completion creates no event unless the marketplace binds it.

## 6. Plan

Done: redemption, synchronisation, retirement and restart; managed activation; the completion
outbox; the automatic money operations, the prepared card and dedicated orders; public codes;
the feed of the platform; code replacement; alerts, backups and reminders. All their invariants
and action properties are proved, their liveness is model-checked.

Left, in this order:

1. A statement about `MoneyShop` and `LocalShop` together, where they share a card.
2. The import of direct orders next to the webhooks (`direct_order_mirror.go`).
3. The pure rules (ranking of products, costs, invoice matching) against reference definitions.

### Not modelled

- The updater (`update.go`) replaces the program and its web files and restarts. Reading it
  shows that a failed update lets the next one start before its own clean-up has run, that
  the version file is written before the program is replaced, and that a crash between two
  renames leaves the site without its web files. A model of it would be one of the file
  system and meets the shop nowhere.
- The mirror of direct orders completes the customer list, and through it the reminders, with
  orders placed outside the shop. An older webhook may overwrite a newer status there
  (`direct_order_mirror.go:112`); nothing that spends or delivers reads it. What it does to
  the reminders - dates that appear, change and come back - is `Activate` of `Reminders`.
- Logins, sessions, rate limits, set-up, routing: request handling with little state.
- Reports, customer lists, finance, insights: read-only views over the tables.
- The web client and the checkout scripts run in a browser and see the server through the
  handlers modelled here, which may be called at any time and in any order.
- Deployment scripts and tools.
