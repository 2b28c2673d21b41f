------------------------------ MODULE FeedState ------------------------------
(***************************************************************************)
(* Codes and orders as the payment platform has them, the webhooks it      *)
(* sends about them, and what this site keeps: the stored status of its    *)
(* codes (cardplatform_cdk_codes), the exchanges made (agent_cdk_exchanges)*)
(* and the failures and blocks of cards (card_fail_events, card_blocklist).*)
(* CodeStock and CardHealth are the components that work on this state.    *)
(***************************************************************************)
EXTENDS Naturals, FiniteSets

CONSTANTS Codes, Fresh,        \* all codes, and those not issued yet
          Orders, Cards,
          CodeOf, CardOf,      \* of an order
          AccountOf,           \* the account an order is for
          PlatformEmail,       \* the email the platform tells of that account
          UnknownEmail,
          Hooks,               \* concurrent deliveries and observations
          Issuers, Exchangers, Probes,
          Crews,               \* the handlers that one behaviour has at work
          FailThreshold, RequireKnownEmail,
          Copies,              \* deliveries of one webhook
          MaxAdmin             \* administrators' changes

NoOrder == "no_order"
NoCode == "no_code"

ASSUME FreshAssumption == Fresh \subseteq Codes /\ NoCode \notin Codes
ASSUME OrdersAssumption ==
  /\ NoOrder \notin Orders
  /\ CodeOf \in [Orders -> Codes] /\ CardOf \in [Orders -> Cards]
ASSUME PolicyAssumption ==
  /\ FailThreshold \in Nat \ {0} /\ RequireKnownEmail \in BOOLEAN
  /\ Copies \in Nat /\ MaxAdmin \in Nat

ASSUME CrewsAssumption ==
  Crews \subseteq SUBSET (Hooks \cup Issuers \cup Exchangers \cup Probes)

VARIABLES upstream,   \* [Codes -> the platform's status of the code]
          order,      \* [Orders -> the platform's state of the order]
          last,       \* [Codes -> its last order, or NoOrder]
          feed,       \* [Orders -> webhooks about its end still to arrive]
          stored,     \* [Codes -> status in cardplatform_cdk_codes, or "absent"]
          exchanged,  \* the codes with a row in agent_cdk_exchanges
          replaced,   \* history: [Codes -> the codes issued in exchange for it]
          issue, exchange, probe,   \* the handlers of CodeStock
          hook,       \* [Hooks -> the delivery or observation under way]
          events,     \* rows of card_fail_events
          blocked,    \* active cards of card_blocklist
          pardoned,   \* history: cards unblocked with no new failure since
          interrupted, \* history: cards with an observation cut short, none since
          admin,      \* administrators' changes so far
          crew        \* in Crews, chosen at the start

platform == <<upstream, order, last, feed, crew>>
stock == <<stored, exchanged, replaced, issue, exchange, probe>>
health == <<events, blocked, pardoned, interrupted>>
vars == <<platform, stock, health, hook, admin>>

CodeStatus == {"unused", "reserved", "consumed", "disabled"}
\* "stalled" is a status the site has no word for, such as requires_action,
\* with a stage that speaks of a failure; "declined" is failed_precharge or
\* declined, "failed" any other failure, "charged" one with evidence of a
\* charge.
Final == {"completed", "declined", "failed", "charged"}
OrderStates == {"none", "processing", "stalled"} \cup Final
Emails == {AccountOf[o] : o \in Orders} \cup {PlatformEmail[o] : o \in Orders} \cup {UnknownEmail}
Events == [order : Orders, card : Cards, email : Emails]

Idle == [pc |-> "idle"]

Init ==
  /\ upstream = [c \in Codes |-> IF c \in Fresh THEN "none" ELSE "unused"]
  /\ order = [o \in Orders |-> "none"]
  /\ last = [c \in Codes |-> NoOrder]
  /\ feed = [o \in Orders |-> 0]
  /\ stored = [c \in Codes |-> IF c \in Fresh THEN "absent" ELSE "unused"]
  /\ exchanged = {}
  /\ replaced = [c \in Codes |-> {}]
  /\ issue = [i \in Issuers |-> Idle]
  /\ exchange = [e \in Exchangers |-> Idle]
  /\ probe = [p \in Probes |-> Idle]
  /\ hook = [h \in Hooks |-> Idle]
  /\ events = {} /\ blocked = {} /\ pardoned = {} /\ interrupted = {}
  /\ admin = 0
  /\ crew \in Crews

------------------------------------------------------------------------------
\* The platform.

OrderStarts(o) ==
  /\ order[o] = "none" /\ upstream[CodeOf[o]] = "unused"
  /\ order' = [order EXCEPT ![o] = "processing"]
  /\ upstream' = [upstream EXCEPT ![CodeOf[o]] = "reserved"]
  /\ last' = [last EXCEPT ![CodeOf[o]] = o]
  /\ UNCHANGED <<feed, crew, stock, health, hook, admin>>

\* A stalled order may still go on and end in any way; no webhook tells of it.
OrderStalls(o) ==
  /\ order[o] = "processing"
  /\ order' = [order EXCEPT ![o] = "stalled"]
  /\ UNCHANGED <<upstream, last, feed, crew, stock, health, hook, admin>>

StatusAfter(state) == IF state = "completed" THEN "consumed" ELSE "unused"

\* A webhook may arrive at any time later; one that is lost never does.
OrderEnds(o) ==
  /\ order[o] \in {"processing", "stalled"}
  /\ \E s \in Final :
       /\ order' = [order EXCEPT ![o] = s]
       /\ upstream' = [upstream EXCEPT ![CodeOf[o]] = StatusAfter(s)]
  /\ feed' = [feed EXCEPT ![o] = Copies]
  /\ UNCHANGED <<last, crew, stock, health, hook, admin>>

\* The platform issues codes it has not issued before.
Unissued == {c \in Codes : upstream[c] = "none"}
PlatformIssues(c) == upstream' = [upstream EXCEPT ![c] = "unused"]
=============================================================================
