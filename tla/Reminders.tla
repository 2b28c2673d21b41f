------------------------------ MODULE Reminders ------------------------------
(***************************************************************************)
(* Expiry reminders (customer_expiry_notifications.go): a cycle records an *)
(* event for each customer's latest activation, and sends the events that  *)
(* are due to the store, which passes them to the customer.  The answer of *)
(* the store may be lost, and the server may stop at any point.  An event  *)
(* is of a DATED activation: the id hashes the date, and a direct order    *)
(* that the platform dates anew is another one, with an event of its own.  *)
(***************************************************************************)
EXTENDS Naturals, FiniteSets

CONSTANTS Customers,
          Periods,         \* bound: dates an activation of a customer bears, in order
          MaxStops         \* bound: restarts

ASSUME ReminderBounds == Periods \in Nat \ {0} /\ MaxStops \in Nat

VARIABLES period,      \* [Customers -> date of the latest activation on record]
          expired,     \* [Customers -> the dates up to it have run out]
          event,       \* customer_expiry_notifications: [Activations -> status]
          round,       \* the cycle that holds customerExpiryReminderMu
          reminded,    \* history: reminders the store took, capped at 2
          stops

reminderVars == <<period, expired, event, round, reminded, stops>>

Activations == Customers \X (1..Periods)
EventStates == {"none", "pending", "sending", "sent", "review"}
Asleep == [pc |-> "idle"]

ReminderTypeOK ==
  /\ period \in [Customers -> 0..Periods]
  /\ expired \in [Customers -> 0..Periods]
  /\ event \in [Activations -> EventStates]
  /\ round \in [pc : {"seed", "items"}, items : SUBSET Activations]
               \cup [pc : {"send"}, item : Activations, items : SUBSET Activations]
               \cup [pc : {"record"}, item : Activations, items : SUBSET Activations, ok : BOOLEAN]
               \cup {Asleep}
  /\ reminded \in [Activations -> 0..2]
  /\ stops \in 0..MaxStops

ReminderInit ==
  /\ period = [c \in Customers |-> 0]
  /\ expired = [c \in Customers |-> 0]
  /\ event = [a \in Activations |-> "none"]
  /\ round = Asleep
  /\ reminded = [a \in Activations |-> 0]
  /\ stops = 0

\* The rest of the shop: a code of the customer completes, early or late, or the
\* mirror of a direct order dates it anew, later or back to where it was.
Activate(c) ==
  /\ \E p \in 1..Periods : p # period[c] /\ period' = [period EXCEPT ![c] = p]
  /\ UNCHANGED <<expired, event, round, reminded, stops>>

TimeRunsOut(c) ==
  /\ expired[c] < Periods
  /\ expired' = [expired EXCEPT ![c] = @ + 1]
  /\ UNCHANGED <<period, event, round, reminded, stops>>

\* current_customers: the latest activation of each address, if it still runs.
Current == {a \in Activations : a[2] = period[a[1]] /\ a[2] > expired[a[1]]}
Due(a) == a[2] <= expired[a[1]]

RoundBegins ==
  /\ round = Asleep
  /\ round' = [pc |-> "seed", items |-> Current]
  /\ UNCHANGED <<period, expired, event, reminded, stops>>

\* seedCustomerExpiryNotifications, and then the events that are due.
RoundSeeds ==
  /\ round.pc = "seed"
  /\ event' = [a \in Activations |->
                 IF a \in round.items /\ event[a] = "none" THEN "pending" ELSE event[a]]
  /\ round' = [pc |-> "items", items |-> {a \in Activations : event'[a] = "pending" /\ Due(a)}]
  /\ UNCHANGED <<period, expired, reminded, stops>>

RoundClaims ==
  /\ round.pc = "items"
  /\ \E a \in round.items :
       /\ event[a] = "pending"
       /\ event' = [event EXCEPT ![a] = "sending"]
       /\ round' = [pc |-> "send", item |-> a, items |-> round.items \ {a}]
  /\ UNCHANGED <<period, expired, reminded, stops>>

\* The list is done, or the remaining claims fail and wait for the next cycle.
RoundEnds ==
  /\ round.pc = "items"
  /\ round' = Asleep
  /\ UNCHANGED <<period, expired, event, reminded, stops>>

\* sendCustomerExpiryNotification: only a confirmed channel is a success; the
\* store may have taken a reminder all the same.
RoundSends ==
  /\ round.pc = "send"
  /\ \E taken, ok \in BOOLEAN :
       /\ ok => taken
       /\ reminded' = [reminded EXCEPT ![round.item] = IF taken /\ @ < 2 THEN @ + 1 ELSE @]
       /\ round' = [pc |-> "record", item |-> round.item, items |-> round.items, ok |-> ok]
  /\ UNCHANGED <<period, expired, event, stops>>

\* The result; a write that fails is not noticed and leaves the event as it is.
RoundRecords ==
  /\ round.pc = "record"
  /\ event' \in {event, [event EXCEPT ![round.item] = IF round.ok THEN "sent" ELSE "review"]}
  /\ round' = [pc |-> "items", items |-> round.items]
  /\ UNCHANGED <<period, expired, reminded, stops>>

\* InitCustomerExpiryNotifications after a stop.
AfterRestartAgain(s) == IF s = "sending" THEN "pending" ELSE s
AfterRestart(s) == IF s = "sending" THEN "review" ELSE s

ReminderRestart ==
  /\ stops < MaxStops
  /\ stops' = stops + 1
  /\ event' = [a \in Activations |-> AfterRestart(event[a])]
  /\ round' = Asleep
  /\ UNCHANGED <<period, expired, reminded>>

ReminderNext ==
  \/ \E c \in Customers : Activate(c) \/ TimeRunsOut(c)
  \/ RoundBegins \/ RoundSeeds \/ RoundClaims \/ RoundSends \/ RoundRecords \/ RoundEnds
  \/ ReminderRestart

ReminderSpec == ReminderInit /\ [][ReminderNext]_reminderVars

\* A customer is reminded of a dated activation at most once, and the record never
\* claims more than the store has confirmed, although answers are lost, the server
\* stops between the claim, the call and the record, and a date comes back.  Of an
\* order that was dated anew the customer may be reminded once for each date.
RemindedOnce ==
  \A a \in Activations :
    /\ reminded[a] <= 1
    /\ event[a] = "sent" => reminded[a] = 1
    /\ event[a] \in {"none", "pending"} => reminded[a] = 0
=============================================================================
