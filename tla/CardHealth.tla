------------------------------ MODULE CardHealth ------------------------------
(***************************************************************************)
(* The webhooks of the payment platform and the health of its cards: a     *)
(* delivery first corrects the stored status of the code, then a goroutine *)
(* of its own observes the order's end.  Polls of the public result and    *)
(* administrators observe too.  Every statement is a transaction of its    *)
(* own, so observations of one card interleave.                            *)
(***************************************************************************)
EXTENDS CodeStock

Delivering == [pc : {"status", "write"}, order : Orders, email : Emails]
Observing == [pc : {"insert", "stats"}, order : Orders, email : Emails] \cup
             [pc : {"check"}, order : Orders, suspect : BOOLEAN] \cup
             [pc : {"block"}, order : Orders]

HealthTypeOK ==
  /\ hook \in [Hooks -> Delivering \cup Observing \cup {Idle}]
  /\ events \subseteq Events
  /\ blocked \subseteq Cards
  /\ pardoned \subseteq Cards \ blocked
  /\ interrupted \subseteq Cards

Proceed(h, step) == hook' = [hook EXCEPT ![h] = step]

\* EvaluateCardFailVerdict = card_suspect, from GetCardFailStats.
EventsOf(card) == {ev \in events : ev.card = card}
KnownEmails(card) == {ev.email : ev \in EventsOf(card)} \ {UnknownEmail}
Suspect(card) ==
  /\ Cardinality(EventsOf(card)) >= FailThreshold
  /\ \/ Cardinality(KnownEmails(card)) >= 2
     \/ KnownEmails(card) = {} /\ ~RequireKnownEmail

------------------------------------------------------------------------------
\* CardPlatformWebhook.

\* resolveEmailForOrder: the email of the session stored for the order's code,
\* which a later attempt may have replaced; without a session the email of
\* the platform's answer, or none.
SessionEmail(o) == AccountOf[last[CodeOf[o]]]
EmailFor(o) == {SessionEmail(o), PlatformEmail[o], UnknownEmail}

WebhookArrives(h, o) ==
  /\ h \in crew /\ hook[h] = Idle /\ feed[o] > 0
  /\ feed' = [feed EXCEPT ![o] = @ - 1]
  /\ \E email \in EmailFor(o) :
       Proceed(h, [pc |-> "status", order |-> o, email |-> email])
  /\ UNCHANGED <<upstream, order, last, crew, stock, health, admin>>

Observed(h) == IF order[hook[h].order] = "declined"
               THEN [hook[h] EXCEPT !.pc = "insert"] ELSE Idle

StatusFromEvent(state) == IF state = "completed" THEN "consumed" ELSE "unused"

\* applyCDKStatusFromWebhook: a failure does not take back a consumed or
\* disabled code.
WebhookStatus(h) ==
  /\ hook[h].pc = "status"
  /\ LET o == hook[h].order
         final == StatusFromEvent(order[o]) = "unused" /\ stored[CodeOf[o]] \in {"consumed", "disabled"}
     IN Proceed(h, IF final THEN Observed(h) ELSE [hook[h] EXCEPT !.pc = "write"])
  /\ UNCHANGED <<platform, stock, health, admin>>

WebhookWrite(h) ==
  /\ hook[h].pc = "write"
  /\ LET o == hook[h].order IN Update(CodeOf[o], StatusFromEvent(order[o]))
  /\ Proceed(h, Observed(h))
  /\ UNCHANGED <<platform, exchanged, replaced, issue, exchange, probe, health, admin>>

------------------------------------------------------------------------------
\* ObserveCardOrderOutcome.

\* AdminReobserveCardOrder, and observeFromPublicResult when the attempt is
\* the current one.
ObservationStarts(h, o) ==
  /\ h \in crew /\ hook[h] = Idle /\ order[o] = "declined"
  /\ \E email \in EmailFor(o) : Proceed(h, [pc |-> "insert", order |-> o, email |-> email])
  /\ UNCHANGED <<platform, stock, health, admin>>

\* Mutant: the order's event is looked for by its email.
IsNewByEmail(o) == ~ \E ev \in events : ev.order = o /\ ev.email = SessionEmail(o)
IsNew(o) == ~ \E ev \in events : ev.order = o

InsertEvent(h) ==
  /\ hook[h].pc = "insert"
  /\ LET o == hook[h].order
         card == CardOf[o]
     IN /\ IF IsNew(o)
           THEN /\ events' = events \cup {[order |-> o, card |-> card, email |-> hook[h].email]}
                /\ pardoned' = pardoned \ {card}
           ELSE UNCHANGED <<events, pardoned>>
        /\ interrupted' = interrupted \ {card}
  /\ Proceed(h, [hook[h] EXCEPT !.pc = "stats"])
  /\ UNCHANGED <<platform, stock, blocked, admin>>

\* The insert fails, or finds that the attempt is no longer the current one.
InsertFails(h) ==
  /\ hook[h].pc = "insert"
  /\ Proceed(h, Idle)
  /\ UNCHANGED <<platform, stock, health, admin>>

\* Mutant: the threshold must be passed, not reached.
VerdictLate(card) == Suspect(card) /\ Cardinality(EventsOf(card)) > FailThreshold
Verdict(card) == Suspect(card)

ReadStats(h) ==
  /\ hook[h].pc = "stats"
  /\ LET o == hook[h].order
     IN Proceed(h, [pc |-> "check", order |-> o, suspect |-> Verdict(CardOf[o])])
  /\ UNCHANGED <<platform, stock, health, admin>>

\* A blocklist that cannot be read counts as one without the card.
CheckBlocked(h) ==
  /\ hook[h].pc = "check"
  /\ LET o == hook[h].order
         block == [pc |-> "block", order |-> o]
     IN \/ Proceed(h, IF CardOf[o] \notin blocked /\ hook[h].suspect THEN block ELSE Idle)
        \/ hook[h].suspect /\ Proceed(h, block)
  /\ UNCHANGED <<platform, stock, health, admin>>

\* The statistics cannot be read, or the block not written.
ObservationFails(h) ==
  /\ hook[h].pc \in {"stats", "block"}
  /\ interrupted' = interrupted \cup {CardOf[hook[h].order]}
  /\ Proceed(h, Idle)
  /\ UNCHANGED <<platform, stock, events, blocked, pardoned, admin>>

\* UpsertCardBlock.
BlockCard(h) ==
  /\ hook[h].pc = "block"
  /\ blocked' = blocked \cup {CardOf[hook[h].order]}
  /\ pardoned' = pardoned \ {CardOf[hook[h].order]}
  /\ Proceed(h, Idle)
  /\ UNCHANGED <<platform, stock, events, interrupted, admin>>

AdminUnblockCard(card) ==
  /\ admin < MaxAdmin /\ card \in blocked
  /\ blocked' = blocked \ {card}
  /\ pardoned' = pardoned \cup {card}
  /\ admin' = admin + 1
  /\ UNCHANGED <<platform, stock, events, interrupted, hook>>

\* Somebody has written an event of the card, or found it there, and is yet
\* to reach a verdict or to act on it.
Watched(card) == \E h \in Hooks : hook[h] # Idle /\ hook[h].pc \in {"stats", "check", "block"}
                                  /\ CardOf[hook[h].order] = card

\* The process stops and starts again: every handler and observation is gone.
Gone(handler) == [x \in DOMAIN handler |-> Idle]
ServerStops ==
  /\ hook' = Gone(hook) /\ probe' = Gone(probe) /\ exchange' = Gone(exchange)
  /\ issue' = [i \in Issuers |-> IF issue[i] = Idle THEN Idle ELSE [pc |-> "done"]]
  /\ interrupted' = interrupted \cup {card \in Cards : Watched(card)}
  /\ UNCHANGED <<platform, stored, exchanged, replaced, events, blocked, pardoned, admin>>

------------------------------------------------------------------------------
HookStep(h) == \/ WebhookStatus(h) \/ WebhookWrite(h)
               \/ InsertEvent(h) \/ InsertFails(h) \/ ReadStats(h) \/ ObservationFails(h)
               \/ CheckBlocked(h) \/ BlockCard(h)

HealthNext == \/ \E h \in Hooks : HookStep(h)
              \/ \E h \in Hooks, o \in Orders : WebhookArrives(h, o) \/ ObservationStarts(h, o)
              \/ \E card \in Cards : AdminUnblockCard(card)
=============================================================================
