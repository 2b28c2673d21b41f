------------------------------ MODULE AlertDesk ------------------------------
(***************************************************************************)
(* Alerts: raised and resolved by the automation, handed to the store for  *)
(* a failed order (failure_bridge.go), and sent to the administrator by    *)
(* the dispatcher (notifications.go).  All three write automation_alerts,  *)
(* the row of an order being its alert and the bridge's marker in one.     *)
(***************************************************************************)
EXTENDS Naturals, FiniteSets

CONSTANTS Failures,      \* orders that have failed
          Troubles,      \* other conditions that come and go
          Watchers,      \* the automation and the customers' result pages
          MaxVersion,    \* bound: changes of the notification settings
          MaxTries,      \* attempts at one message
          MaxFaults,     \* bound: unreadable orders, troubles, crashes
          Shifts         \* which of all these act together: sets of them and of
                         \* "desk", the dispatcher, and "admin", its settings

Keys == Failures \cup Troubles

ASSUME KeysAssumption == Failures \cap Troubles = {}
ASSUME ShiftsAssumption == Shifts \subseteq SUBSET (Keys \cup Watchers \cup {"desk", "admin"})
ASSUME DeskBounds == MaxVersion \in Nat \ {0} /\ MaxTries \in Nat \ {0} /\ MaxFaults \in Nat

VARIABLES alert,     \* automation_alerts: [Keys -> [message, resolved, stale]]
          watch,     \* [Watchers -> a watchOrder or result page under way]
          accepted,  \* history: [Failures -> requests the store accepted, capped at 2]
          settings,  \* notification_config: [version, enabled]
          outbox,    \* notification_outbox: [Notices -> [state, tries]]
          dispatch,  \* the dispatcher's cycle
          received,  \* history: [Notices -> messages that arrived, capped at 2]
          faults,
          shift

deskVars == <<alert, watch, accepted, settings, outbox, dispatch, received, faults, shift>>

Messages == {"pending", "done", "unreadable", "failed", "trouble", "worse"}
NoAlert == [message |-> "none", resolved |-> TRUE, stale |-> FALSE]
Versions == 1..MaxVersion
Notices == [key : Failures, message : {"pending", "unreadable", "failed"}, version : Versions]
           \cup [key : Troubles, message : {"trouble", "worse"}, version : Versions]
Queued == {"pending", "retry"}
NoticeStates == {"none", "pending", "sending", "retry", "accepted", "failed", "unknown", "cancelled"}
Resting == [pc |-> "idle"]

DeskTypeOK ==
  /\ alert \in [Keys -> [message : Messages \cup {"none"}, resolved : BOOLEAN, stale : BOOLEAN]]
  /\ watch \in [Watchers -> [pc : {"claim", "post"}, order : Failures] \cup
                            [pc : {"record"}, order : Failures, ok : BOOLEAN] \cup {Resting}]
  /\ accepted \in [Failures -> 0..2]
  /\ settings \in [version : Versions, enabled : BOOLEAN]
  /\ outbox \in [Notices -> [state : NoticeStates, tries : 0..MaxTries]]
  /\ dispatch \in [pc : {"sync", "pick"}, version : Versions] \cup
                  [pc : {"claim", "send"}, notice : Notices, tries : 0..MaxTries] \cup
                  [pc : {"record"}, notice : Notices, tries : 0..MaxTries, state : NoticeStates]
                  \cup {Resting}
  /\ received \in [Notices -> 0..2]
  /\ faults \in 0..MaxFaults
  /\ shift \in Shifts

DeskInit ==
  /\ shift \in Shifts
  /\ alert = [k \in Keys |-> NoAlert]
  /\ watch = [w \in Watchers |-> Resting]
  /\ accepted = [o \in Failures |-> 0]
  /\ settings = [version |-> 1, enabled |-> "desk" \in shift]
  /\ outbox = [n \in Notices |-> [state |-> "none", tries |-> 0]]
  /\ dispatch = Resting
  /\ received = [n \in Notices |-> 0]
  /\ faults = 0

bridge == <<watch, accepted>>
desk == <<settings, outbox, dispatch, received>>
OneMore(n) == IF n = 2 THEN 2 ELSE n + 1
Fault == faults < MaxFaults /\ faults' = faults + 1

\* autoAlert and autoResolve.
Raise(k, m) == alert' = [alert EXCEPT ![k] = [message |-> m, resolved |-> FALSE, stale |-> FALSE]]
Resolve(k) == alert' = [alert EXCEPT ![k].resolved = TRUE]

------------------------------------------------------------------------------
\* Conditions other than failed orders, found and found gone.

TroubleFound(k, text) == Fault /\ Raise(k, text) /\ UNCHANGED <<bridge, desk>>

TroubleGone(k) == /\ ~alert[k].resolved
                  /\ Resolve(k)
                  /\ UNCHANGED <<bridge, desk, faults>>

\* watchOrder on a failed order whose detail cannot be read.
OrderUnreadable(o) == Fault /\ Raise(o, "unreadable") /\ UNCHANGED <<bridge, desk>>

\* watchOrder when it can, up to the claim; a customer's result page, which
\* resolves nothing.
OrderRead(w, o) ==
  /\ watch[w] = Resting
  /\ watch' = [watch EXCEPT ![w] = [pc |-> "claim", order |-> o]]
  /\ UNCHANGED alert \/ (alert[o] # NoAlert /\ Resolve(o))
  /\ UNCHANGED <<accepted, desk, faults>>

\* claimMarketplaceFailure: a lease of five minutes, none once it is done.
Claimable(o) == alert[o].message # "done" /\ (alert[o].message = "pending" => alert[o].stale)

ClaimFailure(w) ==
  LET o == watch[w].order IN
  /\ watch[w].pc = "claim"
  /\ IF Claimable(o)
     THEN Raise(o, "pending") /\ watch' = [watch EXCEPT ![w].pc = "post"]
     ELSE UNCHANGED alert /\ watch' = [watch EXCEPT ![w] = Resting]
  /\ UNCHANGED <<accepted, desk, faults>>

LeaseEnds(o) ==
  /\ alert[o].message = "pending" /\ ~alert[o].stale
  /\ \A w \in Watchers : watch[w].pc \in {"post", "record"} => watch[w].order # o
  /\ alert' = [alert EXCEPT ![o].stale = TRUE]
  /\ UNCHANGED <<bridge, desk, faults>>

\* postMarketplaceFailure: the store accepts, and its answer may be lost.
PostFailure(w) ==
  LET o == watch[w].order IN
  /\ watch[w].pc = "post"
  /\ \E ok, taken \in BOOLEAN :
       /\ ok => taken
       /\ watch' = [watch EXCEPT ![w] = [pc |-> "record", order |-> o, ok |-> ok]]
       /\ accepted' = IF taken THEN [accepted EXCEPT ![o] = OneMore(@)] ELSE accepted
  /\ UNCHANGED <<alert, desk, faults>>

\* Mutant: an answer that did not arrive counts as an acceptance.
HeardAnyway(w) == TRUE
Heard(w) == watch[w].ok

RecordFailure(w) ==
  LET o == watch[w].order IN
  /\ watch[w].pc = "record"
  /\ IF Heard(w)
     THEN alert' = [alert EXCEPT ![o].message = "done", ![o].resolved = TRUE]
     ELSE Raise(o, "failed")
  /\ watch' = [watch EXCEPT ![w] = Resting]
  /\ UNCHANGED <<accepted, desk, faults>>

------------------------------------------------------------------------------
\* AdminNotificationSave.

SaveSettings(enabled) ==
  /\ settings.version < MaxVersion
  /\ settings' = [version |-> settings.version + 1, enabled |-> enabled]
  /\ UNCHANGED <<alert, bridge, outbox, dispatch, received, faults>>

\* dispatchNotifications.

Stands(n) == ~alert[n.key].resolved /\ alert[n.key].message = n.message

\* Messages that a crash left in sending are given up, those of other settings
\* cancelled.  (A message is in sending for less than the 600 s of the first.)
CycleBegins ==
  /\ dispatch = Resting
  /\ outbox' = [n \in Notices |->
       IF outbox[n].state = "sending" THEN [outbox[n] EXCEPT !.state = "unknown"]
       ELSE IF outbox[n].state \in Queued /\ n.version # settings.version
       THEN [outbox[n] EXCEPT !.state = "cancelled"] ELSE outbox[n]]
  /\ dispatch' = IF settings.enabled THEN [pc |-> "sync", version |-> settings.version] ELSE Resting
  /\ UNCHANGED <<alert, bridge, settings, received, faults>>

\* syncNotificationAlertState and the INSERT OR IGNOREs.
CycleSyncs ==
  /\ dispatch.pc = "sync"
  /\ outbox' = [n \in Notices |->
       IF outbox[n].state \in Queued /\ ~Stands(n) THEN [outbox[n] EXCEPT !.state = "cancelled"]
       ELSE IF outbox[n].state = "none" /\ Stands(n) /\ n.version = dispatch.version
       THEN [outbox[n] EXCEPT !.state = "pending"] ELSE outbox[n]]
  /\ dispatch' = [dispatch EXCEPT !.pc = "pick"]
  /\ UNCHANGED <<alert, bridge, settings, received, faults>>

CyclePicks ==
  /\ dispatch.pc = "pick"
  /\ LET due == {n \in Notices : /\ n.version = dispatch.version
                                 /\ outbox[n].state \in Queued /\ outbox[n].tries < MaxTries}
     IN \/ \E n \in due : dispatch' = [pc |-> "claim", notice |-> n, tries |-> outbox[n].tries]
        \/ due = {} /\ dispatch' = Resting
  /\ UNCHANGED <<alert, bridge, settings, outbox, received, faults>>

MayClaim(n) == outbox[n].state \in Queued /\ n.version = settings.version

CycleClaims ==
  LET n == dispatch.notice IN
  /\ dispatch.pc = "claim"
  /\ IF MayClaim(n)
     THEN /\ outbox' = [outbox EXCEPT ![n] = [state |-> "sending", tries |-> @.tries + 1]]
          /\ dispatch' = [dispatch EXCEPT !.pc = "send"]
     ELSE UNCHANGED outbox /\ dispatch' = Resting
  /\ UNCHANGED <<alert, bridge, settings, received, faults>>

\* sendNotification: only an explicit 429 says that nothing was sent.
\* Mutant: an unclear answer is tried again.
OutcomeRetried(sent) == IF sent THEN {"accepted", "retry"} ELSE {"retry", "failed"}
Outcome(sent) == IF sent THEN {"accepted", "unknown"} ELSE {"retry", "failed", "unknown"}

CycleSends ==
  LET n == dispatch.notice IN
  /\ dispatch.pc = "send"
  /\ \E sent \in BOOLEAN, state \in NoticeStates :
       /\ state \in Outcome(sent)
       /\ received' = IF sent THEN [received EXCEPT ![n] = OneMore(@)] ELSE received
       /\ dispatch' = [pc |-> "record", notice |-> n, tries |-> dispatch.tries, state |-> state]
  /\ UNCHANGED <<alert, bridge, settings, outbox, faults>>

CycleRecords ==
  LET n == dispatch.notice
      last == dispatch.state = "retry" /\ dispatch.tries + 1 >= MaxTries
  IN /\ dispatch.pc = "record"
     /\ outbox' = [outbox EXCEPT ![n].state = IF last THEN "failed" ELSE dispatch.state]
     /\ dispatch' = Resting
     /\ UNCHANGED <<alert, bridge, settings, received, faults>>

Crash ==
  /\ Fault
  /\ watch' = [w \in Watchers |-> Resting]
  /\ dispatch' = Resting
  /\ UNCHANGED <<alert, accepted, settings, outbox, received>>

------------------------------------------------------------------------------
Dispatcher == \/ CycleBegins \/ CycleSyncs \/ CyclePicks
              \/ CycleClaims \/ CycleSends \/ CycleRecords
Bridge(w) == ClaimFailure(w) \/ PostFailure(w) \/ RecordFailure(w)

DeskNext ==
  /\ \/ \E k \in Troubles \cap shift : \/ \E text \in {"trouble", "worse"} : TroubleFound(k, text)
                                       \/ TroubleGone(k)
     \/ \E o \in Failures \cap shift : \/ OrderUnreadable(o) \/ LeaseEnds(o)
                                       \/ \E w \in Watchers \cap shift : OrderRead(w, o)
     \/ \E w \in Watchers : Bridge(w)
     \/ "admin" \in shift /\ \E enabled \in BOOLEAN : SaveSettings(enabled)
     \/ "desk" \in shift /\ Dispatcher
     \/ Crash
  /\ UNCHANGED shift

DeskSpec == DeskInit /\ [][DeskNext]_deskVars

------------------------------------------------------------------------------
\* notifications.go, "to avoid repeated notices, not sent again": no message
\* arrives twice, whatever answer was lost and wherever the server stopped.
NeverSentTwice == \A n \in Notices : received[n] <= 1

\* failure_bridge.go:110, "the store bot accepted ...; persist the exact event
\* marker": an order is marked as told only when the store has it, whichever
\* of its watchers claimed, timed out or wrote last.
DoneIsTrue == \A o \in Failures : alert[o].message = "done" => accepted[o] > 0
=============================================================================
