---------------------------- MODULE OfficeProofs ----------------------------
(***************************************************************************)
(* Theorems of the parts of the back office that share no variable: of     *)
(* AlertDesk (no message arrives twice, an order is marked as told only    *)
(* when the store has accepted it), of Reminders (no activation is         *)
(* reminded twice), of CodeReplacement (one live code for a code sold) and *)
(* of Backups (a restore point stands), and the types of all four.         *)
(***************************************************************************)
EXTENDS AlertDesk, Reminders, CodeReplacement, Backups,
        FiniteSetTheorems, WellFoundedInduction, TLAPS

\* A message that is picked has attempts left.
ClaimHasTries == dispatch.pc = "claim" => outbox[dispatch.notice].tries < MaxTries

DeskInv == DeskTypeOK /\ ClaimHasTries

\* A message that may still be sent has not arrived.
QueuedIsUnsent == \A n \in Notices :
  outbox[n].state \in Queued \cup {"none"} => received[n] = 0

\* The dispatcher sends what it has claimed, once.
ClaimIsFresh == dispatch.pc = "send" =>
  outbox[dispatch.notice].state = "sending" /\ received[dispatch.notice] = 0

\* It queues a message again only when that one has not arrived.
RetryIsUnsent == dispatch.pc = "record" =>
  /\ outbox[dispatch.notice].state = "sending"
  /\ dispatch.state \in Queued \cup {"none"} => received[dispatch.notice] = 0

\* An acceptance that a watcher heard was given.
HeardIsTrue == \A w \in Watchers :
  watch[w].pc = "record" /\ watch[w].ok => accepted[watch[w].order] > 0

SentInv == DeskInv /\ QueuedIsUnsent /\ ClaimIsFresh /\ RetryIsUnsent /\ NeverSentTwice
ToldInv == DeskInv /\ HeardIsTrue /\ DoneIsTrue

USE DEF Resting

------------------------------------------------------------------------------
\* Typing.

LEMMA DeskBoundsAreNat == MaxVersion \in Nat \ {0} /\ MaxTries \in Nat \ {0} /\ MaxFaults \in Nat
  BY DeskBounds

LEMMA NoticeFields == \A n \in Notices : n.key \in Keys /\ n.version \in Versions
  BY DEF Notices, Keys

LEMMA DeskTypeInit == DeskInit => DeskInv
  BY DeskBoundsAreNat DEF DeskInit, DeskInv, DeskTypeOK, ClaimHasTries, NoAlert, Messages, Versions, NoticeStates

\* What raising and resolving an alert leave.
LEMMA AlertType == ASSUME DeskTypeOK, NEW k \in Keys, NEW m \in Messages, Raise(k, m) \/ Resolve(k)
                   PROVE  alert' \in [Keys -> [message : Messages \cup {"none"},
                                               resolved : BOOLEAN, stale : BOOLEAN]]
<1>1. CASE Raise(k, m)
  BY <1>1 DEF DeskTypeOK, Raise
<1>2. CASE Resolve(k)
  <2> DEFINE R == [message : Messages \cup {"none"}, resolved : BOOLEAN, stale : BOOLEAN]
  <2>1. alert[k] \in R
    BY DEF DeskTypeOK
  <2>2. \A x \in R : [x EXCEPT !.resolved = TRUE] \in R
    OBVIOUS
  <2>3. [alert[k] EXCEPT !.resolved = TRUE] \in R
    BY <2>1, <2>2
  <2> QED
    BY <1>2, <2>3 DEF DeskTypeOK, Resolve
<1> QED
  BY <1>1, <1>2

LEMMA FaultType == ASSUME DeskTypeOK, Fault PROVE faults' \in 0..MaxFaults
  BY DeskBoundsAreNat DEF DeskTypeOK, Fault

\* The bridge and the alerts, which the dispatcher only reads.
AlertSide == UNCHANGED <<desk, shift>>
BridgeTypeOK ==
  /\ alert \in [Keys -> [message : Messages \cup {"none"}, resolved : BOOLEAN, stale : BOOLEAN]]
  /\ watch \in [Watchers -> [pc : {"claim", "post"}, order : Failures] \cup
                            [pc : {"record"}, order : Failures, ok : BOOLEAN] \cup {Resting}]
  /\ accepted \in [Failures -> 0..2]
  /\ faults \in 0..MaxFaults

LEMMA AlertSideType == ASSUME DeskInv, AlertSide, BridgeTypeOK' PROVE DeskInv'
  BY DEF DeskInv, DeskTypeOK, ClaimHasTries, AlertSide, desk, BridgeTypeOK

LEMMA AlertsStep ==
  ASSUME DeskInv, NEW k \in Troubles, NEW text \in {"trouble", "worse"},
         TroubleFound(k, text) \/ TroubleGone(k)
  PROVE  BridgeTypeOK'
<1> k \in Keys /\ text \in Messages
  BY DEF Keys, Messages
<1>1. CASE TroubleFound(k, text)
  BY <1>1, AlertType, FaultType DEF TroubleFound, bridge, DeskInv, DeskTypeOK, BridgeTypeOK
<1>2. CASE TroubleGone(k)
  BY <1>2, AlertType DEF TroubleGone, bridge, DeskInv, DeskTypeOK, BridgeTypeOK
<1> QED
  BY <1>1, <1>2

LEMMA OrderReadStep ==
  ASSUME DeskInv, NEW o \in Failures, NEW w \in Watchers, OrderRead(w, o)
  PROVE  BridgeTypeOK'
<1> o \in Keys /\ "done" \in Messages
  BY DEF Keys, Messages
<1>1. alert' = alert \/ Resolve(o)
  BY DEF OrderRead
<1>2. alert' \in [Keys -> [message : Messages \cup {"none"}, resolved : BOOLEAN, stale : BOOLEAN]]
  BY <1>1, AlertType DEF DeskInv, DeskTypeOK
<1> QED
  BY <1>2 DEF OrderRead, DeskInv, DeskTypeOK, BridgeTypeOK

LEMMA BridgeStep == ASSUME DeskInv, NEW w \in Watchers, Bridge(w) PROVE BridgeTypeOK'
<1> USE DEF DeskInv, DeskTypeOK, BridgeTypeOK
<1> \A o \in Failures : o \in Keys
  BY DEF Keys
<1> {"pending", "done", "failed"} \subseteq Messages
  BY DEF Messages
<1>1. CASE ClaimFailure(w)
  <2> DEFINE o == watch[w].order
  <2>1. o \in Failures /\ o \in Keys /\ watch[w] = [pc |-> "claim", order |-> o]
    BY <1>1 DEF ClaimFailure
  <2>2. CASE Claimable(o)
    <3>1. watch' = [watch EXCEPT ![w] = [pc |-> "post", order |-> o]]
      BY <1>1, <2>1, <2>2 DEF ClaimFailure
    <3> QED
      BY <1>1, <2>1, <2>2, <3>1, AlertType DEF ClaimFailure
  <2>3. CASE ~Claimable(o)
    BY <1>1, <2>3 DEF ClaimFailure
  <2> QED
    BY <2>2, <2>3
<1>2. CASE PostFailure(w)
  BY <1>2 DEF PostFailure, OneMore
<1>3. CASE RecordFailure(w)
  <2>1. CASE Heard(w)
    <3> DEFINE o == watch[w].order
               R == [message : Messages \cup {"none"}, resolved : BOOLEAN, stale : BOOLEAN]
    <3>1. o \in Keys
      BY <1>3 DEF RecordFailure
    <3>2. alert' = [alert EXCEPT ![o].message = "done", ![o].resolved = TRUE]
      BY <1>3, <2>1 DEF RecordFailure
    <3>3. \A r \in R : [[r EXCEPT !.message = "done"] EXCEPT !.resolved = TRUE] \in R
      OBVIOUS
    <3>4. alert' \in [Keys -> R]
      BY <3>1, <3>2, <3>3
    <3> QED
      BY <1>3, <3>4 DEF RecordFailure
  <2>2. CASE ~Heard(w)
    BY <1>3, <2>2, AlertType DEF RecordFailure
  <2> QED
    BY <2>1, <2>2
<1> QED
  BY <1>1, <1>2, <1>3 DEF Bridge

LEMMA Restated ==
  ASSUME NEW r \in [state : NoticeStates, tries : 0..MaxTries], NEW s \in NoticeStates
  PROVE  [r EXCEPT !.state = s] \in [state : NoticeStates, tries : 0..MaxTries]
  OBVIOUS

LEMMA DispatcherType == ASSUME DeskInv, Dispatcher, UNCHANGED shift PROVE DeskInv'
<1> USE DeskBoundsAreNat, NoticeFields DEF DeskInv, DeskTypeOK, ClaimHasTries, bridge
<1> {"pending", "sending", "retry", "failed", "unknown", "cancelled"} \subseteq NoticeStates
  BY DEF NoticeStates
<1>1. CASE CycleBegins
  <2>1. outbox' \in [Notices -> [state : NoticeStates, tries : 0..MaxTries]]
    <3>1. \A n \in Notices : outbox[n] \in [state : NoticeStates, tries : 0..MaxTries]
      OBVIOUS
    <3>2. \A n \in Notices : \/ outbox'[n] = outbox[n]
                             \/ outbox'[n] = [outbox[n] EXCEPT !.state = "unknown"]
                             \/ outbox'[n] = [outbox[n] EXCEPT !.state = "cancelled"]
      BY <1>1 DEF CycleBegins
    <3>3. \A n \in Notices : outbox'[n] \in [state : NoticeStates, tries : 0..MaxTries]
      <4> SUFFICES ASSUME NEW n \in Notices
                   PROVE  outbox'[n] \in [state : NoticeStates, tries : 0..MaxTries]
        OBVIOUS
      <4>1. "unknown" \in NoticeStates /\ "cancelled" \in NoticeStates
        OBVIOUS
      <4>2. /\ [outbox[n] EXCEPT !.state = "unknown"] \in [state : NoticeStates, tries : 0..MaxTries]
            /\ [outbox[n] EXCEPT !.state = "cancelled"] \in [state : NoticeStates, tries : 0..MaxTries]
        BY <3>1, <4>1, Restated
      <4> QED
        BY <3>1, <3>2, <4>2
    <3>4. outbox' = [n \in Notices |-> outbox'[n]]
      BY <1>1 DEF CycleBegins
    <3> QED
      BY <3>3, <3>4
  <2>2. dispatch' = Resting \/ dispatch' \in [pc : {"sync"}, version : Versions]
    BY <1>1 DEF CycleBegins
  <2> QED
    BY <1>1, <2>1, <2>2 DEF CycleBegins
<1>2. CASE CycleSyncs
  BY <1>2 DEF CycleSyncs
<1>3. CASE CyclePicks
  BY <1>3 DEF CyclePicks
<1>4. CASE CycleClaims
  <2> DEFINE n == dispatch.notice
  <2>1. n \in Notices /\ outbox[n].tries \in 0..MaxTries /\ outbox[n].tries < MaxTries
    BY <1>4 DEF CycleClaims
  <2>2. CASE MayClaim(n)
    <3>1. [state |-> "sending", tries |-> outbox[n].tries + 1]
            \in [state : NoticeStates, tries : 0..MaxTries]
      BY <2>1
    <3>2. dispatch' \in [pc : {"send"}, notice : Notices, tries : 0..MaxTries]
      BY <1>4, <2>2 DEF CycleClaims
    <3> QED
      BY <1>4, <2>1, <2>2, <3>1, <3>2 DEF CycleClaims
  <2>3. CASE ~MayClaim(n)
    BY <1>4, <2>3 DEF CycleClaims
  <2> QED
    BY <2>2, <2>3
<1>5. CASE CycleSends
  BY <1>5 DEF CycleSends, OneMore
<1>6. CASE CycleRecords
  BY <1>6 DEF CycleRecords
<1> QED
  BY <1>1, <1>2, <1>3, <1>4, <1>5, <1>6 DEF Dispatcher

LEMMA SaveType == ASSUME DeskInv, NEW enabled \in BOOLEAN, SaveSettings(enabled), UNCHANGED shift
                  PROVE  DeskInv'
  BY DeskBoundsAreNat DEF SaveSettings, DeskInv, DeskTypeOK, ClaimHasTries, bridge, Versions

LEMMA CrashType == ASSUME DeskInv, Crash, UNCHANGED shift PROVE DeskInv'
  BY FaultType DEF Crash, DeskInv, DeskTypeOK, ClaimHasTries

\* Every step of the alerts and the bridge, in one.
Alerting == \/ \E k \in Troubles, text \in {"trouble", "worse"} : TroubleFound(k, text)
            \/ \E k \in Troubles : TroubleGone(k)
            \/ \E o \in Failures : OrderUnreadable(o) \/ LeaseEnds(o)
            \/ \E o \in Failures, w \in Watchers : OrderRead(w, o)
            \/ \E w \in Watchers : Bridge(w)

LEMMA DeskSteps ==
  ASSUME [DeskNext]_deskVars
  PROVE  \/ Alerting /\ UNCHANGED <<desk, shift>>
         \/ Dispatcher /\ UNCHANGED <<alert, bridge, faults, shift>>
         \/ \E enabled \in BOOLEAN : SaveSettings(enabled) /\ UNCHANGED shift
         \/ Crash /\ UNCHANGED shift
         \/ UNCHANGED deskVars
<1>1. ASSUME Alerting PROVE UNCHANGED desk
  BY <1>1 DEF Alerting, TroubleFound, TroubleGone, OrderUnreadable, LeaseEnds, OrderRead,
              Bridge, ClaimFailure, PostFailure, RecordFailure
<1>2. ASSUME Dispatcher PROVE UNCHANGED <<alert, bridge, faults>>
  BY <1>2 DEF Dispatcher, CycleBegins, CycleSyncs, CyclePicks, CycleClaims, CycleSends, CycleRecords
<1> QED
  BY <1>1, <1>2 DEF DeskNext, Alerting

LEMMA AlertingType == ASSUME DeskInv, Alerting PROVE BridgeTypeOK'
<1>1. ASSUME NEW k \in Troubles, TroubleGone(k) PROVE BridgeTypeOK'
  BY <1>1, AlertsStep
<1>2. ASSUME NEW k \in Troubles, NEW text \in {"trouble", "worse"}, TroubleFound(k, text)
      PROVE  BridgeTypeOK'
  BY <1>2, AlertsStep
<1>3. ASSUME NEW o \in Failures, OrderUnreadable(o) \/ LeaseEnds(o) PROVE BridgeTypeOK'
  <2> USE DEF DeskInv, DeskTypeOK, BridgeTypeOK
  <2> o \in Keys /\ "unreadable" \in Messages
    BY DEF Keys, Messages
  <2>1. CASE OrderUnreadable(o)
    BY <2>1, AlertType, FaultType DEF OrderUnreadable, bridge
  <2>2. CASE LeaseEnds(o)
    BY <2>2 DEF LeaseEnds, bridge
  <2> QED
    BY <1>3, <2>1, <2>2
<1>4. ASSUME NEW o \in Failures, NEW w \in Watchers, OrderRead(w, o) PROVE BridgeTypeOK'
  BY <1>4, OrderReadStep
<1> QED
  BY <1>1, <1>2, <1>3, <1>4, BridgeStep DEF Alerting

LEMMA DeskTypeNext == DeskInv /\ [DeskNext]_deskVars => DeskInv'
<1> SUFFICES ASSUME DeskInv, [DeskNext]_deskVars PROVE DeskInv'
  OBVIOUS
<1>1. CASE Alerting /\ UNCHANGED <<desk, shift>>
  BY <1>1, AlertingType, AlertSideType DEF AlertSide
<1>2. CASE UNCHANGED deskVars
  BY <1>2 DEF deskVars, DeskInv, DeskTypeOK, ClaimHasTries
<1> QED
  BY <1>1, <1>2, DeskSteps, DispatcherType, SaveType, CrashType

\* Alerts, watchers, settings, messages and the dispatcher keep their types.
THEOREM DeskTypeCorrect == DeskSpec => []DeskTypeOK
<1>1. DeskInv => DeskTypeOK
  BY DEF DeskInv
<1> QED
  BY DeskTypeInit, DeskTypeNext, <1>1, PTL DEF DeskSpec

------------------------------------------------------------------------------
\* One message.

LEMMA SentInit == DeskInit => SentInv
  BY DeskTypeInit
     DEF SentInv, DeskInit, QueuedIsUnsent, ClaimIsFresh, RetryIsUnsent, NeverSentTwice

LEMMA SentNext == SentInv /\ [DeskNext]_deskVars => SentInv'
<1> SUFFICES ASSUME SentInv, [DeskNext]_deskVars
             PROVE  QueuedIsUnsent' /\ ClaimIsFresh' /\ RetryIsUnsent' /\ NeverSentTwice'
  BY DeskTypeNext DEF SentInv
<1> USE DEF SentInv, DeskInv, DeskTypeOK, QueuedIsUnsent, ClaimIsFresh, RetryIsUnsent,
            NeverSentTwice, Queued
<1>1. CASE CycleBegins
  BY <1>1 DEF CycleBegins
<1>2. CASE CycleSyncs
  BY <1>2 DEF CycleSyncs
<1>3. CASE CyclePicks
  BY <1>3 DEF CyclePicks
<1>4. CASE CycleClaims
  BY <1>4 DEF CycleClaims, MayClaim
<1>5. CASE CycleSends
  BY <1>5 DEF CycleSends, Outcome, OneMore
<1>6. CASE CycleRecords
  BY <1>6 DEF CycleRecords
<1>7. ASSUME UNCHANGED <<outbox, dispatch, received>>
      PROVE  QueuedIsUnsent' /\ ClaimIsFresh' /\ RetryIsUnsent' /\ NeverSentTwice'
  BY <1>7
<1>8. ASSUME NEW enabled \in BOOLEAN, SaveSettings(enabled) PROVE UNCHANGED <<outbox, dispatch, received>>
  BY <1>8 DEF SaveSettings
<1>9. CASE Crash
  BY <1>9 DEF Crash
<1> QED
  BY <1>1, <1>2, <1>3, <1>4, <1>5, <1>6, <1>7, <1>8, <1>9, DeskSteps DEF Dispatcher, desk, deskVars

\* notifications.go: an alert arrives once under any settings, whatever answers
\* are lost, whatever alerts come back and wherever the server stops.
THEOREM OneMessage == DeskSpec => []NeverSentTwice
<1>1. SentInv => NeverSentTwice
  BY DEF SentInv
<1> QED
  BY SentInit, SentNext, <1>1, PTL DEF DeskSpec

------------------------------------------------------------------------------
\* The bridge to the store.

LEMMA ToldInit == DeskInit => ToldInv
  BY DeskTypeInit DEF ToldInv, DeskInit, HeardIsTrue, DoneIsTrue, NoAlert, Keys

LEMMA ToldNext == ToldInv /\ [DeskNext]_deskVars => ToldInv'
<1> SUFFICES ASSUME ToldInv, [DeskNext]_deskVars PROVE HeardIsTrue' /\ DoneIsTrue'
  BY DeskTypeNext DEF ToldInv
<1> USE DEF ToldInv, DeskInv, DeskTypeOK, HeardIsTrue, DoneIsTrue
<1> \A o \in Failures : o \in Keys
  BY DEF Keys
<1>1. ASSUME NEW k \in Troubles, NEW text \in {"trouble", "worse"}, TroubleFound(k, text)
      PROVE  HeardIsTrue' /\ DoneIsTrue'
  BY <1>1 DEF TroubleFound, Raise, bridge
<1>2. ASSUME NEW k \in Troubles, TroubleGone(k) PROVE HeardIsTrue' /\ DoneIsTrue'
  BY <1>2 DEF TroubleGone, Resolve, bridge
<1>3. ASSUME NEW o \in Failures, OrderUnreadable(o) PROVE HeardIsTrue' /\ DoneIsTrue'
  BY <1>3 DEF OrderUnreadable, Raise, bridge
<1>4. ASSUME NEW o \in Failures, LeaseEnds(o) PROVE HeardIsTrue' /\ DoneIsTrue'
  BY <1>4 DEF LeaseEnds, bridge
<1>5. ASSUME NEW o \in Failures, NEW w \in Watchers, OrderRead(w, o)
      PROVE  HeardIsTrue' /\ DoneIsTrue'
  BY <1>5 DEF OrderRead, Resolve
<1>6. ASSUME NEW w \in Watchers, ClaimFailure(w) PROVE HeardIsTrue' /\ DoneIsTrue'
  <2> DEFINE o == watch[w].order
  <2>1. CASE Claimable(o)
    <3>1. alert' = [alert EXCEPT ![o] = [message |-> "pending", resolved |-> FALSE, stale |-> FALSE]]
      BY <1>6, <2>1 DEF ClaimFailure, Raise
    <3>2. \A x \in Failures : alert'[x].message = "done" => alert[x].message = "done"
      BY <3>1
    <3>3. \A v \in Watchers : watch'[v].pc = "record" => watch'[v] = watch[v]
      BY <1>6, <2>1 DEF ClaimFailure
    <3> QED
      BY <1>6, <3>2, <3>3 DEF ClaimFailure
  <2>2. CASE ~Claimable(o)
    BY <1>6, <2>2 DEF ClaimFailure
  <2> QED
    BY <2>1, <2>2
<1>7. ASSUME NEW w \in Watchers, PostFailure(w) PROVE HeardIsTrue' /\ DoneIsTrue'
  BY <1>7 DEF PostFailure, OneMore
<1>8. ASSUME NEW w \in Watchers, RecordFailure(w) PROVE HeardIsTrue' /\ DoneIsTrue'
  <2> DEFINE o == watch[w].order
  <2>1. \A v \in Watchers : watch'[v].pc = "record" => watch'[v] = watch[v]
    BY <1>8 DEF RecordFailure
  <2>2. \A x \in Failures : x # o => alert'[x] = alert[x]
    BY <1>8 DEF RecordFailure, Raise
  <2>3. CASE Heard(w)
    <3>1. o \in Failures /\ accepted[o] > 0
      BY <1>8, <2>3 DEF RecordFailure, Heard
    <3> QED
      BY <1>8, <2>1, <2>2, <3>1 DEF RecordFailure
  <2>4. CASE ~Heard(w)
    <3>1. o \in Failures => alert'[o].message = "failed"
      BY <1>8, <2>4 DEF RecordFailure, Raise
    <3> QED
      BY <1>8, <2>1, <2>2, <3>1 DEF RecordFailure
  <2> QED
    BY <2>3, <2>4
<1>9. ASSUME UNCHANGED <<alert, watch, accepted>> PROVE HeardIsTrue' /\ DoneIsTrue'
  BY <1>9
<1>10. CASE Crash
  BY <1>10 DEF Crash
<1>11. ASSUME NEW enabled \in BOOLEAN, SaveSettings(enabled) PROVE UNCHANGED <<alert, watch, accepted>>
  BY <1>11 DEF SaveSettings, bridge
<1> QED
  BY <1>1, <1>2, <1>3, <1>4, <1>5, <1>6, <1>7, <1>8, <1>9, <1>10, <1>11, DeskSteps
     DEF Alerting, Bridge, bridge, deskVars

\* failure_bridge.go: the marker of an accepted notice is never set for an order
\* that the store has not accepted.
THEOREM ToldIsAccepted == DeskSpec => []DoneIsTrue
<1>1. ToldInv => DoneIsTrue
  BY DEF ToldInv
<1> QED
  BY ToldInit, ToldNext, <1>1, PTL DEF DeskSpec

------------------------------------------------------------------------------
\* Reminders.

\* The cycle holds the claim of the event it sends, which has not been sent.
EventIsFresh == round.pc = "send" =>
  event[round.item] = "sending" /\ reminded[round.item] = 0

\* What the cycle is about to record is true of the event it has claimed.
AnswerIsTrue == round.pc = "record" =>
  event[round.item] = "sending" /\ (round.ok => reminded[round.item] = 1)

ReminderInv == ReminderTypeOK /\ EventIsFresh /\ AnswerIsTrue /\ RemindedOnce

USE DEF Asleep, EventStates

------------------------------------------------------------------------------
\* Typing.

LEMMA PeriodsAreNatural == Periods \in Nat /\ MaxStops \in Nat
  BY ReminderBounds

LEMMA ReminderTypeInit == ReminderInit => ReminderTypeOK
  BY PeriodsAreNatural DEF ReminderInit, ReminderTypeOK

LEMMA ReminderTypeNext == ReminderTypeOK /\ [ReminderNext]_reminderVars => ReminderTypeOK'
<1> SUFFICES ASSUME ReminderTypeOK, [ReminderNext]_reminderVars PROVE ReminderTypeOK'
  OBVIOUS
<1> USE PeriodsAreNatural DEF ReminderTypeOK
<1>1. ASSUME NEW c \in Customers, Activate(c) \/ TimeRunsOut(c) PROVE ReminderTypeOK'
  BY <1>1 DEF Activate, TimeRunsOut
<1>2. CASE RoundBegins
  BY <1>2 DEF RoundBegins, Current
<1>3. CASE RoundSeeds
  BY <1>3 DEF RoundSeeds
<1>4. CASE RoundClaims
  BY <1>4 DEF RoundClaims
<1>5. CASE RoundSends
  BY <1>5 DEF RoundSends
<1>6. CASE RoundRecords
  BY <1>6 DEF RoundRecords
<1>7. CASE RoundEnds
  BY <1>7 DEF RoundEnds
<1>8. CASE ReminderRestart
  BY <1>8 DEF ReminderRestart, AfterRestart
<1>9. CASE UNCHANGED reminderVars
  BY <1>9 DEF reminderVars
<1> QED
  BY <1>1, <1>2, <1>3, <1>4, <1>5, <1>6, <1>7, <1>8, <1>9 DEF ReminderNext

\* Customers, activations, events, the cycle and the history keep their types.
THEOREM ReminderTypeCorrect == ReminderSpec => []ReminderTypeOK
  BY ReminderTypeInit, ReminderTypeNext, PTL DEF ReminderSpec

------------------------------------------------------------------------------
\* One reminder for a dated activation.

LEMMA ReminderInvInit == ReminderInit => ReminderInv
  BY ReminderTypeInit DEF ReminderInit, ReminderInv, EventIsFresh, AnswerIsTrue, RemindedOnce

LEMMA ReminderInvNext == ReminderInv /\ [ReminderNext]_reminderVars => ReminderInv'
<1> SUFFICES ASSUME ReminderInv, [ReminderNext]_reminderVars
             PROVE  EventIsFresh' /\ AnswerIsTrue' /\ RemindedOnce'
  BY ReminderTypeNext DEF ReminderInv
<1> USE DEF ReminderInv, ReminderTypeOK, EventIsFresh, AnswerIsTrue, RemindedOnce
<1>1. ASSUME NEW c \in Customers, Activate(c) \/ TimeRunsOut(c)
      PROVE  EventIsFresh' /\ AnswerIsTrue' /\ RemindedOnce'
  BY <1>1 DEF Activate, TimeRunsOut
<1>2. CASE RoundBegins \/ RoundEnds
  BY <1>2 DEF RoundBegins, RoundEnds
<1>3. CASE RoundSeeds
  BY <1>3 DEF RoundSeeds
<1>4. CASE RoundClaims
  BY <1>4 DEF RoundClaims
<1>5. CASE RoundSends
  BY <1>5 DEF RoundSends
<1>6. CASE RoundRecords
  BY <1>6 DEF RoundRecords
<1>7. CASE ReminderRestart
  BY <1>7 DEF ReminderRestart, AfterRestart
<1>8. CASE UNCHANGED reminderVars
  BY <1>8 DEF reminderVars
<1> QED
  BY <1>1, <1>2, <1>3, <1>4, <1>5, <1>6, <1>7, <1>8 DEF ReminderNext

\* customer_expiry_notifications.go: whatever answers are lost, whatever records
\* fail and wherever the server stops, a customer gets one reminder at most of an
\* activation of one date, and "sent" is written only when the store has confirmed it.
THEOREM OneReminder == ReminderSpec => []RemindedOnce
<1>1. ReminderInv => RemindedOnce
  BY DEF ReminderInv
<1> QED
  BY ReminderInvInit, ReminderInvNext, <1>1, PTL DEF ReminderSpec

------------------------------------------------------------------------------
\* Replacement of codes.

\* A code stands for a code sold, or for none: one sold for itself, and a spare
\* only for one that has been sold.
StandsForSold ==
  /\ \A c \in LocalCodes : shelf[c].status = "none" <=> shelf[c].from = Unsold
  /\ \A w \in Wares : shelf[w].status # "none" => shelf[w].from = w
  /\ \A c \in LocalCodes : shelf[c].from \in Wares => shelf[shelf[c].from].status # "none"

\* The codes that stand for w and may be used.
Live(w) == {c \in LocalCodes : shelf[c].from = w /\ ~Replaced(c)}
OneIsLive == \A w \in Wares : shelf[w].status # "none" => \E c \in LocalCodes : Live(w) = {c}

ReplacedIsVoid == \A c \in LocalCodes : Replaced(c) => shelf[c].status = "disabled"
ReserveIsUnmade == \A c \in reserve : shelf[c].status = "none"

ReplacementInv ==
  ReplacementTypeOK /\ StandsForSold /\ OneIsLive /\ ReplacedIsVoid /\ ReserveIsUnmade

LEMMA ReplacementInvInit == ReplacementInit => ReplacementInv
  BY SparesAssumption
     DEF ReplacementInit, ReplacementInv, ReplacementTypeOK, NotIssued, ShelfStatus, StandsForSold,
         OneIsLive, ReplacedIsVoid, ReserveIsUnmade, Replaced, LocalCodes

LEMMA ShelfFields == ReplacementTypeOK => \A c \in LocalCodes :
  shelf[c].status \in ShelfStatus /\ shelf[c].from \in Wares \cup {Unsold}
  BY DEF ReplacementTypeOK

\* What hearing of a code leaves.
LEMMA HearType == ASSUME ReplacementTypeOK, NEW d \in Devices, NEW c, Hear(d, c) \/ UNCHANGED told
                  PROVE  told' \in [LocalCodes -> SUBSET Devices]
  BY DEF ReplacementTypeOK, Hear

LEMMA IssuesInv == ASSUME ReplacementInv, NEW s \in Sales, NEW n \in Counts, MarketplaceIssues(s, n)
                   PROVE  ReplacementInv'
<1> USE DEF ReplacementInv
<1> DEFINE New(c) == c \in Ordered(s, n) /\ shelf[c].status = "none"
<1>1. /\ shelf' = [c \in LocalCodes |-> IF New(c) THEN [status |-> "unused", from |-> c] ELSE shelf[c]]
      /\ swaps' = swaps /\ reserve' = reserve /\ told' = told /\ onSale' = onSale
  BY DEF MarketplaceIssues
<1>2. \A c : New(c) => c \in Wares /\ c \in LocalCodes /\ c # Unsold
  BY SparesAssumption DEF Ordered, Batch, LocalCodes
<1> HIDE DEF New
<1>3. ReplacementTypeOK'
  <2>1. \A c \in LocalCodes : shelf'[c] \in [status : ShelfStatus, from : Wares \cup {Unsold}]
    BY <1>1, <1>2 DEF ReplacementTypeOK, ShelfStatus
  <2>2. QED
    BY <1>1, <2>1 DEF ReplacementTypeOK
<1>4. \A c \in LocalCodes : /\ New(c) => shelf'[c].status = "unused" /\ shelf'[c].from = c
                            /\ ~New(c) => shelf'[c] = shelf[c]
  BY <1>1
<1>5. \A c \in LocalCodes : New(c) => shelf[c].status = "none"
  BY DEF New
<1>6. StandsForSold'
  <2>1. \A c \in LocalCodes : shelf'[c].status = "none" <=> shelf'[c].from = Unsold
    BY <1>2, <1>4 DEF StandsForSold
  <2>2. \A w \in Wares : w \in LocalCodes
    BY DEF LocalCodes
  <2>3. \A w \in Wares : shelf'[w].status # "none" => shelf'[w].from = w
    BY <1>4, <2>2 DEF StandsForSold
  <2>4. \A w \in Wares : shelf[w].status # "none" => shelf'[w].status # "none"
    BY <1>4, <2>2
  <2>5. \A c \in LocalCodes : shelf'[c].from \in Wares => shelf'[shelf'[c].from].status # "none"
    <3>1. ASSUME NEW c \in LocalCodes, New(c) PROVE shelf'[shelf'[c].from].status # "none"
      <4>1. shelf'[c].from = c /\ shelf'[c].status = "unused"
        BY <1>4, <3>1
      <4>2. QED
        BY <4>1
    <3>2. ASSUME NEW c \in LocalCodes, ~New(c), shelf'[c].from \in Wares
          PROVE  shelf'[shelf'[c].from].status # "none"
      <4>1. shelf'[c].from = shelf[c].from
        BY <1>4, <3>2
      <4>2. shelf[shelf[c].from].status # "none"
        BY <3>2, <4>1 DEF StandsForSold
      <4>3. QED
        BY <2>4, <3>2, <4>1, <4>2
    <3>3. QED
      BY <3>1, <3>2
  <2>6. QED
    BY <2>1, <2>3, <2>5 DEF StandsForSold
<1>7. ReplacedIsVoid'
  BY <1>1, <1>4, <1>5 DEF ReplacedIsVoid, Replaced
<1>8. ReserveIsUnmade'
  <2>1. \A c \in reserve : c \in LocalCodes /\ ~New(c)
    BY <1>2, SparesAssumption DEF ReplacementTypeOK, LocalCodes
  <2>2. QED
    BY <1>1, <1>4, <2>1 DEF ReserveIsUnmade
<1>9. OneIsLive'
  <2> SUFFICES ASSUME NEW w \in Wares, shelf'[w].status # "none"
               PROVE  \E c \in LocalCodes : Live(w)' = {c}
    BY DEF OneIsLive
  <2>0. w \in LocalCodes /\ w # Unsold
    BY SparesAssumption DEF LocalCodes
  <2>1. CASE New(w)
    <3>0. shelf[w].status = "none"
      BY <1>5, <2>0, <2>1
    <3>1. ASSUME NEW c \in LocalCodes PROVE shelf'[c].from = w <=> c = w
      <4>1. shelf[c].from # w
        BY <3>0 DEF StandsForSold
      <4>2. QED
        BY <1>4, <2>1, <4>1
    <3>2. ~Replaced(w)
      BY <1>5, <2>0, <2>1 DEF ReplacedIsVoid
    <3>3. Live(w)' = {w}
      BY <1>1, <2>0, <3>1, <3>2 DEF Live, Replaced
    <3>4. QED
      BY <2>0, <3>3
  <2>2. CASE ~New(w)
    <3>1. ASSUME NEW c \in LocalCodes PROVE shelf'[c].from = w <=> shelf[c].from = w
      <4>1. New(c) => shelf[c].from = Unsold /\ c # w
        BY <1>5, <2>2 DEF StandsForSold
      <4>2. QED
        BY <1>4, <2>0, <4>1
    <3>2. Live(w)' = Live(w)
      BY <1>1, <3>1 DEF Live, Replaced
    <3>3. QED
      BY <1>4, <2>0, <2>2, <3>2 DEF OneIsLive
  <2>3. QED
    BY <2>1, <2>2
<1>10. QED
  BY <1>3, <1>6, <1>7, <1>8, <1>9

LEMMA ReplaceInv == ASSUME ReplacementInv, NEW d \in Devices, NEW c \in LocalCodes, NEW a \in Asks,
                           ReplaceCode(d, c, a)
                    PROVE  ReplacementInv'
<1> USE DEF ReplacementInv
<1>0. ~Replaced(c) /\ shelf[c].status = "unused" /\ onSale' = onSale
  BY DEF ReplaceCode
<1> PICK ready \in Filled(reserve) : \E new \in ready :
       /\ shelf' = [shelf EXCEPT ![c].status = "disabled",
                                 ![new] = [status |-> "unused", from |-> shelf[c].from]]
       /\ swaps' = swaps \cup {[old |-> c, new |-> new, ask |-> a, device |-> d]}
       /\ \E more \in {stock \in SUBSET (Unmade \ {new}) :
                         ready \ {new} \subseteq stock /\ Cardinality(stock) = ReserveTarget} :
            reserve' = more
       /\ Hear(d, new) \/ UNCHANGED told
  BY DEF ReplaceCode, Withdrawn
<1> PICK new \in ready :
       /\ shelf' = [shelf EXCEPT ![c].status = "disabled",
                                 ![new] = [status |-> "unused", from |-> shelf[c].from]]
       /\ swaps' = swaps \cup {[old |-> c, new |-> new, ask |-> a, device |-> d]}
       /\ reserve' \subseteq Unmade \ {new}
       /\ Hear(d, new) \/ UNCHANGED told
  OBVIOUS
<1> DEFINE w == shelf[c].from
<1>1. new \in Spares /\ new \in LocalCodes /\ shelf[new].status = "none" /\ new # c
  BY <1>0 DEF Filled, Unmade, LocalCodes
<1>2. w \in Wares /\ shelf[w].status # "none" /\ w \in LocalCodes
  BY <1>0, ShelfFields DEF StandsForSold, LocalCodes
<1>3. /\ shelf'[c].status = "disabled" /\ shelf'[c].from = w
      /\ shelf'[new].status = "unused" /\ shelf'[new].from = w
      /\ \A x \in LocalCodes : x # c /\ x # new => shelf'[x] = shelf[x]
  BY <1>1 DEF ReplacementTypeOK
<1>4. ASSUME NEW x \in LocalCodes PROVE Replaced(x)' <=> Replaced(x) \/ x = c
  <2> DEFINE swap == [old |-> c, new |-> new, ask |-> a, device |-> d]
  <2>1. swap.old = c /\ swaps' = swaps \cup {swap}
    OBVIOUS
  <2> HIDE DEF swap
  <2>2. QED
    BY <2>1 DEF Replaced
<1>5. ReplacementTypeOK'
  <2>1. shelf' \in [LocalCodes -> [status : ShelfStatus, from : Wares \cup {Unsold}]]
    <3>1. \A r \in [status : ShelfStatus, from : Wares \cup {Unsold}] :
             [r EXCEPT !.status = "disabled"] \in [status : ShelfStatus, from : Wares \cup {Unsold}]
      BY DEF ShelfStatus
    <3>2. [status |-> "unused", from |-> w] \in [status : ShelfStatus, from : Wares \cup {Unsold}]
      BY <1>2 DEF ShelfStatus
    <3>3. [shelf[c] EXCEPT !.status = "disabled"] \in [status : ShelfStatus, from : Wares \cup {Unsold}]
      BY <3>1 DEF ReplacementTypeOK
    <3>4. shelf' = [[shelf EXCEPT ![c] = [shelf[c] EXCEPT !.status = "disabled"]]
                      EXCEPT ![new] = [status |-> "unused", from |-> w]]
      BY <1>1 DEF ReplacementTypeOK
    <3>5. QED
      BY <3>2, <3>3, <3>4 DEF ReplacementTypeOK
  <2>2. reserve' \subseteq Spares /\ swaps' \subseteq [old : LocalCodes, new : Spares, ask : Asks, device : Devices]
    BY <1>1 DEF Unmade, ReplacementTypeOK
  <2>3. QED
    BY <1>0, <2>1, <2>2, HearType DEF ReplacementTypeOK
<1>6. StandsForSold'
  <2>1. ASSUME NEW x \in LocalCodes PROVE shelf'[x].status = "none" <=> shelf'[x].from = Unsold
    <3>1. w # Unsold
      BY <1>2, SparesAssumption
    <3>2. CASE x # c /\ x # new
      <4>1. shelf'[x] = shelf[x]
        BY <1>3, <3>2
      <4>2. shelf[x].status = "none" <=> shelf[x].from = Unsold
        BY DEF StandsForSold
      <4>3. QED
        BY <4>1, <4>2
    <3>3. CASE x = c \/ x = new
      BY <1>3, <3>1, <3>3
    <3>4. QED
      BY <3>2, <3>3
  <2>2. \A x \in Wares : x # new /\ x \in LocalCodes
    BY <1>1, SparesAssumption DEF LocalCodes
  <2>3. ASSUME NEW x \in Wares, shelf'[x].status # "none" PROVE shelf'[x].from = x
    <3>1. c \in Wares => w = c
      BY <1>0 DEF StandsForSold
    <3>2. CASE x = c
      BY <1>3, <3>1, <3>2
    <3>3. CASE x # c
      <4>1. shelf'[x] = shelf[x]
        BY <1>3, <2>2, <3>3
      <4>2. shelf[x].status # "none" => shelf[x].from = x
        BY <2>3 DEF StandsForSold
      <4>3. QED
        BY <2>3, <4>1, <4>2
    <3>4. QED
      BY <3>2, <3>3
  <2>4. \A x \in LocalCodes : shelf'[x].from \in Wares => shelf'[shelf'[x].from].status # "none"
    <3>1. \A y \in Wares : shelf[y].status # "none" => shelf'[y].status # "none"
      BY <1>3, <2>2
    <3>2. \A x \in LocalCodes : shelf'[x].from \in Wares => shelf[shelf'[x].from].status # "none"
      <4>1. \A x \in LocalCodes : shelf'[x].from = shelf[x].from \/ shelf'[x].from = w
        BY <1>3
      <4>2. QED
        BY <1>2, <4>1 DEF StandsForSold
    <3>3. QED
      BY <3>1, <3>2
  <2>5. QED
    BY <2>1, <2>3, <2>4 DEF StandsForSold
<1>7. ReplacedIsVoid'
  BY <1>1, <1>3, <1>4 DEF ReplacedIsVoid
<1>8. ReserveIsUnmade'
  <2>1. \A x \in reserve' : x \in LocalCodes /\ x # new /\ shelf[x].status = "none"
    BY DEF Unmade, LocalCodes
  <2>2. QED
    BY <1>0, <1>3, <2>1 DEF ReserveIsUnmade
<1>9. OneIsLive'
  <2> SUFFICES ASSUME NEW v \in Wares, shelf'[v].status # "none"
               PROVE  \E x \in LocalCodes : Live(v)' = {x}
    BY DEF OneIsLive
  <2>0. v \in LocalCodes /\ v # new /\ v # Unsold
    BY <1>1, SparesAssumption DEF LocalCodes
  <2>1. shelf[v].status # "none" /\ \E x \in LocalCodes : Live(v) = {x}
    BY <1>0, <1>3, <2>0 DEF OneIsLive
  <2>2. shelf[new].from = Unsold /\ ~Replaced(new)
    BY <1>1 DEF StandsForSold, ReplacedIsVoid
  <2>3. CASE v = w
    <3>1. Live(v) = {c}
      BY <1>0, <2>1, <2>3 DEF Live
    <3>2. Live(v)' = {new}
      <4>1. \A x \in LocalCodes : x \in Live(v)' <=> shelf'[x].from = v /\ ~Replaced(x)'
        BY DEF Live
      <4>2. new \in Live(v)'
        BY <1>1, <1>3, <1>4, <2>2, <2>3, <4>1
      <4>3. \A x \in LocalCodes : x \in Live(v)' => x = new
        BY <1>3, <1>4, <3>1, <4>1 DEF Live
      <4>4. QED
        BY <4>2, <4>3 DEF Live
    <3>3. QED
      BY <1>1, <3>2
  <2>4. CASE v # w
    <3>1. Live(v)' = Live(v)
      BY <1>3, <1>4, <2>0, <2>2, <2>4 DEF Live
    <3>2. QED
      BY <2>1, <3>1
  <2>5. QED
    BY <2>3, <2>4
<1>10. QED
  BY <1>5, <1>6, <1>7, <1>8, <1>9

\* Steps that change no code, and no replacement.
LEMMA ShelfKept == ASSUME ReplacementInv, UNCHANGED <<shelf, swaps>>, reserve' \subseteq Unmade,
                          onSale' \in BOOLEAN, told' \in [LocalCodes -> SUBSET Devices]
                   PROVE  ReplacementInv'
  BY DEF ReplacementInv, ReplacementTypeOK, StandsForSold, OneIsLive, Live, ReplacedIsVoid,
         ReserveIsUnmade, Replaced, Unmade

LEMMA UseInv == ASSUME ReplacementInv, NEW c \in LocalCodes, UseCode(c) PROVE ReplacementInv'
<1> USE DEF ReplacementInv
<1>1. PICK next \in ShelfStatus \ {"none"} :
         /\ shelf' = [shelf EXCEPT ![c].status = next]
         /\ shelf[c].status \in {"unused", "reserved"}
  BY DEF UseCode, ShelfStatus
<1>2. UNCHANGED <<reserve, swaps, onSale, told>>
  BY DEF UseCode
<1>3. /\ shelf'[c].status = next /\ shelf'[c].from = shelf[c].from
      /\ \A x \in LocalCodes : x # c => shelf'[x] = shelf[x]
  BY <1>1 DEF ReplacementTypeOK
<1>4. \A x \in LocalCodes : shelf'[x].from = shelf[x].from /\ (shelf'[x].status = "none" <=> shelf[x].status = "none")
  BY <1>1, <1>3
<1>5. ReplacementTypeOK'
  <2>1. \A r \in [status : ShelfStatus, from : Wares \cup {Unsold}] :
           [r EXCEPT !.status = next] \in [status : ShelfStatus, from : Wares \cup {Unsold}]
    OBVIOUS
  <2>2. [shelf[c] EXCEPT !.status = next] \in [status : ShelfStatus, from : Wares \cup {Unsold}]
    BY <2>1 DEF ReplacementTypeOK
  <2>3. shelf' = [shelf EXCEPT ![c] = [shelf[c] EXCEPT !.status = next]]
    BY <1>1 DEF ReplacementTypeOK
  <2>4. QED
    BY <1>2, <2>2, <2>3 DEF ReplacementTypeOK
<1>6. StandsForSold'
  <2>1. \A x \in Wares : x \in LocalCodes
    BY DEF LocalCodes
  <2>2. QED
    BY <1>4, <2>1 DEF StandsForSold
<1>7. OneIsLive'
  <2>1. \A w \in Wares : w \in LocalCodes /\ Live(w)' = Live(w)
    BY <1>2, <1>4 DEF Live, Replaced, LocalCodes
  <2>2. QED
    BY <1>4, <2>1 DEF OneIsLive
<1>8. ReplacedIsVoid'
  BY <1>1, <1>2, <1>3 DEF ReplacedIsVoid, Replaced
<1>9. ReserveIsUnmade'
  <2>1. reserve \subseteq LocalCodes
    BY DEF ReplacementTypeOK, LocalCodes
  <2>2. QED
    BY <1>2, <1>4, <2>1 DEF ReserveIsUnmade
<1>10. QED
  BY <1>5, <1>6, <1>7, <1>8, <1>9

LEMMA ReplacementInvNext == ReplacementInv /\ [ReplacementNext]_replacementVars => ReplacementInv'
<1> SUFFICES ASSUME ReplacementInv, [ReplacementNext]_replacementVars PROVE ReplacementInv'
  OBVIOUS
<1>0. /\ reserve \subseteq Unmade /\ onSale \in BOOLEAN /\ (~onSale) \in BOOLEAN
      /\ told \in [LocalCodes -> SUBSET Devices]
  BY DEF ReplacementInv, ReplacementTypeOK, ReserveIsUnmade, Unmade
<1>1. ASSUME NEW d \in Devices, NEW c \in LocalCodes, HandOver(d, c) PROVE ReplacementInv'
  BY <1>0, <1>1, HearType, ShelfKept DEF HandOver, ReplacementInv
<1>2. ASSUME NEW d \in Devices, NEW c \in LocalCodes, NEW a \in Asks, ReplaceAgain(d, c, a)
      PROVE  ReplacementInv'
  BY <1>0, <1>2, HearType, ShelfKept DEF ReplaceAgain, ReplacementInv
<1>3. CASE MaintainCodeReserve
  BY <1>0, <1>3, ShelfKept DEF MaintainCodeReserve, Filled
<1>4. CASE SwitchProduct
  BY <1>0, <1>4, ShelfKept DEF SwitchProduct
<1>5. CASE UNCHANGED replacementVars
  BY <1>0, <1>5, ShelfKept DEF replacementVars
<1>6. QED
  BY <1>1, <1>2, <1>3, <1>4, <1>5, IssuesInv, ReplaceInv, UseInv DEF ReplacementNext

\* Codes, the reserve, the replacements and who was told of a code keep their
\* types.
THEOREM ReplacementTypeCorrect == ReplacementSpec => []ReplacementTypeOK
<1>1. ReplacementInv => ReplacementTypeOK
  BY DEF ReplacementInv
<1>2. QED
  BY ReplacementInvInit, ReplacementInvNext, <1>1, PTL DEF ReplacementSpec

\* local_code_replacement.go: a customer's purchase is neither doubled nor lost,
\* however often requests are repeated and by whichever devices know the code.
THEOREM OneCodeIsLive == ReplacementSpec => []OneLiveCode
<1>1. ReplacementInv => OneLiveCode
  <2> SUFFICES ASSUME ReplacementInv PROVE OneLiveCode
    OBVIOUS
  <2>1. ASSUME NEW w \in Wares, shelf[w].status # "none"
        PROVE  Cardinality({c \in LocalCodes : shelf[c].from = w /\ ~Replaced(c)}) = 1
    <3>1. PICK c \in LocalCodes : Live(w) = {c}
      BY <2>1 DEF ReplacementInv, OneIsLive
    <3>2. Cardinality(Live(w)) = 1
      BY <3>1, FS_Singleton
    <3>3. QED
      BY <3>2 DEF Live
  <2>2. QED
    BY <2>1 DEF ReplacementInv, OneLiveCode, ReplacedIsVoid, ReserveIsUnmade
<1>2. QED
  BY ReplacementInvInit, ReplacementInvNext, <1>1, PTL DEF ReplacementSpec

------------------------------------------------------------------------------
\* Backups.

LEMMA BackupNumbers ==
  /\ Last \in Nat /\ Last > 0 /\ DailyRetention \in Nat /\ DailyRetention > 0
  /\ ManualRetention \in Nat /\ ManualRetention > 0 /\ Budget \in Nat /\ MaxBytes \in Nat /\ MaxBytes > 0
  BY BackupBounds

\* A set of naturals that is not empty has a least element, and one below a
\* bound a greatest.
LEMMA Least == ASSUME NEW T \in SUBSET Nat, T # {} PROVE \E x \in T : \A y \in T : x <= y
<1>1. PICK x \in T : \A y \in T : ~ (<<y, x>> \in OpToRel(<, Nat))
  BY WFMin, NatLessThanWellFounded
<1>2. \A y \in T : ~(y < x)
  BY <1>1 DEF OpToRel
<1>3. QED
  BY <1>2

LEMMA Greatest == ASSUME NEW n \in Nat, NEW T \in SUBSET (0..n), T # {} PROVE \E x \in T : \A y \in T : y <= x
<1> DEFINE R == {n - x : x \in T}
<1>1. R \in SUBSET Nat /\ R # {}
  <2>1. \A x \in T : n - x \in Nat
    BY \A x \in 0..n : n - x \in Nat
  <2>2. QED
    BY <2>1
<1>2. PICK r \in R : \A s \in R : r <= s
  BY <1>1, Least
<1>3. PICK x \in T : r = n - x
  OBVIOUS
<1>4. \A y \in T : r <= n - y
  BY <1>2
<1>5. QED
  BY <1>3, <1>4

\* One step of the sum of bytes that prune keeps.
Keeps(i, bytes) == IF i \in Listed /\ Recent(i) /\ Fits(i, bytes) THEN about[i].bytes ELSE 0

\* The recursion has a solution from any snapshot on.
Sums(n, g) == /\ g \in [(Last + 1 - n)..(Last + 1) -> Int]
              /\ \A i \in (Last + 1 - n)..(Last + 1) :
                    g[i] = IF i > Last THEN 0 ELSE g[i + 1] + Keeps(i, g[i + 1])

LEMMA SumsExtend == ASSUME BackupTypeOK, NEW n \in 0..(Last - 1), NEW g, Sums(n, g)
                    PROVE  \E h : Sums(n + 1, h)
<1> USE BackupNumbers
<1> DEFINE k == Last - n
           b == g[k + 1] + Keeps(k, g[k + 1])
           h == [i \in k..(Last + 1) |-> IF i = k THEN b ELSE g[i]]
<1>1. k \in Nat /\ k \in Snapshots /\ Last + 1 - n = k + 1 /\ Last + 1 - (n + 1) = k
  BY DEF Snapshots
<1>2. g[k + 1] \in Int
  BY <1>1 DEF Sums
<1>3. Keeps(k, g[k + 1]) \in Int
  BY <1>1 DEF Keeps, BackupTypeOK, Listed
<1>4. b \in Int
  BY <1>2, <1>3
<1>5. \A i \in (k + 1)..(Last + 1) : g[i] \in Int /\ g[i] = IF i > Last THEN 0 ELSE g[i + 1] + Keeps(i, g[i + 1])
  BY <1>1 DEF Sums
<1>6. h \in [k..(Last + 1) -> Int]
  BY <1>1, <1>4, <1>5
<1>7. ASSUME NEW i \in k..(Last + 1) PROVE h[i] = IF i > Last THEN 0 ELSE h[i + 1] + Keeps(i, h[i + 1])
  <2>1. i < Last + 1 => h[i + 1] = g[i + 1]
    BY <1>1
  <2>2. CASE i = k
    BY <1>1, <2>1, <2>2
  <2>3. CASE i # k
    <3>1. h[i] = g[i] /\ i \in (k + 1)..(Last + 1)
      BY <1>1, <2>3
    <3>2. QED
      BY <1>5, <2>1, <3>1
  <2>4. QED
    BY <2>2, <2>3
<1> HIDE DEF h, k
<1>8. QED
  BY <1>1, <1>6, <1>7 DEF Sums

LEMMA SumsExist == ASSUME BackupTypeOK PROVE \E g : Sums(Last, g)
<1> USE BackupNumbers
<1> DEFINE B == {n \in 0..Last : ~ \E g : Sums(n, g)}
<1> SUFFICES ASSUME B # {} PROVE FALSE
  OBVIOUS
<1>0. B \in SUBSET Nat
  OBVIOUS
<1>1. PICK n \in B : \A m \in B : n <= m
  <2> HIDE DEF B
  <2>1. QED
    BY <1>0, Least
<1>2. CASE n = 0
  <2>1. Sums(0, [i \in (Last + 1)..(Last + 1) |-> 0])
    BY DEF Sums
  <2>2. QED
    BY <1>2, <2>1
<1>3. CASE n # 0
  <2>1. n - 1 \in 0..(Last - 1) /\ n - 1 \notin B /\ (n - 1) + 1 = n
    BY <1>1, <1>3
  <2>2. PICK g : Sums(n - 1, g)
    BY <2>1
  <2>3. QED
    BY <2>1, <2>2, SumsExtend
<1>4. QED
  BY <1>2, <1>3

\* KeptBytes is what its equation says.
LEMMA KeptBytesDef == ASSUME BackupTypeOK
  PROVE KeptBytes = [i \in 1..Last + 1 |-> IF i > Last THEN 0 ELSE KeptBytes[i + 1] + Keeps(i, KeptBytes[i + 1])]
<1> USE BackupNumbers
<1> DEFINE P(f) == f = [i \in 1..Last + 1 |->
                          IF i > Last THEN 0
                          ELSE f[i + 1] + IF i \in Listed /\ Recent(i) /\ Fits(i, f[i + 1])
                                          THEN about[i].bytes ELSE 0]
<1>1. \E f : P(f)
  <2>1. PICK g : Sums(Last, g)
    BY SumsExist
  <2>2. P(g)
    BY <2>1 DEF Sums, Keeps
  <2>3. QED
    BY <2>2
<1>2. KeptBytes = CHOOSE f : P(f)
  BY DEF KeptBytes
<1>3. P(KeptBytes)
  <2> HIDE DEF P
  <2>1. QED
    BY <1>1, <1>2
<1>4. QED
  BY <1>3 DEF Keeps

------------------------------------------------------------------------------
\* What prune keeps.

\* Of the snapshots from k on, those that a retention admits.
Admitted(k) == {j \in Listed : j >= k /\ Recent(j)}

LEMMA SnapshotsFinite == \A S \in SUBSET Snapshots : IsFiniteSet(S) /\ Cardinality(S) \in Nat
<1>1. IsFiniteSet(Snapshots)
  BY BackupNumbers, FS_Interval DEF Snapshots
<1>2. QED
  BY <1>1, FS_Subset, FS_CardinalityType

LEMMA Bytes == ASSUME BackupTypeOK, NEW i \in Snapshots PROVE about[i].bytes \in 1..MaxBytes
  BY DEF BackupTypeOK

\* Every snapshot kept weighs at most MaxBytes.
KeptIsBounded(k) == /\ KeptBytes[k] \in Nat
                    /\ KeptBytes[k] <= MaxBytes * Cardinality(Admitted(k))

LEMMA KeptBound == ASSUME BackupTypeOK, NEW k \in 1..(Last + 1) PROVE KeptIsBounded(k)
<1> USE BackupNumbers
<1>0. \A i : Admitted(i) \in SUBSET Snapshots
  BY DEF Admitted, Listed
<1>1. KeptIsBounded(Last + 1)
  <2>1. Admitted(Last + 1) = {}
    BY DEF Admitted, Listed, Snapshots
  <2>2. KeptBytes[Last + 1] = 0
    BY KeptBytesDef
  <2>3. QED
    BY <2>1, <2>2, FS_EmptySet DEF KeptIsBounded
<1>2. ASSUME NEW i \in 1..Last, KeptIsBounded(i + 1) PROVE KeptIsBounded(i)
  <2> DEFINE n == Cardinality(Admitted(i + 1))
             b == KeptBytes[i + 1]
  <2>1. KeptBytes[i] = b + Keeps(i, b)
    BY KeptBytesDef
  <2>2. n \in Nat /\ b \in Nat /\ b <= MaxBytes * n
    BY <1>0, <1>2, SnapshotsFinite DEF KeptIsBounded
  <2>3. CASE i \in Listed /\ Recent(i)
    <3>1. Admitted(i) = Admitted(i + 1) \cup {i} /\ i \notin Admitted(i + 1)
      BY <2>3 DEF Admitted, Listed, Snapshots
    <3>2. Cardinality(Admitted(i)) = n + 1
      BY <1>0, <3>1, SnapshotsFinite, FS_AddElement
    <3>3. Keeps(i, b) \in 0..MaxBytes
      BY <2>3, Bytes DEF Keeps, Listed
    <3>4. MaxBytes * (n + 1) = MaxBytes * n + MaxBytes /\ MaxBytes * n \in Nat
      BY <2>2
    <3> HIDE DEF n, b
    <3>5. QED
      BY <2>1, <2>2, <3>2, <3>3, <3>4 DEF KeptIsBounded
  <2>4. CASE ~(i \in Listed /\ Recent(i))
    <3>1. Admitted(i) = Admitted(i + 1)
      BY <2>4 DEF Admitted, Listed, Snapshots
    <3>2. Keeps(i, b) = 0
      BY <2>4 DEF Keeps
    <3>3. KeptBytes[i] = KeptBytes[i + 1]
      BY <2>1, <2>2, <3>2
    <3>4. QED
      BY <1>2, <3>1, <3>3 DEF KeptIsBounded
  <2>5. QED
    BY <2>3, <2>4
<1> DEFINE B == {i \in 1..(Last + 1) : ~KeptIsBounded(i)}
<1> SUFFICES ASSUME B # {} PROVE FALSE
  OBVIOUS
<1>3. B \in SUBSET (0..(Last + 1))
  OBVIOUS
<1>4. PICK i \in B : \A m \in B : m <= i
  <2>1. Last + 1 \in Nat
    OBVIOUS
  <2> HIDE DEF B
  <2>2. QED
    BY <1>3, <2>1, Greatest
<1>5. i # Last + 1
  BY <1>1
<1>6. i \in 1..Last /\ i + 1 \in 1..(Last + 1) /\ i + 1 \notin B
  BY <1>4, <1>5
<1>7. QED
  BY <1>2, <1>6

\* The newest backup is kept, and so is the newest daily one: what is kept of
\* the newer ones is manual, and leaves room.
LEMMA NewestIsKept ==
  ASSUME BackupTypeOK, NEW i \in Listed, \A j \in Listed : j <= i
  PROVE  i \notin Doomed
<1> USE BackupNumbers
<1>0. i \in 1..Last /\ i + 1 \in 1..(Last + 1)
  BY DEF Listed, Snapshots
<1>1. Recent(i)
  <2>1. {j \in Listed : j >= i /\ about[j].kind = about[i].kind} = {i}
    BY <1>0 DEF Listed, Snapshots
  <2>2. Retention(about[i].kind) >= 1
    BY DEF Retention
  <2>3. QED
    BY <2>1, <2>2, FS_Singleton DEF Recent
<1>2. KeptBytes[i + 1] = 0
  <2>1. Admitted(i + 1) = {}
    BY <1>0 DEF Admitted, Listed, Snapshots
  <2>2. Cardinality(Admitted(i + 1)) = 0
    BY <2>1, FS_EmptySet
  <2>3. QED
    BY <1>0, <2>2, KeptBound DEF KeptIsBounded
<1>3. QED
  BY <1>1, <1>2 DEF Doomed, Fits

LEMMA NewestDailyIsKept ==
  ASSUME BackupTypeOK, NEW i \in Listed, about[i].kind = "daily",
         \A j \in Listed : about[j].kind = "daily" => j <= i
  PROVE  i \notin Doomed
<1> USE BackupNumbers
<1>0. i \in 1..Last /\ i + 1 \in 1..(Last + 1)
  BY DEF Listed, Snapshots
<1>1. Recent(i)
  <2>1. {j \in Listed : j >= i /\ about[j].kind = about[i].kind} = {i}
    BY <1>0 DEF Listed, Snapshots
  <2>2. Retention(about[i].kind) >= 1
    BY DEF Retention
  <2>3. QED
    BY <2>1, <2>2, FS_Singleton DEF Recent
<1> DEFINE A == Admitted(i + 1)
<1>2. A \in SUBSET Snapshots /\ \A j \in A : j > i /\ about[j].kind = "manual" /\ Recent(j)
  BY <1>0 DEF Admitted, Listed, Snapshots, BackupTypeOK, Kinds
<1>3. Cardinality(A) \in Nat /\ Cardinality(A) <= ManualRetention
  <2>1. CASE A = {}
    BY <2>1, FS_EmptySet
  <2>2. CASE A # {}
    <3>1. PICK m \in A : \A j \in A : m <= j
      <4>1. A \in SUBSET Nat
        BY <1>2 DEF Snapshots
      <4> HIDE DEF A
      <4>2. QED
        BY <2>2, <4>1, Least
    <3> DEFINE S == {j \in Listed : j >= m /\ about[j].kind = about[m].kind}
    <3>2. A \in SUBSET S /\ S \in SUBSET Snapshots
      BY <1>2, <3>1 DEF Admitted, Listed, Snapshots
    <3>3. Cardinality(S) <= ManualRetention
      BY <1>2 DEF Recent, Retention
    <3> HIDE DEF A, S
    <3>4. Cardinality(A) <= Cardinality(S) /\ Cardinality(A) \in Nat /\ Cardinality(S) \in Nat
      BY <1>2, <3>2, SnapshotsFinite, FS_Subset
    <3>5. QED
      BY <3>3, <3>4
  <2>3. QED
    BY <2>1, <2>2
<1>4. KeptBytes[i + 1] \in Nat /\ KeptBytes[i + 1] <= MaxBytes * Cardinality(A)
  BY <1>0, KeptBound DEF KeptIsBounded
<1>5. about[i].bytes \in Nat /\ about[i].bytes <= MaxBytes
  BY <1>0, Bytes DEF Snapshots
<1>6. ASSUME NEW n \in Nat, NEW b \in Nat, NEW c \in Nat, n <= ManualRetention, b <= MaxBytes * n, c <= MaxBytes
      PROVE  b + c <= Budget
  <2>1. MaxBytes * n <= MaxBytes * ManualRetention
    BY <1>6
  <2>2. (ManualRetention + 1) * MaxBytes = MaxBytes * ManualRetention + MaxBytes
    OBVIOUS
  <2>3. MaxBytes * n \in Nat /\ MaxBytes * ManualRetention \in Nat
    OBVIOUS
  <2>4. QED
    BY <1>6, <2>1, <2>2, <2>3, BackupBounds
<1>7. Fits(i, KeptBytes[i + 1])
  BY <1>3, <1>4, <1>5, <1>6 DEF Fits
<1>8. QED
  BY <1>1, <1>7 DEF Doomed

------------------------------------------------------------------------------
\* The folder.

\* What is listed has been verified, and is not the snapshot under way.
ListedIsSound == \A i \in Listed : about[i].sound
UnderWay == /\ job.pc \in {"verify", "manifest", "tidy"} => taken > 0
            /\ job.pc \in {"verify", "manifest"} => "manifest" \notin files[taken]
            /\ job.pc = "manifest" => about[taken].sound
            /\ job.pc = "copy" \/ (job.pc = "prune" /\ job.next = "copy") => taken < Last
LaterIsEmpty == \A i \in Snapshots : i > taken => files[i] = {}

\* For all that prune is about to remove there is something it spares.
Spared(i, j) == j >= i /\ (about[i].kind = "daily" => about[j].kind = "daily")
PruneSpares == job.pc = "prune" =>
  \A i \in Listed \cap job.doomed : \E j \in Listed \ job.doomed : Spared(i, j)

BackupInv == BackupTypeOK /\ ListedIsSound /\ UnderWay /\ LaterIsEmpty /\ PruneSpares

JobStates == [pc : {"copy", "verify", "manifest", "tidy"}, kind : Kinds]
             \cup [pc : {"prune"}, kind : Kinds, doomed : SUBSET Snapshots, next : {"copy", "idle"}]
             \cup {Unlocked}

LEMMA JobKinds == \A x \in JobStates :
  /\ x.pc \in {"copy", "verify", "manifest", "tidy"} => x \in [pc : {"copy", "verify", "manifest", "tidy"}, kind : Kinds]
  /\ x.pc = "prune" => x \in [pc : {"prune"}, kind : Kinds, doomed : SUBSET Snapshots, next : {"copy", "idle"}]
  BY DEF JobStates, Unlocked

LEMMA BackupInvInit == BackupInit => BackupInv
<1> USE BackupNumbers
<1> SUFFICES ASSUME BackupInit PROVE BackupInv
  OBVIOUS
<1>1. BackupTypeOK
  BY DEF BackupInit, BackupTypeOK, Nothing, Kinds, Snapshots
<1>2. QED
  BY <1>1 DEF BackupInit, BackupInv, ListedIsSound, Listed, UnderWay, LaterIsEmpty, PruneSpares, Unlocked

ListedDaily == {j \in Listed : about[j].kind = "daily"}

LEMMA DoomedSpares == ASSUME BackupTypeOK, NEW i \in Doomed
                      PROVE  \E j \in Listed \ Doomed : Spared(i, j)
<1> USE BackupNumbers
<1>0. i \in Listed /\ Listed \in SUBSET (0..Last) /\ Listed \subseteq Nat
  BY DEF Doomed, Listed, Snapshots
<1>1. PICK m \in Listed : \A j \in Listed : j <= m
  BY <1>0, Greatest
<1>2. m \notin Doomed
  BY <1>1, NewestIsKept
<1>3. CASE about[i].kind # "daily"
  BY <1>1, <1>0, <1>2, <1>3 DEF Spared
<1>4. CASE about[i].kind = "daily"
  <2>1. ListedDaily \in SUBSET (0..Last) /\ i \in ListedDaily
    BY <1>0, <1>4 DEF ListedDaily
  <2>2. PICK d \in ListedDaily : \A j \in ListedDaily : j <= d
    BY <2>1, Greatest
  <2>3. d \notin Doomed
    BY <2>2, NewestDailyIsKept DEF ListedDaily
  <2>4. QED
    BY <1>0, <2>1, <2>2, <2>3 DEF Spared, ListedDaily
<1>5. QED
  BY <1>3, <1>4

\* Prune begins.
LEMMA PruningInv == ASSUME BackupInv, NEW k \in Kinds, NEW next \in {"copy", "idle"},
                           next = "copy" => taken < Last,
                           job' = Pruning(k, next), UNCHANGED <<files, about, taken>>
                    PROVE  BackupInv'
<1> USE DEF BackupInv
<1>1. Doomed \in SUBSET Snapshots
  BY DEF Doomed, Listed
<1>2. job' \in [pc : {"prune"}, kind : Kinds, doomed : SUBSET Snapshots, next : {"copy", "idle"}]
  BY <1>1 DEF Pruning
<1>3. job'.pc = "prune" /\ job'.doomed = Doomed /\ job'.next = next
  BY DEF Pruning
<1>4. BackupTypeOK'
  BY <1>2 DEF BackupTypeOK
<1>5. UnderWay'
  BY <1>3 DEF UnderWay
<1>6. PruneSpares'
  <2>1. \A i \in Doomed : \E j \in Listed \ Doomed : Spared(i, j)
    BY DoomedSpares
  <2>2. QED
    BY <1>3, <2>1 DEF PruneSpares, Listed, Spared
<1>7. QED
  BY <1>4, <1>5, <1>6 DEF ListedIsSound, Listed, LaterIsEmpty

\* What a step leaves of the restore points.
Survives == \A i \in Usable : \E j \in Usable' :
  j >= i /\ (about[i].kind = "daily" => about'[j].kind = "daily")

LEMMA SurvivesKept == ASSUME \A i \in Listed : i \in Listed' /\ about'[i] = about[i] PROVE Survives
<1> SUFFICES ASSUME NEW i \in Usable PROVE i \in Usable' /\ i >= i /\ about'[i] = about[i]
  BY DEF Survives
<1>1. i \in Listed /\ about[i].sound /\ i \in Nat
  BY BackupNumbers DEF Usable, Listed, Snapshots
<1>2. i \in Listed' /\ about'[i] = about[i]
  BY <1>1
<1>3. QED
  BY <1>1, <1>2 DEF Usable

LEMMA RemovesInv == ASSUME BackupInv, PruneRemoves PROVE BackupInv' /\ Survives
<1> USE BackupNumbers DEF BackupInv
<1>0. job \in [pc : {"prune"}, kind : Kinds, doomed : SUBSET Snapshots, next : {"copy", "idle"}]
  BY JobKinds DEF PruneRemoves, BackupTypeOK, JobStates
<1> PICK i : i = CHOOSE k \in job.doomed : \A j \in job.doomed : j <= k
  OBVIOUS
<1>1. i \in job.doomed /\ i \in Snapshots
  <2>1. job.doomed \in SUBSET (0..Last) /\ job.doomed # {}
    BY <1>0 DEF Snapshots, PruneRemoves
  <2>2. \E x \in job.doomed : \A j \in job.doomed : j <= x
    BY <2>1, Greatest
  <2>3. QED
    BY <1>0, <2>2
<1>p. /\ taken' = taken
      /\ \/ "file" \in files[i] /\ files' = [files EXCEPT ![i] = @ \ {"file"}]
            /\ about' = [about EXCEPT ![i] = Nothing] /\ job' = job
         \/ "file" \notin files[i] /\ files' = [files EXCEPT ![i] = {}]
            /\ about' = about /\ job' = [job EXCEPT !.doomed = @ \ {i}]
  BY DEF PruneRemoves
<1>2. taken' = taken /\ files' \in [Snapshots -> SUBSET Parts] /\ about' \in [Snapshots -> [kind : Kinds, bytes : 1..MaxBytes, sound : BOOLEAN]]
  <2>1. Nothing \in [kind : Kinds, bytes : 1..MaxBytes, sound : BOOLEAN]
    BY DEF Nothing, Kinds
  <2>2. QED
    BY <1>1, <1>p, <2>1 DEF BackupTypeOK
<1>3. \A x \in Snapshots : x # i => files'[x] = files[x] /\ about'[x] = about[x]
  BY <1>p DEF BackupTypeOK
<1>4. files'[i] \subseteq files[i] /\ "file" \notin files'[i]
  <2>1. files'[i] = files[i] \ {"file"} \/ files'[i] = {}
    BY <1>1, <1>p DEF BackupTypeOK
  <2>2. QED
    BY <2>1
<1>5. /\ job' = job \/ job' = [job EXCEPT !.doomed = @ \ {i}]
      /\ job' = job \/ i \notin Listed
      /\ job' \in [pc : {"prune"}, kind : Kinds, doomed : SUBSET Snapshots, next : {"copy", "idle"}]
  <2>2. \A x \in [pc : {"prune"}, kind : Kinds, doomed : SUBSET Snapshots, next : {"copy", "idle"}] :
           [x EXCEPT !.doomed = @ \ {i}] \in [pc : {"prune"}, kind : Kinds, doomed : SUBSET Snapshots, next : {"copy", "idle"}]
    OBVIOUS
  <2>3. [job EXCEPT !.doomed = @ \ {i}] \in [pc : {"prune"}, kind : Kinds, doomed : SUBSET Snapshots, next : {"copy", "idle"}]
    BY <1>0, <2>2
  <2>4. QED
    BY <1>0, <1>p, <2>3 DEF Listed
<1>6. job'.pc = "prune" /\ job'.next = job.next /\ job'.doomed \subseteq job.doomed /\ job.pc = "prune"
  BY <1>0, <1>5
<1>7. Listed' = Listed \ {i}
  BY <1>1, <1>3, <1>4 DEF Listed
<1>8. BackupTypeOK'
  BY <1>2, <1>5 DEF BackupTypeOK
<1>9. ListedIsSound'
  BY <1>3, <1>7 DEF ListedIsSound, Listed
<1>10. UnderWay'
  BY <1>2, <1>6 DEF UnderWay
<1>11. LaterIsEmpty'
  BY <1>2, <1>3, <1>4 DEF LaterIsEmpty
<1>12. ASSUME NEW x \in Listed, x \in job.doomed
       PROVE  \E j \in Listed' \ job.doomed : Spared(x, j) /\ about'[j] = about[j]
  <2>1. PICK j \in Listed \ job.doomed : Spared(x, j)
    BY <1>6, <1>12 DEF PruneSpares
  <2>2. j # i /\ j \in Snapshots
    BY <1>1 DEF Listed
  <2>3. QED
    BY <1>3, <1>7, <2>1, <2>2
<1>13. PruneSpares'
  <2> SUFFICES ASSUME NEW x \in Listed' \cap job'.doomed
               PROVE  \E j \in Listed' \ job'.doomed : Spared(x, j)'
    BY DEF PruneSpares
  <2>1. x \in Listed /\ x \in job.doomed /\ x # i /\ x \in Snapshots
    BY <1>6, <1>7 DEF Listed
  <2>2. about'[x] = about[x]
    BY <1>3, <2>1
  <2>3. PICK j \in Listed' \ job.doomed : Spared(x, j) /\ about'[j] = about[j]
    BY <1>12, <2>1
  <2>4. QED
    BY <1>6, <2>2, <2>3 DEF Spared
<1>14. Survives
  <2> SUFFICES ASSUME NEW x \in Usable
               PROVE  \E j \in Usable' : j >= x /\ (about[x].kind = "daily" => about'[j].kind = "daily")
    BY DEF Survives
  <2>1. x \in Listed /\ x \in Nat /\ x \in Snapshots
    BY DEF Usable, Listed, Snapshots
  <2>2. Usable' = Listed'
    BY <1>9 DEF Usable, ListedIsSound
  <2>3. CASE x = i
    <3>1. PICK j \in Listed' \ job.doomed : Spared(x, j) /\ about'[j] = about[j]
      BY <1>1, <1>12, <2>1, <2>3
    <3>2. QED
      BY <2>2, <3>1 DEF Spared
  <2>4. CASE x # i
    BY <1>3, <1>7, <2>1, <2>2, <2>4
  <2>5. QED
    BY <2>3, <2>4
<1>15. QED
  BY <1>8, <1>9, <1>10, <1>11, <1>13, <1>14

\* The steps of the snapshot under way touch nothing that is listed.
LEMMA WorkInv ==
  ASSUME BackupInv, BackupTypeOK', UnderWay', job'.pc # "prune", NEW i \in Snapshots, i \notin Listed,
         i \in Listed' => about'[i].sound, i <= taken', taken <= taken',
         \A x \in Snapshots : x # i => files'[x] = files[x] /\ about'[x] = about[x]
  PROVE  BackupInv' /\ Survives
<1> USE DEF BackupInv
<1>1. \A x \in Snapshots : x # i => (x \in Listed' <=> x \in Listed)
  BY DEF Listed
<1>2. ListedIsSound'
  BY <1>1 DEF ListedIsSound, Listed
<1>3. LaterIsEmpty'
  <2>1. taken \in Int /\ taken' \in Int /\ Snapshots \subseteq Int
    BY BackupNumbers DEF BackupTypeOK, Snapshots
  <2>2. ASSUME NEW x \in Snapshots, x > taken' PROVE files'[x] = {}
    <3>1. x # i /\ x > taken
      BY <2>1, <2>2
    <3>2. QED
      BY <3>1 DEF LaterIsEmpty
  <2>3. QED
    BY <2>2 DEF LaterIsEmpty
<1>4. Survives
  <2>1. \A x \in Listed : x \in Snapshots /\ x # i
    BY DEF Listed
  <2>2. QED
    BY <1>1, <2>1, SurvivesKept
<1>5. QED
  BY <1>2, <1>3, <1>4 DEF PruneSpares

LEMMA BackupStep == ASSUME BackupInv, [BackupNext]_backupVars PROVE BackupInv' /\ Survives
<1> USE BackupNumbers DEF BackupInv
<1> DEFINE Working == [pc : {"copy", "verify", "manifest", "tidy"}, kind : Kinds]
<1>k. /\ job.pc \in {"copy", "verify", "manifest", "tidy"} => job \in Working
      /\ job.pc = "prune" => job \in [pc : {"prune"}, kind : Kinds, doomed : SUBSET Snapshots, next : {"copy", "idle"}]
  BY JobKinds DEF BackupTypeOK, JobStates
<1>s. UNCHANGED <<files, about>> => Survives
  BY SurvivesKept DEF Listed
<1>w. ASSUME job \in Working, NEW step \in {"verify", "manifest", "tidy"}
      PROVE  [job EXCEPT !.pc = step] \in Working /\ [job EXCEPT !.pc = step].pc = step
  <2>1. \A x \in Working : [x EXCEPT !.pc = step] \in Working /\ [x EXCEPT !.pc = step].pc = step
    OBVIOUS
  <2>2. QED
    BY <1>w, <2>1
<1>n. Nothing \in [kind : Kinds, bytes : 1..MaxBytes, sound : BOOLEAN]
  BY DEF Nothing, Kinds
<1>t. taken \in 0..Last /\ (taken > 0 => taken \in Snapshots)
  BY DEF BackupTypeOK, Snapshots
\* The lock is given back, or the job goes on, with the folder as it is.
<1>u. ASSUME UNCHANGED <<files, about, taken>>, job' = Unlocked PROVE BackupInv' /\ Survives
  BY <1>s, <1>u DEF BackupTypeOK, ListedIsSound, Listed, UnderWay, LaterIsEmpty, PruneSpares, Unlocked
<1>d. ASSUME Discard, job.pc \in {"verify", "manifest"}, taken' = taken PROVE BackupInv' /\ Survives
  <2>1. taken \in Snapshots /\ taken \notin Listed
    BY <1>d, <1>t DEF UnderWay, Listed
  <2>2. BackupTypeOK'
    BY <1>d, <1>n, <2>1 DEF Discard, BackupTypeOK
  <2>3. job' = Unlocked /\ taken \notin Listed' /\ UnderWay'
    BY <1>d, <2>1 DEF Discard, Listed, UnderWay, Unlocked, BackupTypeOK
  <2>4. \A x \in Snapshots : x # taken => files'[x] = files[x] /\ about'[x] = about[x]
    BY <1>d DEF Discard, BackupTypeOK
  <2>5. QED
    BY <1>d, <1>t, <2>1, <2>2, <2>3, <2>4, WorkInv DEF Unlocked
<1>1. ASSUME NEW k \in Kinds, BackupBegins(k) PROVE BackupInv' /\ Survives
  BY <1>1, <1>s, PruningInv DEF BackupBegins
<1>2. CASE BackupTidies
  <2>1. job.kind \in Kinds
    BY <1>2, <1>k DEF BackupTidies
  <2>2. QED
    BY <1>2, <1>s, <2>1, PruningInv DEF BackupTidies
<1>3. CASE PruneRemoves
  BY <1>3, RemovesInv
<1>4. CASE PruneEnds
  <2>1. CASE job.next = "copy"
    <3>1. job' = [pc |-> "copy", kind |-> job.kind] /\ job'.pc = "copy" /\ job' \in Working
      BY <1>4, <1>k, <2>1 DEF PruneEnds
    <3>2. taken < Last
      BY <1>4, <2>1 DEF PruneEnds, UnderWay
    <3>3. BackupTypeOK' /\ UnderWay' /\ PruneSpares'
      BY <1>4, <3>1, <3>2 DEF PruneEnds, BackupTypeOK, UnderWay, PruneSpares
    <3>4. QED
      BY <1>4, <1>s, <3>3 DEF PruneEnds, ListedIsSound, Listed, LaterIsEmpty
  <2>2. CASE job.next # "copy"
    BY <1>4, <1>u, <2>2 DEF PruneEnds
  <2>3. QED
    BY <2>1, <2>2
<1>5. CASE BackupCopies
  <2> DEFINE i == taken + 1
  <2>0. job \in Working /\ i \in Snapshots /\ i > taken /\ i \in 0..Last
    BY <1>5, <1>k, <1>t DEF BackupCopies, UnderWay, Snapshots
  <2>1. taken' = i /\ files' = [files EXCEPT ![i] = {"partial"}] /\ job' = [job EXCEPT !.pc = "verify"]
    BY <1>5 DEF BackupCopies
  <2>2. PICK r \in [kind : Kinds, bytes : 1..MaxBytes, sound : BOOLEAN] : about' = [about EXCEPT ![i] = r]
    BY <1>5, <2>0 DEF BackupCopies
  <2>3. BackupTypeOK'
    BY <1>w, <2>0, <2>1, <2>2 DEF BackupTypeOK, Parts
  <2>4. i \notin Listed /\ i \notin Listed'
    BY <2>0, <2>1 DEF LaterIsEmpty, Listed, BackupTypeOK
  <2>5. UnderWay'
    <3>1. job'.pc = "verify"
      BY <1>w, <2>0, <2>1
    <3>2. files'[i] = {"partial"}
      BY <2>0, <2>1 DEF BackupTypeOK
    <3>3. QED
      BY <1>t, <2>1, <3>1, <3>2 DEF UnderWay
  <2>6. \A x \in Snapshots : x # i => files'[x] = files[x] /\ about'[x] = about[x]
    BY <2>1, <2>2 DEF BackupTypeOK
  <2>7. job'.pc # "prune" /\ i <= taken' /\ taken <= taken'
    BY <1>t, <1>w, <2>0, <2>1
  <2> HIDE DEF i
  <2>8. QED
    BY <2>0, <2>3, <2>4, <2>5, <2>6, <2>7, WorkInv
<1>6. CASE BackupVerifies
  <2>0. job.pc = "verify" /\ taken' = taken
    BY <1>6 DEF BackupVerifies
  <2>1. CASE Discard
    BY <1>d, <2>0, <2>1
  <2>2. CASE ~Discard
    <3>1. /\ about[taken].sound /\ files' = [files EXCEPT ![taken] = {"file"}]
          /\ job' = [job EXCEPT !.pc = "manifest"] /\ about' = about
      BY <1>6, <2>2 DEF BackupVerifies, PassesRehearsal
    <3>2. job \in Working /\ taken \in Snapshots /\ taken \notin Listed
      BY <1>k, <1>t, <2>0 DEF UnderWay, Listed
    <3>3. BackupTypeOK'
      BY <1>w, <2>0, <3>1, <3>2 DEF BackupTypeOK, Parts
    <3>4. files'[taken] = {"file"} /\ job'.pc = "manifest"
      BY <1>w, <3>1, <3>2 DEF BackupTypeOK
    <3>5. taken \notin Listed' /\ UnderWay'
      BY <1>t, <2>0, <3>1, <3>2, <3>4 DEF Listed, UnderWay, Snapshots
    <3>6. \A x \in Snapshots : x # taken => files'[x] = files[x] /\ about'[x] = about[x]
      BY <3>1 DEF BackupTypeOK
    <3>7. QED
      BY <1>t, <2>0, <3>2, <3>3, <3>4, <3>5, <3>6, WorkInv
  <2>3. QED
    BY <2>1, <2>2
<1>7. CASE BackupListed
  <2>1. /\ job.pc = "manifest" /\ taken' = taken /\ about' = about
        /\ files' = [files EXCEPT ![taken] = {"file", "manifest"}] /\ job' = [job EXCEPT !.pc = "tidy"]
    BY <1>7 DEF BackupListed
  <2>2. job \in Working /\ taken \in Snapshots /\ taken \notin Listed /\ about[taken].sound
    BY <1>k, <1>t, <2>1 DEF UnderWay, Listed
  <2>3. BackupTypeOK'
    BY <1>w, <2>1, <2>2 DEF BackupTypeOK, Parts
  <2>4. job'.pc = "tidy" /\ UnderWay'
    BY <1>t, <1>w, <2>1, <2>2 DEF UnderWay, Snapshots
  <2>5. \A x \in Snapshots : x # taken => files'[x] = files[x] /\ about'[x] = about[x]
    BY <2>1 DEF BackupTypeOK
  <2>6. QED
    BY <1>t, <2>1, <2>2, <2>3, <2>4, <2>5, WorkInv
<1>8. CASE BackupFails
  BY <1>8, <1>d, <1>u DEF BackupFails
<1>9. CASE BackupCrash
  BY <1>9, <1>u DEF BackupCrash
<1>10. CASE UNCHANGED backupVars
  BY <1>10, <1>s DEF backupVars, BackupTypeOK, ListedIsSound, Listed, UnderWay, LaterIsEmpty, PruneSpares, Spared
<1>11. QED
  BY <1>1, <1>2, <1>3, <1>4, <1>5, <1>6, <1>7, <1>8, <1>9, <1>10 DEF BackupNext

\* The folder, the manifests, the counter and the holder of the lock keep their
\* types.
THEOREM BackupTypeCorrect == BackupSpec => []BackupTypeOK
<1>1. BackupInv => BackupTypeOK
  BY DEF BackupInv
<1>2. QED
  BY <1>1, BackupInvInit, BackupStep, PTL DEF BackupSpec

\* operations_backup.go, prune: for any retentions, sizes and budget that leave
\* room for one daily snapshot beside the manual ones, the newest backup and the
\* newest daily one are never pruned, and no crash or failure loses them.
THEOREM RestorePointIsKept == BackupSpec => RestorePointStands
<1>1. ASSUME BackupInv, [BackupNext]_backupVars
      PROVE  \A i \in Usable : \E j \in Usable' :
               j >= i /\ (about[i].kind = "daily" => about'[j].kind = "daily")
  BY <1>1, BackupStep DEF Survives
<1>2. QED
  BY <1>1, BackupInvInit, BackupStep, PTL DEF BackupSpec, RestorePointStands
=============================================================================
