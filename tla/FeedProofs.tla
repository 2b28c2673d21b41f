------------------------------ MODULE FeedProofs ------------------------------
(***************************************************************************)
(* Theorems of PlatformFeed: types, no suspect card is missed, no card is  *)
(* blocked without the failures the policy asks for, and no code is        *)
(* exchanged before its orders have failed.                                *)
(***************************************************************************)
EXTENDS PlatformFeed, FiniteSetTheorems, TLAPS

\* The platform's order and the code it was tried with know of one another.
StartedIsLast == \A o \in Orders : order[o] # "none" => last[CodeOf[o]] # NoOrder
LastIsStarted == \A c \in Codes : last[c] # NoOrder => CodeOf[last[c]] = c /\ order[last[c]] # "none"
FeedIsOfStarted == \A o \in Orders : feed[o] > 0 => order[o] # "none"

Typed == TypeOK /\ StartedIsLast /\ LastIsStarted /\ FeedIsOfStarted

\* Somebody will still block the card, unless it is blocked: a check that has
\* read its verdict does not count if the verdict was that all is well.
Alerts(x, card) == /\ x # Idle /\ x.pc \in {"stats", "check", "block"}
                   /\ x.pc = "check" => x.suspect
                   /\ CardOf[x.order] = card
SuspectIsAlerted == \A card \in Cards :
  Suspect(card) => \/ \E h \in Hooks : Alerts(hook[h], card)
                   \/ card \in blocked \cup pardoned \cup interrupted

\* An event is one of a declined order, of the order's card, and the only one.
EventsAreDeclines == \A ev \in events : ev.card = CardOf[ev.order] /\ order[ev.order] = "declined"
OneEventEach == \A a, b \in events : a.order = b.order => a = b

\* An observation is of a declined order, and one that goes on to block has
\* counted enough of them.
Declined(card) == {o \in Orders : CardOf[o] = card /\ order[o] = "declined"}
Enough(card) == Cardinality(Declined(card)) >= FailThreshold
Founded(x) == /\ x.pc \in {"insert", "stats", "check", "block"} => order[x.order] = "declined"
              /\ x.pc = "block" \/ (x.pc = "check" /\ x.suspect) => Enough(CardOf[x.order])
HooksAreFounded == \A h \in Hooks : Founded(hook[h])

FinitelyStarted == IsFiniteSet({o \in Orders : order[o] # "none"})

BlockInv == /\ FinitelyStarted /\ EventsAreDeclines /\ OneEventEach
            /\ HooksAreFounded /\ BlockIsJustified

HookStates == Delivering \cup Observing \cup {Idle}
ExchangeStates == Exchanging \cup {Idle}
Looked == [pc : {"detail", "issue"}, code : Codes, tried : SUBSET Orders,
           order : Orders, state : OrderStates, sure : BOOLEAN]

------------------------------------------------------------------------------
\* Typing.

LEMMA HookKinds == \A x \in HookStates :
  /\ x.pc \in {"status", "write"} => x \in [pc : {"status", "write"}, order : Orders, email : Emails]
  /\ x.pc \in {"insert", "stats"} => x \in [pc : {"insert", "stats"}, order : Orders, email : Emails]
  /\ x.pc = "check" => x \in [pc : {"check"}, order : Orders, suspect : BOOLEAN]
  /\ x.pc = "block" => x \in [pc : {"block"}, order : Orders]
  /\ x # Idle => x.order \in Orders /\ x.pc # "idle"
  BY DEF HookStates, Delivering, Observing, Idle

LEMMA ExchangeKinds == \A x \in ExchangeStates :
  /\ x.pc = "list" => x \in [pc : {"list"}, code : Codes]
  /\ x.pc \in {"detail", "issue"} => x \in Looked
  /\ x.pc \in {"disable", "record"} => x \in [pc : {"disable", "record"}, code : Codes, new : Codes]
  BY DEF ExchangeStates, Exchanging, Idle, Looked

LEMMA EmailType == ASSUME Typed, NEW o \in Orders, order[o] # "none"
                   PROVE  EmailFor(o) \subseteq Emails
<1>1. last[CodeOf[o]] \in Orders
  BY OrdersAssumption DEF Typed, TypeOK, StockTypeOK, StartedIsLast
<1>2. QED
  BY <1>1 DEF EmailFor, SessionEmail, Emails

LEMMA ObservedType == ASSUME Typed, NEW h \in Hooks, hook[h].pc \in {"status", "write"}
                      PROVE  Observed(h) \in HookStates
<1>1. hook[h] \in [pc : {"status", "write"}, order : Orders, email : Emails]
  BY HookKinds DEF Typed, TypeOK, HealthTypeOK, HookStates
<1>2. \A x \in [pc : {"status", "write"}, order : Orders, email : Emails] :
         [x EXCEPT !.pc = "insert"] \in [pc : {"insert", "stats"}, order : Orders, email : Emails]
  OBVIOUS
<1>3. QED
  BY <1>1, <1>2 DEF Observed, HookStates, Observing

LEMMA TypedInit == Init => Typed
<1> SUFFICES ASSUME Init PROVE Typed
  OBVIOUS
<1>1. StockTypeOK
  BY FreshAssumption, PolicyAssumption DEF Init, StockTypeOK, CodeStatus, OrderStates, Final
<1>2. HealthTypeOK
  BY DEF Init, HealthTypeOK
<1>3. StartedIsLast /\ LastIsStarted /\ FeedIsOfStarted
  BY OrdersAssumption DEF Init, StartedIsLast, LastIsStarted, FeedIsOfStarted
<1>4. QED
  BY <1>1, <1>2, <1>3 DEF Typed, TypeOK

LEMMA PlatformTyped == ASSUME Typed, NEW o \in Orders, OrderStarts(o) \/ OrderStalls(o) \/ OrderEnds(o)
                       PROVE  Typed'
<1> CodeOf[o] \in Codes /\ NoOrder \notin Orders /\ Copies \in Nat
  BY OrdersAssumption, PolicyAssumption
<1> USE DEF platform, stock, health
<1>1. CASE OrderStarts(o)
  <2>1. TypeOK'
    BY <1>1 DEF OrderStarts, Typed, TypeOK, StockTypeOK, HealthTypeOK, OrderStates, CodeStatus
  <2>2. StartedIsLast' /\ LastIsStarted' /\ FeedIsOfStarted'
    BY <1>1, OrdersAssumption DEF OrderStarts, Typed, TypeOK, StockTypeOK, StartedIsLast, LastIsStarted, FeedIsOfStarted
  <2>3. QED
    BY <2>1, <2>2 DEF Typed
<1>2. CASE OrderEnds(o)
  <2> PICK s \in Final :
         /\ order' = [order EXCEPT ![o] = s]
         /\ upstream' = [upstream EXCEPT ![CodeOf[o]] = StatusAfter(s)]
    BY <1>2 DEF OrderEnds
  <2>1. TypeOK'
    BY <1>2 DEF OrderEnds, StatusAfter, Typed, TypeOK, StockTypeOK, HealthTypeOK, OrderStates, CodeStatus
  <2>2. s # "none"
    BY DEF Final
  <2>3. StartedIsLast' /\ LastIsStarted' /\ FeedIsOfStarted'
    BY <1>2, <2>2, OrdersAssumption DEF OrderEnds, Typed, TypeOK, StockTypeOK, StartedIsLast, LastIsStarted, FeedIsOfStarted
  <2>4. QED
    BY <2>1, <2>3 DEF Typed
<1>3. CASE OrderStalls(o)
  <2>1. TypeOK'
    BY <1>3 DEF OrderStalls, Typed, TypeOK, StockTypeOK, HealthTypeOK, OrderStates
  <2>2. StartedIsLast' /\ LastIsStarted' /\ FeedIsOfStarted'
    BY <1>3, OrdersAssumption DEF OrderStalls, Typed, TypeOK, StockTypeOK, StartedIsLast, LastIsStarted, FeedIsOfStarted
  <2>3. QED
    BY <2>1, <2>2 DEF Typed
<1>4. QED
  BY <1>1, <1>2, <1>3

\* The stock's steps leave the orders and the health of cards alone.
LEMMA StockFrame == StockNext => UNCHANGED <<order, last, feed, crew, health, hook>>
  BY DEF StockNext, ProbeStep, ProbeAsk, ProbeWrite, AdminSwitch, StoreByHand, IssueStep, IssueCall,
     IssueSave, IssueRecover, ExchangeStep, ExchangeStart, ExchangeList, ExchangeDetail, ExchangeIssue,
     ExchangeDisable, ExchangeRecord, OtherThanExchange, platform, stock, health

LEMMA ProbeTyped == ASSUME Typed, NEW p \in Probes, ProbeStep(p) PROVE StockTypeOK'
<1> USE PolicyAssumption DEF Typed, TypeOK, StockTypeOK, platform, stock, health, Save
<1>1. ASSUME NEW c \in Codes, ProbeAsk(p, c) PROVE StockTypeOK'
  BY <1>1 DEF ProbeAsk, Probing
<1>2. ASSUME ProbeWrite(p) PROVE StockTypeOK'
  <2>1. probe[p].code \in Codes /\ probe[p].status \in CodeStatus
    BY <1>2 DEF ProbeWrite, Probing, Idle
  <2>2. QED
    BY <1>2, <2>1 DEF ProbeWrite
<1>3. ASSUME NEW c \in Codes, AdminSwitch(p, c, "unused", "disabled") \/ AdminSwitch(p, c, "disabled", "unused")
      PROVE  StockTypeOK'
  BY <1>3 DEF AdminSwitch, Probing, CodeStatus
<1>4. ASSUME NEW c \in Codes, StoreByHand(p, c) PROVE StockTypeOK'
  BY <1>4 DEF StoreByHand, CodeStatus
<1>5. QED
  BY <1>1, <1>2, <1>3, <1>4 DEF ProbeStep

LEMMA IssueTyped == ASSUME Typed, NEW i \in Issuers, IssueStep(i) PROVE StockTypeOK'
<1> USE DEF Typed, TypeOK, StockTypeOK, platform, stock, health, Save, CodeStatus, Issuing
<1>1. CASE IssueCall(i)
  <2>1. upstream' \in [Codes -> CodeStatus \cup {"none"}]
    BY <1>1 DEF IssueCall, PlatformIssues, Unissued
  <2>2. issue' \in [Issuers -> Issuing \cup {Idle, [pc |-> "done"]}]
    BY <1>1 DEF IssueCall, Unissued
  <2>3. QED
    BY <1>1, <2>1, <2>2 DEF IssueCall
<1>2. CASE IssueSave(i)
  <2>1. issue[i].code \in Codes
    BY <1>2 DEF IssueSave, Idle
  <2>2. QED
    BY <1>2, <2>1 DEF IssueSave
<1>3. CASE IssueRecover(i)
  BY <1>3 DEF IssueRecover
<1>4. QED
  BY <1>1, <1>2, <1>3 DEF IssueStep

\* What an exchange knows once it has the list.
Shown(c, state) == [pc |-> "detail", code |-> c, tried |-> Tried(c),
                    order |-> last[c], state |-> state, sure |-> FALSE]

LEMMA ListedStep ==
  ASSUME Typed, NEW e \in Exchangers, ExchangeList(e)
  PROVE  \E step \in ExchangeStates :
           /\ exchange' = [exchange EXCEPT ![e] = step]
           /\ \/ step = Idle
              \/ \E c \in Codes : \E state \in ListedAs(order[last[c]]) :
                   /\ step = Shown(c, state) /\ last[c] \in Tried(c)
                   /\ \A o \in Tried(c) : order[o] # "completed"
<1> DEFINE c == exchange[e].code
           Goal == \E step \in ExchangeStates :
                     /\ exchange' = [exchange EXCEPT ![e] = step]
                     /\ \/ step = Idle
                        \/ \E d \in Codes : \E state \in ListedAs(order[last[d]]) :
                             /\ step = Shown(d, state) /\ last[d] \in Tried(d)
                             /\ \A o \in Tried(d) : order[o] # "completed"
<1>1. c \in Codes
  BY ExchangeKinds DEF ExchangeList, Typed, TypeOK, StockTypeOK, ExchangeStates
<1>2. CASE exchange' = [exchange EXCEPT ![e] = Idle]
  BY <1>2 DEF ExchangeStates
<1>3. ASSUME NEW state \in ListedAs(order[last[c]]), exchange' = [exchange EXCEPT ![e] = Shown(c, state)],
             Tried(c) # {}, \A o \in Tried(c) : order[o] # "completed"
      PROVE  Goal
  <2>1. last[c] # NoOrder /\ last[c] \in Orders
    BY <1>1, <1>3 DEF Tried, Typed, StartedIsLast, TypeOK, StockTypeOK
  <2>2. last[c] \in Tried(c)
    BY <1>1, <2>1 DEF Tried, Typed, LastIsStarted
  <2>3. state \in OrderStates
    BY <1>3, <2>1 DEF ListedAs, OrderStates, Final, Typed, TypeOK, StockTypeOK
  <2>4. Shown(c, state) \in Exchanging
    BY <1>1, <2>1, <2>3 DEF Shown, Exchanging, Tried
  <2>5. QED
    BY <1>1, <1>3, <2>2, <2>4 DEF ExchangeStates
<1>4. QED
  BY <1>2, <1>3 DEF ExchangeList, Advance, Shown

LEMMA DetailStep ==
  ASSUME Typed, NEW e \in Exchangers, ExchangeDetail(e)
  PROVE  \E step \in ExchangeStates :
           /\ exchange' = [exchange EXCEPT ![e] = step]
           /\ \/ step = Idle
              \/ \E sure \in BOOLEAN : step = Detailed(exchange[e], sure) /\ LooksUnpaid(step.state)
<1> DEFINE x == exchange[e]
<1>1. x \in Looked
  BY ExchangeKinds DEF ExchangeDetail, Typed, TypeOK, StockTypeOK, ExchangeStates
<1>2. ASSUME NEW sure \in BOOLEAN
      PROVE  /\ Detailed(x, sure) \in Looked
             /\ Detailed(x, sure).state = IF sure THEN order[x.order] ELSE x.state
  BY <1>1 DEF Looked, Detailed, Typed, TypeOK, StockTypeOK
<1>3. Looked \subseteq ExchangeStates /\ Idle \in ExchangeStates
  BY DEF Looked, ExchangeStates, Exchanging
<1>4. QED
  BY <1>2, <1>3 DEF ExchangeDetail, Advance, Detailed

LEMMA ExchangeTyped == ASSUME Typed, NEW e \in Exchangers, ExchangeStep(e) PROVE StockTypeOK'
<1> USE DEF platform, stock, health, OtherThanExchange
<1> StockTypeOK
  BY DEF Typed, TypeOK
<1> exchange \in [Exchangers -> ExchangeStates]
  BY DEF StockTypeOK, ExchangeStates
<1>1. ASSUME NEW c \in Codes, ExchangeStart(e, c) PROVE StockTypeOK'
  BY <1>1 DEF StockTypeOK, ExchangeStart, Advance, Exchanging
<1>2. CASE ExchangeList(e)
  <2>1. PICK step \in ExchangeStates : exchange' = [exchange EXCEPT ![e] = step]
    BY <1>2, ListedStep DEF Typed, TypeOK, StockTypeOK, ExchangeStates
  <2>2. exchange' \in [Exchangers -> ExchangeStates]
    BY <2>1
  <2>3. QED
    BY <1>2, <2>2 DEF StockTypeOK, ExchangeList, ExchangeStates
<1>3. CASE ExchangeDetail(e)
  <2>1. PICK step \in ExchangeStates : exchange' = [exchange EXCEPT ![e] = step]
    BY <1>3, DetailStep DEF Typed, TypeOK, StockTypeOK, ExchangeStates
  <2>2. exchange' \in [Exchangers -> ExchangeStates]
    BY <2>1
  <2>3. QED
    BY <1>3, <2>2 DEF StockTypeOK, ExchangeDetail, ExchangeStates
<1>4. CASE ExchangeIssue(e)
  <2>1. exchange[e].code \in Codes
    BY <1>4, ExchangeKinds DEF ExchangeIssue, Looked
  <2>2. ASSUME NEW new \in Unissued
        PROVE  [pc |-> "disable", code |-> exchange[e].code, new |-> new] \in ExchangeStates
    BY <2>1 DEF ExchangeStates, Exchanging, Unissued
  <2>3. exchange' \in [Exchangers -> ExchangeStates]
    BY <1>4, <2>2 DEF ExchangeIssue, Advance, ExchangeStates
  <2>4. upstream' \in [Codes -> CodeStatus \cup {"none"}]
    BY <1>4 DEF StockTypeOK, ExchangeIssue, PlatformIssues, Unissued, CodeStatus
  <2>5. replaced' \in [Codes -> SUBSET Codes]
    <3>1. \/ replaced' = replaced
          \/ \E new \in Codes : replaced' = [replaced EXCEPT ![exchange[e].code] = @ \cup {new}]
      BY <1>4 DEF ExchangeIssue, Unissued
    <3>2. replaced[exchange[e].code] \in SUBSET Codes
      BY <2>1 DEF StockTypeOK
    <3>3. QED
      BY <3>1, <3>2 DEF StockTypeOK
  <2>6. QED
    BY <1>4, <2>3, <2>4, <2>5 DEF StockTypeOK, ExchangeIssue, ExchangeStates
<1>5. CASE ExchangeDisable(e)
  <2>1. exchange[e] \in [pc : {"disable", "record"}, code : Codes, new : Codes]
    BY <1>5, ExchangeKinds DEF ExchangeDisable
  <2>2. \A x \in [pc : {"disable", "record"}, code : Codes, new : Codes] :
           [x EXCEPT !.pc = "record"] \in [pc : {"disable", "record"}, code : Codes, new : Codes]
    OBVIOUS
  <2>3. [exchange[e] EXCEPT !.pc = "record"] \in ExchangeStates
    BY <2>1, <2>2 DEF ExchangeStates, Exchanging
  <2>4. exchange' \in [Exchangers -> ExchangeStates]
    BY <1>5, <2>3 DEF ExchangeDisable, Advance
  <2>5. upstream' \in [Codes -> CodeStatus \cup {"none"}] /\ stored' \in [Codes -> CodeStatus \cup {"absent"}]
    BY <1>5, <2>1 DEF StockTypeOK, ExchangeDisable, Save, CodeStatus
  <2>6. QED
    BY <1>5, <2>4, <2>5 DEF StockTypeOK, ExchangeDisable, ExchangeStates
<1>6. CASE ExchangeRecord(e)
  <2>1. exchange[e].code \in Codes
    BY <1>6, ExchangeKinds DEF ExchangeRecord
  <2>2. QED
    BY <1>6, <2>1 DEF StockTypeOK, ExchangeRecord, Advance
<1>7. QED
  BY <1>1, <1>2, <1>3, <1>4, <1>5, <1>6 DEF ExchangeStep

LEMMA StockTyped == ASSUME Typed, StockNext PROVE Typed'
<1>1. StockTypeOK'
  BY ProbeTyped, IssueTyped, ExchangeTyped DEF StockNext
<1>2. HealthTypeOK'
  BY StockFrame DEF Typed, TypeOK, HealthTypeOK, health
<1>3. StartedIsLast' /\ LastIsStarted' /\ FeedIsOfStarted'
  BY StockFrame DEF Typed, StartedIsLast, LastIsStarted, FeedIsOfStarted
<1>4. QED
  BY <1>1, <1>2, <1>3 DEF Typed, TypeOK

\* The health's steps leave the orders, and the handlers of the stock, alone.
LEMMA HealthFrame == HealthNext =>
  UNCHANGED <<upstream, order, last, crew, exchanged, replaced, issue, exchange, probe>>
  BY DEF HealthNext, HookStep, WebhookArrives, ObservationStarts, WebhookStatus, WebhookWrite,
     InsertEvent, InsertFails, ReadStats, ObservationFails, CheckBlocked, BlockCard,
     AdminUnblockCard, platform, stock, health

LEMMA HookTyped == ASSUME Typed, NEW h \in Hooks,
                          HookStep(h) \/ \E o \in Orders : WebhookArrives(h, o) \/ ObservationStarts(h, o)
                   PROVE  hook' \in [Hooks -> HookStates]
<1> hook \in [Hooks -> HookStates]
  BY DEF Typed, TypeOK, HealthTypeOK, HookStates
<1> SUFFICES \E step \in HookStates : hook' = [hook EXCEPT ![h] = step]
  OBVIOUS
<1> USE DEF Proceed
<1>0. Idle \in HookStates
  BY DEF HookStates
<1>1. ASSUME NEW o \in Orders, WebhookArrives(h, o) \/ ObservationStarts(h, o)
      PROVE  \E step \in HookStates : hook' = [hook EXCEPT ![h] = step]
  <2>1. order[o] # "none"
    BY <1>1 DEF WebhookArrives, ObservationStarts, Typed, FeedIsOfStarted
  <2>2. \A email \in EmailFor(o) : /\ [pc |-> "status", order |-> o, email |-> email] \in HookStates
                                   /\ [pc |-> "insert", order |-> o, email |-> email] \in HookStates
    BY <2>1, EmailType DEF HookStates, Delivering, Observing
  <2>3. QED
    BY <1>1, <2>2 DEF WebhookArrives, ObservationStarts
<1>2. CASE WebhookStatus(h)
  <2>1. hook[h] \in [pc : {"status", "write"}, order : Orders, email : Emails]
    BY <1>2, HookKinds DEF WebhookStatus
  <2>2. \A x \in [pc : {"status", "write"}, order : Orders, email : Emails] :
           [x EXCEPT !.pc = "write"] \in [pc : {"status", "write"}, order : Orders, email : Emails]
    OBVIOUS
  <2>3. [hook[h] EXCEPT !.pc = "write"] \in HookStates
    BY <2>1, <2>2 DEF HookStates, Delivering
  <2>4. Observed(h) \in HookStates
    BY <1>2, ObservedType DEF WebhookStatus
  <2>5. QED
    BY <1>2, <2>3, <2>4 DEF WebhookStatus
<1>3. CASE WebhookWrite(h)
  BY <1>3, ObservedType DEF WebhookWrite
<1>4. CASE InsertEvent(h)
  <2>1. hook[h] \in [pc : {"insert", "stats"}, order : Orders, email : Emails]
    BY <1>4, HookKinds DEF InsertEvent
  <2>2. \A x \in [pc : {"insert", "stats"}, order : Orders, email : Emails] :
           [x EXCEPT !.pc = "stats"] \in [pc : {"insert", "stats"}, order : Orders, email : Emails]
    OBVIOUS
  <2>3. [hook[h] EXCEPT !.pc = "stats"] \in HookStates
    BY <2>1, <2>2 DEF HookStates, Observing
  <2>4. QED
    BY <1>4, <2>3 DEF InsertEvent
<1>5. CASE ReadStats(h)
  <2>1. hook[h].order \in Orders
    BY <1>5, HookKinds DEF ReadStats
  <2>2. Verdict(CardOf[hook[h].order]) \in BOOLEAN
    BY DEF Verdict, Suspect
  <2> DEFINE step == [pc |-> "check", order |-> hook[h].order, suspect |-> Verdict(CardOf[hook[h].order])]
  <2>3. step \in HookStates
    BY <2>1, <2>2 DEF HookStates, Observing
  <2>4. QED
    BY <1>5, <2>3 DEF ReadStats
<1>6. CASE CheckBlocked(h)
  <2>1. hook[h].order \in Orders
    BY <1>6, HookKinds DEF CheckBlocked
  <2>2. [pc |-> "block", order |-> hook[h].order] \in HookStates
    BY <2>1 DEF HookStates, Observing
  <2>3. QED
    BY <1>0, <1>6, <2>2 DEF CheckBlocked
<1>7. CASE BlockCard(h) \/ InsertFails(h) \/ ObservationFails(h)
  BY <1>0, <1>7 DEF BlockCard, InsertFails, ObservationFails
<1>8. QED
  BY <1>1, <1>2, <1>3, <1>4, <1>5, <1>6, <1>7 DEF HookStep

LEMMA RowsTyped == ASSUME Typed, NEW h \in Hooks, HookStep(h)
                   PROVE  /\ stored' \in [Codes -> CodeStatus \cup {"absent"}]
                          /\ events' \subseteq Events
                          /\ blocked' \subseteq Cards
                          /\ pardoned' \subseteq Cards \ blocked'
                          /\ interrupted' \subseteq Cards
                          /\ UNCHANGED <<feed, admin>>
<1> USE DEF platform, stock, health
<1>0. hook[h] \in HookStates /\ stored \in [Codes -> CodeStatus \cup {"absent"}] /\ HealthTypeOK
  BY DEF Typed, TypeOK, StockTypeOK, HealthTypeOK, HookStates
<1>1. CASE WebhookStatus(h) \/ ReadStats(h) \/ CheckBlocked(h) \/ InsertFails(h)
  BY <1>0, <1>1 DEF WebhookStatus, ReadStats, CheckBlocked, InsertFails, HealthTypeOK
<1>2. CASE WebhookWrite(h)
  BY <1>0, <1>2, OrdersAssumption DEF WebhookWrite, Update, StatusFromEvent, CodeStatus, HealthTypeOK
<1>3. CASE InsertEvent(h)
  <2>1. hook[h].order \in Orders /\ hook[h].email \in Emails
    BY <1>0, <1>3, HookKinds DEF InsertEvent
  <2>2. [order |-> hook[h].order, card |-> CardOf[hook[h].order], email |-> hook[h].email] \in Events
    BY <2>1, OrdersAssumption DEF Events
  <2>3. QED
    BY <1>0, <1>3, <2>2 DEF InsertEvent, HealthTypeOK
<1>4. CASE BlockCard(h)
  <2>1. CardOf[hook[h].order] \in Cards
    BY <1>0, <1>4, HookKinds, OrdersAssumption DEF BlockCard
  <2>2. QED
    BY <1>0, <1>4, <2>1 DEF BlockCard, HealthTypeOK
<1>5. CASE ObservationFails(h)
  <2>1. CardOf[hook[h].order] \in Cards
    BY <1>0, <1>5, HookKinds, OrdersAssumption DEF ObservationFails
  <2>2. QED
    BY <1>0, <1>5, <2>1 DEF ObservationFails, HealthTypeOK
<1>6. QED
  BY <1>1, <1>2, <1>3, <1>4, <1>5 DEF HookStep

LEMMA HealthTyped == ASSUME Typed, HealthNext PROVE Typed'
<1> DEFINE RowsOK == /\ stored' \in [Codes -> CodeStatus \cup {"absent"}]
                     /\ feed' \in [Orders -> 0..Copies]
                     /\ \A o \in Orders : feed'[o] > 0 => feed[o] > 0
                     /\ admin' \in 0..MaxAdmin
                     /\ HealthTypeOK'
<1>1. RowsOK
  <2> hook \in [Hooks -> HookStates] /\ feed \in [Orders -> 0..Copies]
    BY DEF Typed, TypeOK, StockTypeOK, HealthTypeOK, HookStates
  <2>1. ASSUME NEW h \in Hooks, HookStep(h) PROVE RowsOK
    BY <2>1, HookTyped, RowsTyped DEF Typed, TypeOK, StockTypeOK, HealthTypeOK, HookStates
  <2>2. ASSUME NEW h \in Hooks, NEW o \in Orders, WebhookArrives(h, o) \/ ObservationStarts(h, o)
        PROVE  RowsOK
    <3>1. hook' \in [Hooks -> HookStates]
      BY <2>2, HookTyped
    <3>2. UNCHANGED <<stored, events, blocked, pardoned, interrupted, admin>>
      BY <2>2 DEF WebhookArrives, ObservationStarts, stock, health
    <3>3. HealthTypeOK' /\ stored' \in [Codes -> CodeStatus \cup {"absent"}] /\ admin' \in 0..MaxAdmin
      BY <3>1, <3>2 DEF Typed, TypeOK, StockTypeOK, HealthTypeOK, HookStates
    <3>4. feed' = feed \/ (feed[o] > 0 /\ feed' = [feed EXCEPT ![o] = @ - 1])
      BY <2>2 DEF WebhookArrives, ObservationStarts, platform
    <3>5. feed' \in [Orders -> 0..Copies] /\ \A q \in Orders : feed'[q] > 0 => feed[q] > 0
      BY <3>4, PolicyAssumption
    <3>6. QED
      BY <3>3, <3>5
  <2>3. ASSUME NEW card \in Cards, AdminUnblockCard(card) PROVE RowsOK
    BY <2>3, PolicyAssumption DEF AdminUnblockCard, stock, platform, Typed, TypeOK, StockTypeOK, HealthTypeOK
  <2>4. QED
    BY <2>1, <2>2, <2>3 DEF HealthNext
<1>2. StockTypeOK'
  BY <1>1, HealthFrame DEF Typed, TypeOK, StockTypeOK
<1>3. StartedIsLast' /\ LastIsStarted' /\ FeedIsOfStarted'
  BY <1>1, HealthFrame DEF Typed, StartedIsLast, LastIsStarted, FeedIsOfStarted
<1>4. QED
  BY <1>1, <1>2, <1>3 DEF Typed, TypeOK

LEMMA StopTyped == ASSUME Typed, ServerStops PROVE Typed'
<1> USE DEF Typed, TypeOK, StockTypeOK, HealthTypeOK
<1>1. /\ hook' \in [Hooks -> Delivering \cup Observing \cup {Idle}]
      /\ probe' \in [Probes -> Probing \cup {Idle}]
      /\ exchange' \in [Exchangers -> Exchanging \cup {Idle}]
  BY DEF ServerStops, Gone
<1>2. issue' \in [Issuers -> Issuing \cup {Idle, [pc |-> "done"]}]
  BY DEF ServerStops
<1>3. interrupted' \subseteq Cards
  BY DEF ServerStops
<1>4. QED
  BY <1>1, <1>2, <1>3 DEF ServerStops, platform, StartedIsLast, LastIsStarted, FeedIsOfStarted

LEMMA TypedNext == ASSUME Typed, [Next]_vars PROVE Typed'
<1>1. CASE UNCHANGED vars
  BY <1>1 DEF vars, platform, stock, health, Typed, TypeOK, StockTypeOK, HealthTypeOK,
     StartedIsLast, LastIsStarted, FeedIsOfStarted
<1>2. QED
  BY <1>1, PlatformTyped, StockTyped, HealthTyped, StopTyped DEF Next, PlatformNext

\* Every variable keeps the type its column or record has: in particular an
\* observation never carries an email of nobody, and what is blocked is never
\* also pardoned.
THEOREM FeedTypeCorrect == Spec => []TypeOK
<1>1. Typed => TypeOK
  BY DEF Typed
<1>2. QED
  BY <1>1, TypedInit, TypedNext, PTL DEF Spec

------------------------------------------------------------------------------
\* No suspect card is missed.

\* What is known of a card depends on the events alone, and on those of the card.
LEMMA SuspectFrame == ASSUME NEW card, EventsOf(card)' = EventsOf(card)
                      PROVE  Suspect(card)' <=> Suspect(card)
  BY DEF Suspect, KnownEmails

\* Handlers other than h keep their alerts.
LEMMA AlertKept ==
  ASSUME NEW h \in Hooks, NEW card, NEW step, hook \in [Hooks -> HookStates],
         hook' = [hook EXCEPT ![h] = step], Alerts(hook[h], card) => Alerts(step, card)
  PROVE  (\E g \in Hooks : Alerts(hook[g], card)) => \E g \in Hooks : Alerts(hook'[g], card)
<1> SUFFICES ASSUME NEW g \in Hooks, Alerts(hook[g], card) PROVE Alerts(hook'[g], card)
  OBVIOUS
<1>1. CASE g = h
  BY <1>1
<1>2. CASE g # h
  BY <1>2
<1>3. QED
  BY <1>1, <1>2

\* Steps that leave the events, and the blocks, of cards alone.
LEMMA AlertedBy ==
  ASSUME SuspectIsAlerted, NEW h \in Hooks, NEW step, hook \in [Hooks -> HookStates],
         hook' = [hook EXCEPT ![h] = step], UNCHANGED <<events, blocked, pardoned>>,
         interrupted \subseteq interrupted',
         \A card \in Cards : Alerts(hook[h], card) /\ Suspect(card) /\ card \notin blocked
                             => Alerts(step, card) \/ card \in interrupted'
  PROVE  SuspectIsAlerted'
<1> SUFFICES ASSUME NEW card \in Cards, Suspect(card)', card \notin blocked' \cup pardoned' \cup interrupted'
             PROVE  \E g \in Hooks : Alerts(hook'[g], card)
  BY DEF SuspectIsAlerted, Alerts
<1>1. Suspect(card) /\ card \notin blocked \cup pardoned \cup interrupted
  BY SuspectFrame DEF EventsOf
<1>2. \E g \in Hooks : Alerts(hook[g], card)
  BY <1>1 DEF SuspectIsAlerted
<1>3. Alerts(hook[h], card) => Alerts(step, card)
  BY <1>1
<1>4. QED
  BY <1>2, <1>3, AlertKept

LEMMA AlertedHook == ASSUME Typed, SuspectIsAlerted, NEW h \in Hooks, HookStep(h)
                     PROVE  SuspectIsAlerted'
<1> USE DEF Proceed
<1>0. hook \in [Hooks -> HookStates]
  BY DEF Typed, TypeOK, HealthTypeOK, HookStates
<1>1. CASE WebhookStatus(h) \/ WebhookWrite(h)
  <2>1. \A card : ~Alerts(hook[h], card)
    BY <1>1 DEF WebhookStatus, WebhookWrite, Alerts
  <2>2. \E step : hook' = [hook EXCEPT ![h] = step]
    BY <1>1 DEF WebhookStatus, WebhookWrite
  <2>3. UNCHANGED <<events, blocked, pardoned, interrupted>>
    BY <1>1 DEF WebhookStatus, WebhookWrite, health
  <2>4. QED
    BY <1>0, <2>1, <2>2, <2>3, AlertedBy
<1>2. CASE InsertEvent(h)
  <2> DEFINE o == hook[h].order
             step == [hook[h] EXCEPT !.pc = "stats"]
  <2>1. o \in Orders /\ hook[h] \in [pc : {"insert", "stats"}, order : Orders, email : Emails]
    BY <1>0, <1>2, HookKinds DEF InsertEvent
  <2>2. hook' = [hook EXCEPT ![h] = step] /\ blocked' = blocked
    BY <1>2 DEF InsertEvent
  <2>3. Alerts(step, CardOf[o])
    BY <2>1 DEF Alerts, Idle
  <2>4. \A card : ~Alerts(hook[h], card)
    BY <1>2 DEF InsertEvent, Alerts
  <2>5. hook'[h] = step
    BY <1>0, <2>2
  <2> SUFFICES ASSUME NEW card \in Cards, Suspect(card)', card \notin blocked' \cup pardoned' \cup interrupted'
               PROVE  \E g \in Hooks : Alerts(hook'[g], card)
    BY DEF SuspectIsAlerted, Alerts
  <2>6. CASE card = CardOf[o]
    BY <2>3, <2>5, <2>6
  <2>7. CASE card # CardOf[o]
    <3>1. EventsOf(card)' = EventsOf(card) /\ card \notin pardoned \cup interrupted
      BY <1>2, <2>7 DEF InsertEvent, EventsOf
    <3>2. \E g \in Hooks : Alerts(hook[g], card)
      BY <2>2, <3>1, SuspectFrame DEF SuspectIsAlerted
    <3>3. QED
      BY <1>0, <2>2, <2>4, <3>2, AlertKept
  <2>8. QED
    BY <2>6, <2>7
<1>3. CASE ReadStats(h)
  <2> DEFINE o == hook[h].order
             step == [pc |-> "check", order |-> o, suspect |-> Verdict(CardOf[o])]
  <2>1. hook' = [hook EXCEPT ![h] = step] /\ UNCHANGED <<events, blocked, pardoned, interrupted>>
    BY <1>3 DEF ReadStats, health
  <2>2. ASSUME NEW card \in Cards, Alerts(hook[h], card), Suspect(card) PROVE Alerts(step, card)
    BY <2>2 DEF Alerts, Verdict, Idle
  <2>3. QED
    BY <1>0, <2>1, <2>2, AlertedBy
<1>4. CASE CheckBlocked(h)
  <2> DEFINE o == hook[h].order
             block == [pc |-> "block", order |-> o]
  <2>1. PICK step : /\ hook' = [hook EXCEPT ![h] = step]
                    /\ CardOf[o] \notin blocked /\ hook[h].suspect => step = block
    BY <1>4 DEF CheckBlocked
  <2>2. UNCHANGED <<events, blocked, pardoned, interrupted>>
    BY <1>4 DEF CheckBlocked, health
  <2>3. ASSUME NEW card \in Cards, Alerts(hook[h], card), card \notin blocked PROVE Alerts(step, card)
    BY <1>4, <2>1, <2>3 DEF Alerts, Idle, CheckBlocked
  <2>4. QED
    BY <1>0, <2>1, <2>2, <2>3, AlertedBy
<1>5. CASE BlockCard(h)
  <2> SUFFICES ASSUME NEW card \in Cards, Suspect(card)', card \notin blocked' \cup pardoned' \cup interrupted'
               PROVE  \E g \in Hooks : Alerts(hook'[g], card)
    BY DEF SuspectIsAlerted, Alerts
  <2>1. card # CardOf[hook[h].order] /\ card \notin blocked \cup pardoned \cup interrupted
    BY <1>5 DEF BlockCard
  <2>2. ~Alerts(hook[h], card)
    BY <2>1 DEF Alerts
  <2>3. Suspect(card)
    BY <1>5, SuspectFrame DEF BlockCard, EventsOf
  <2>4. hook' = [hook EXCEPT ![h] = Idle]
    BY <1>5 DEF BlockCard
  <2>5. QED
    BY <1>0, <2>1, <2>2, <2>3, <2>4, AlertKept DEF SuspectIsAlerted
<1>6. CASE InsertFails(h) \/ ObservationFails(h)
  <2>1. hook' = [hook EXCEPT ![h] = Idle] /\ UNCHANGED <<events, blocked, pardoned>>
    BY <1>6 DEF InsertFails, ObservationFails, health
  <2>2. interrupted \subseteq interrupted'
    BY <1>6 DEF InsertFails, ObservationFails, health
  <2>3. \A card : Alerts(hook[h], card) => card \in interrupted'
    BY <1>6 DEF InsertFails, ObservationFails, Alerts
  <2>4. QED
    BY <1>0, <2>1, <2>2, <2>3, AlertedBy
<1>7. QED
  BY <1>1, <1>2, <1>3, <1>4, <1>5, <1>6 DEF HookStep

LEMMA AlertedNext == ASSUME Typed, SuspectIsAlerted, [Next]_vars PROVE SuspectIsAlerted'
<1>1. CASE UNCHANGED <<health, hook>>
  BY <1>1 DEF health, SuspectIsAlerted, Suspect, KnownEmails, EventsOf, Alerts
<1>2. ASSUME NEW h \in Hooks, NEW o \in Orders, WebhookArrives(h, o) \/ ObservationStarts(h, o)
      PROVE  SuspectIsAlerted'
  <2>1. hook \in [Hooks -> HookStates]
    BY DEF Typed, TypeOK, HealthTypeOK, HookStates
  <2>2. \E step : hook' = [hook EXCEPT ![h] = step]
    BY <1>2 DEF WebhookArrives, ObservationStarts, Proceed
  <2>3. UNCHANGED <<events, blocked, pardoned, interrupted>> /\ \A card : ~Alerts(hook[h], card)
    BY <1>2 DEF WebhookArrives, ObservationStarts, Alerts, health
  <2>4. QED
    BY <2>1, <2>2, <2>3, AlertedBy
<1>3. ASSUME NEW card \in Cards, AdminUnblockCard(card) PROVE SuspectIsAlerted'
  <2>1. /\ UNCHANGED <<events, hook, interrupted>>
        /\ blocked \cup pardoned \subseteq blocked' \cup pardoned'
    BY <1>3 DEF AdminUnblockCard
  <2>2. QED
    BY <2>1 DEF SuspectIsAlerted, Suspect, KnownEmails, EventsOf, Alerts
<1>4. CASE PlatformNext
  BY <1>1, <1>4 DEF PlatformNext, OrderStarts, OrderStalls, OrderEnds
<1>5. CASE ServerStops
  <2>1. UNCHANGED <<events, blocked, pardoned>> /\ interrupted' = interrupted \cup {card \in Cards : Watched(card)}
    BY <1>5 DEF ServerStops
  <2>2. \A card \in Cards : (\E h \in Hooks : Alerts(hook[h], card)) => card \in interrupted'
    BY <2>1 DEF Watched, Alerts
  <2>3. \A card \in Cards : Suspect(card)' => Suspect(card)
    BY <2>1, SuspectFrame DEF EventsOf
  <2>4. \A card \in Cards : Suspect(card) => card \in blocked \cup pardoned \cup interrupted'
    BY <2>1, <2>2 DEF SuspectIsAlerted
  <2>5. QED
    BY <2>1, <2>3, <2>4 DEF SuspectIsAlerted
<1>6. QED
  BY <1>1, <1>2, <1>3, <1>4, <1>5, StockFrame, AlertedHook DEF Next, HealthNext, vars

\* However two observations of a card interleave, and however often an order
\* is observed, the last of them to end has seen a suspect card and blocks it:
\* every verdict that all was well was read before the failure that made the
\* card suspect was written, and whoever wrote that one reads after it.
THEOREM FeedMissesNoBlock == Spec => []NoMissedBlock
<1>1. Init => SuspectIsAlerted
  <2> SUFFICES ASSUME Init PROVE \A card : ~Suspect(card)
    BY DEF SuspectIsAlerted
  <2>1. \A card : EventsOf(card) = {}
    BY DEF Init, EventsOf
  <2>2. QED
    BY <2>1, FS_EmptySet, PolicyAssumption DEF Suspect
<1>2. SuspectIsAlerted => NoMissedBlock
  BY DEF SuspectIsAlerted, NoMissedBlock, Watched, Alerts
<1>3. QED
  BY <1>1, <1>2, TypedInit, TypedNext, AlertedNext, PTL DEF Spec

------------------------------------------------------------------------------
\* No card is blocked without reason.

LEMMA DeclinedFinite == ASSUME FinitelyStarted, NEW card
                        PROVE  IsFiniteSet(Declined(card)) /\ Cardinality(Declined(card)) \in Nat
<1>1. Declined(card) \in SUBSET {o \in Orders : order[o] # "none"}
  BY DEF Declined
<1>2. IsFiniteSet(Declined(card))
  BY <1>1, FS_Subset DEF FinitelyStarted
<1>3. QED
  BY <1>2, FS_CardinalityType

\* The events of a card are no more than its declined orders.
LEMMA SuspectHasReason ==
  ASSUME Typed, FinitelyStarted, EventsAreDeclines, OneEventEach, NEW card, Suspect(card)
  PROVE  Enough(card)
<1> DEFINE f == [ev \in EventsOf(card) |-> ev.order]
<1>1. f \in Injection(EventsOf(card), Declined(card))
  <2>1. \A ev \in EventsOf(card) : ev.order \in Declined(card)
    BY DEF EventsOf, Declined, EventsAreDeclines, Typed, TypeOK, HealthTypeOK, Events
  <2>2. \A a, b \in EventsOf(card) : f[a] = f[b] => a = b
    BY DEF EventsOf, OneEventEach
  <2>3. QED
    BY <2>1, <2>2 DEF Injection, IsInjective
<1> HIDE DEF f
<1>2. IsFiniteSet(Declined(card)) /\ Cardinality(Declined(card)) \in Nat
  BY DeclinedFinite
<1>3. IsFiniteSet(EventsOf(card)) /\ Cardinality(EventsOf(card)) <= Cardinality(Declined(card))
  BY <1>1, <1>2, FS_Injection
<1>4. Cardinality(EventsOf(card)) \in Nat
  BY <1>3, FS_CardinalityType
<1>5. QED
  BY <1>2, <1>3, <1>4, PolicyAssumption DEF Suspect, Enough

\* What is declined stays declined, and orders start one at a time.
OrdersGrow == /\ \A o \in Orders : order[o] \in Final => order'[o] = order[o]
              /\ \E q : \A o \in Orders : order'[o] # "none" => o = q \/ order[o] # "none"

LEMMA OrdersMove == ASSUME Typed, [Next]_vars PROVE OrdersGrow
<1> order \in [Orders -> OrderStates]
  BY DEF Typed, TypeOK, StockTypeOK
<1>1. CASE UNCHANGED order
  BY <1>1 DEF OrdersGrow
<1>2. CASE PlatformNext
  <2> PICK o \in Orders : OrderStarts(o) \/ OrderStalls(o) \/ OrderEnds(o)
    BY <1>2 DEF PlatformNext
  <2>1. CASE OrderStarts(o)
    BY <2>1 DEF OrderStarts, OrdersGrow, Final
  <2>2. CASE OrderEnds(o) \/ OrderStalls(o)
    BY <2>2 DEF OrderEnds, OrderStalls, OrdersGrow, Final
  <2>3. QED
    BY <2>1, <2>2
<1>3. QED
  BY <1>1, <1>2, StockFrame, HealthFrame DEF Next, ServerStops, vars, platform

LEMMA EnoughStays == ASSUME Typed, FinitelyStarted, OrdersGrow
                     PROVE  FinitelyStarted' /\ \A card : Enough(card) => Enough(card)'
<1>1. FinitelyStarted'
  <2> DEFINE S == {o \in Orders : order[o] # "none"}
  <2> PICK q : \A o \in Orders : order'[o] # "none" => o = q \/ order[o] # "none"
    BY DEF OrdersGrow
  <2>1. IsFiniteSet(S \cup {q})
    BY FS_AddElement DEF FinitelyStarted
  <2>2. {o \in Orders : order'[o] # "none"} \in SUBSET (S \cup {q})
    OBVIOUS
  <2>3. QED
    BY <2>1, <2>2, FS_Subset DEF FinitelyStarted
<1>2. ASSUME NEW card, Enough(card) PROVE Enough(card)'
  <2>1. Declined(card) \in SUBSET Declined(card)'
    BY DEF Declined, OrdersGrow, Final
  <2>2. IsFiniteSet(Declined(card)') /\ Cardinality(Declined(card)') \in Nat
    <3>1. Declined(card)' \in SUBSET {o \in Orders : order'[o] # "none"}
      BY DEF Declined
    <3>2. IsFiniteSet(Declined(card)')
      BY <1>1, <3>1, FS_Subset DEF FinitelyStarted
    <3>3. QED
      BY <3>2, FS_CardinalityType
  <2>3. Cardinality(Declined(card)) <= Cardinality(Declined(card)') /\ Cardinality(Declined(card)) \in Nat
    BY <2>1, <2>2, FS_Subset, DeclinedFinite
  <2>4. QED
    BY <1>2, <2>2, <2>3, PolicyAssumption DEF Enough
<1>3. QED
  BY <1>1, <1>2

LEMMA FoundedStays ==
  ASSUME Typed, FinitelyStarted, OrdersGrow, NEW x \in HookStates, Founded(x)
  PROVE  (Founded(x))'
<1>1. x.pc \in {"insert", "stats", "check", "block"} => x.order \in Orders
  BY HookKinds DEF Idle
<1>2. QED
  BY <1>1, EnoughStays DEF Founded, OrdersGrow, Final

\* A step of one observation to a state that is as well founded.
LEMMA FoundedBy ==
  ASSUME Typed, BlockInv, OrdersGrow, NEW h \in Hooks, NEW step,
         Founded(step), hook' = [hook EXCEPT ![h] = step], hook' \in [Hooks -> HookStates]
  PROVE  HooksAreFounded'
<1>1. hook \in [Hooks -> HookStates]
  BY DEF Typed, TypeOK, HealthTypeOK, HookStates
<1>2. \A x \in HookStates : Founded(x) => (Founded(x))'
  BY FoundedStays DEF BlockInv
<1>3. \A g \in Hooks : hook'[g] \in HookStates /\ Founded(hook'[g])
  BY <1>1 DEF BlockInv, HooksAreFounded
<1>4. QED
  BY <1>2, <1>3 DEF HooksAreFounded, Founded

\* What the other steps leave of the events and blocks stays justified.
LEMMA RowsStay ==
  ASSUME Typed, BlockInv, OrdersGrow, events' = events, blocked' \subseteq blocked
  PROVE  FinitelyStarted' /\ EventsAreDeclines' /\ OneEventEach' /\ BlockIsJustified'
<1>1. FinitelyStarted' /\ \A card : Enough(card) => Enough(card)'
  BY EnoughStays DEF BlockInv
<1>2. BlockIsJustified'
  <2>1. \A card \in blocked : Enough(card)
    BY DEF BlockInv, BlockIsJustified, Enough, Declined
  <2>2. \A card \in blocked' : Enough(card)'
    BY <1>1, <2>1
  <2>3. QED
    BY <2>2 DEF BlockIsJustified, Enough, Declined
<1>3. \A ev \in events : ev.order \in Orders
  BY DEF Typed, TypeOK, HealthTypeOK, Events
<1>4. EventsAreDeclines' /\ OneEventEach'
  BY <1>3 DEF BlockInv, EventsAreDeclines, OneEventEach, OrdersGrow, Final
<1>5. QED
  BY <1>1, <1>2, <1>4

LEMMA BlockHook == ASSUME Typed, BlockInv, OrdersGrow, NEW h \in Hooks, HookStep(h)
                   PROVE  BlockInv'
<1> USE DEF Proceed
<1>0. hook \in [Hooks -> HookStates] /\ hook' \in [Hooks -> HookStates] /\ hook[h] \in HookStates
  BY HookTyped DEF Typed, TypeOK, HealthTypeOK, HookStates
<1>f. Founded(hook[h])
  BY DEF BlockInv, HooksAreFounded
<1>i. Founded(Idle)
  BY DEF Founded, Idle
<1>o. hook[h].pc \in {"status", "write"} => Founded(Observed(h))
  BY <1>0, <1>i, HookKinds DEF Observed, Founded
<1>1. CASE WebhookStatus(h)
  <2>1. Founded([hook[h] EXCEPT !.pc = "write"])
    BY <1>0, <1>1, HookKinds DEF WebhookStatus, Founded
  <2>2. HooksAreFounded'
    BY <1>0, <1>1, <1>o, <2>1, FoundedBy DEF WebhookStatus
  <2>3. QED
    BY <1>1, <2>2, RowsStay DEF WebhookStatus, health, BlockInv
<1>2. CASE WebhookWrite(h)
  <2>1. HooksAreFounded'
    BY <1>0, <1>2, <1>o, FoundedBy DEF WebhookWrite
  <2>2. QED
    BY <1>2, <2>1, RowsStay DEF WebhookWrite, health, BlockInv
<1>3. CASE InsertEvent(h)
  <2> DEFINE o == hook[h].order
             ev == [order |-> o, card |-> CardOf[o], email |-> hook[h].email]
  <2>1. o \in Orders /\ order[o] = "declined" /\ hook[h] \in [pc : {"insert", "stats"}, order : Orders, email : Emails]
    BY <1>0, <1>3, <1>f, HookKinds DEF InsertEvent, Founded
  <2>2. Founded([hook[h] EXCEPT !.pc = "stats"])
    BY <2>1 DEF Founded
  <2>3. HooksAreFounded'
    BY <1>0, <1>3, <2>2, FoundedBy DEF InsertEvent
  <2>4. events' = events \/ (IsNew(o) /\ events' = events \cup {ev})
    BY <1>3 DEF InsertEvent
  <2>5. order' = order /\ blocked' = blocked
    BY <1>3 DEF InsertEvent, platform
  <2>6. EventsAreDeclines'
    BY <2>1, <2>4, <2>5 DEF BlockInv, EventsAreDeclines
  <2>7. OneEventEach'
    BY <2>4 DEF BlockInv, OneEventEach, IsNew
  <2>8. FinitelyStarted' /\ BlockIsJustified'
    BY <2>5 DEF BlockInv, FinitelyStarted, BlockIsJustified
  <2>9. QED
    BY <2>3, <2>6, <2>7, <2>8 DEF BlockInv
<1>4. CASE ReadStats(h)
  <2> DEFINE o == hook[h].order
             step == [pc |-> "check", order |-> o, suspect |-> Verdict(CardOf[o])]
  <2>1. order[o] = "declined"
    BY <1>4, <1>f DEF ReadStats, Founded
  <2>2. Suspect(CardOf[o]) => Enough(CardOf[o])
    BY SuspectHasReason DEF BlockInv
  <2>3. Founded(step)
    BY <2>1, <2>2 DEF Founded, Verdict
  <2>4. HooksAreFounded'
    BY <1>0, <1>4, <2>3, FoundedBy DEF ReadStats
  <2>5. QED
    BY <1>4, <2>4, RowsStay DEF ReadStats, health, BlockInv
<1>5. CASE CheckBlocked(h)
  <2>1. PICK step : hook' = [hook EXCEPT ![h] = step] /\ Founded(step)
    BY <1>5, <1>f, <1>i DEF CheckBlocked, Founded
  <2>2. HooksAreFounded'
    BY <1>0, <2>1, FoundedBy
  <2>3. QED
    BY <1>5, <2>2, RowsStay DEF CheckBlocked, health, BlockInv
<1>6. CASE BlockCard(h)
  <2>1. Enough(CardOf[hook[h].order])
    BY <1>6, <1>f DEF BlockCard, Founded
  <2>2. events' = events /\ order' = order /\ blocked' = blocked \cup {CardOf[hook[h].order]}
    BY <1>6 DEF BlockCard, platform
  <2>3. BlockIsJustified'
    BY <2>1, <2>2 DEF BlockInv, BlockIsJustified, Enough, Declined
  <2>4. HooksAreFounded'
    BY <1>0, <1>6, <1>i, FoundedBy DEF BlockCard
  <2>5. QED
    BY <2>2, <2>3, <2>4 DEF BlockInv, FinitelyStarted, EventsAreDeclines, OneEventEach
<1>7. CASE InsertFails(h) \/ ObservationFails(h)
  <2>1. hook' = [hook EXCEPT ![h] = Idle] /\ events' = events /\ blocked' = blocked
    BY <1>7 DEF InsertFails, ObservationFails, health
  <2>2. HooksAreFounded'
    BY <1>0, <1>i, <2>1, FoundedBy
  <2>3. QED
    BY <2>1, <2>2, RowsStay DEF BlockInv
<1>8. QED
  BY <1>1, <1>2, <1>3, <1>4, <1>5, <1>6, <1>7 DEF HookStep

LEMMA BlockNext == ASSUME Typed, BlockInv, [Next]_vars PROVE BlockInv'
<1>1. OrdersGrow
  BY OrdersMove
<1>2. CASE UNCHANGED <<hook, health>>
  <2>1. HooksAreFounded'
    <3>1. \A x \in HookStates : Founded(x) => (Founded(x))'
      BY <1>1, FoundedStays DEF BlockInv
    <3>2. \A h \in Hooks : hook[h] \in HookStates /\ Founded(hook[h])
      BY DEF BlockInv, HooksAreFounded, Typed, TypeOK, HealthTypeOK, HookStates
    <3>3. QED
      BY <1>2, <3>1, <3>2 DEF HooksAreFounded, Founded
  <2>2. QED
    BY <1>1, <1>2, <2>1, RowsStay DEF BlockInv, health
<1>3. ASSUME NEW h \in Hooks, NEW o \in Orders, WebhookArrives(h, o) \/ ObservationStarts(h, o)
      PROVE  BlockInv'
  <2>1. PICK step : hook' = [hook EXCEPT ![h] = step] /\ Founded(step)
    <3>1. \A email : Founded([pc |-> "status", order |-> o, email |-> email])
      BY DEF Founded
    <3>2. order[o] = "declined" => \A email : Founded([pc |-> "insert", order |-> o, email |-> email])
      BY DEF Founded
    <3>3. QED
      BY <1>3, <3>1, <3>2 DEF WebhookArrives, ObservationStarts, Proceed
  <2>2. hook' \in [Hooks -> HookStates]
    BY <1>3, HookTyped
  <2>3. HooksAreFounded'
    BY <1>1, <2>1, <2>2, FoundedBy
  <2>4. QED
    BY <1>1, <1>3, <2>3, RowsStay DEF WebhookArrives, ObservationStarts, health, BlockInv
<1>4. ASSUME NEW card \in Cards, AdminUnblockCard(card) PROVE BlockInv'
  <2>1. events' = events /\ hook' = hook /\ order' = order /\ blocked' \subseteq blocked
    BY <1>4 DEF AdminUnblockCard, platform
  <2>2. HooksAreFounded'
    BY <2>1 DEF BlockInv, HooksAreFounded, Founded, Enough, Declined
  <2>3. QED
    BY <1>1, <2>1, <2>2, RowsStay DEF BlockInv
<1>5. CASE PlatformNext
  BY <1>2, <1>5 DEF PlatformNext, OrderStarts, OrderStalls, OrderEnds
<1>6. CASE ServerStops
  <2>1. events' = events /\ blocked' = blocked /\ order' = order
    BY <1>6 DEF ServerStops, platform
  <2>2. HooksAreFounded'
    <3>1. \A h \in Hooks : hook'[h] = Idle
      BY <1>6 DEF ServerStops, Gone, Typed, TypeOK, HealthTypeOK
    <3>2. QED
      BY <3>1 DEF HooksAreFounded, Founded, Idle
  <2>3. QED
    BY <1>1, <2>1, <2>2, RowsStay DEF BlockInv
<1>7. QED
  BY <1>1, <1>2, <1>3, <1>4, <1>5, <1>6, StockFrame, BlockHook DEF Next, HealthNext, vars

LEMMA BlockInit == Init => BlockInv
<1> SUFFICES ASSUME Init PROVE BlockInv
  OBVIOUS
<1>1. {o \in Orders : order[o] # "none"} = {}
  BY DEF Init
<1>2. FinitelyStarted
  BY <1>1, FS_EmptySet DEF FinitelyStarted
<1>3. HooksAreFounded
  BY DEF Init, HooksAreFounded, Founded, Idle
<1>4. QED
  BY <1>2, <1>3 DEF Init, BlockInv, EventsAreDeclines, OneEventEach, BlockIsJustified

\* A card is never blocked for fewer failures than the policy asks for: an
\* order counts once, on its own card and only if it was declined, however
\* often it was delivered and observed.
THEOREM FeedBlocksWithReason == Spec => []BlockIsJustified
<1>1. BlockInv => BlockIsJustified
  BY DEF BlockInv
<1>2. QED
  BY <1>1, TypedInit, TypedNext, BlockInit, BlockNext, PTL DEF Spec

------------------------------------------------------------------------------
\* No code is exchanged before its orders have failed.

\* An order that is not over is the last of its code.
OpenIsLast == \A o \in Orders : order[o] \in {"processing", "stalled"} =>
                last[CodeOf[o]] = o /\ upstream[CodeOf[o]] = "reserved"

\* What an exchange knows of the orders it was shown: those before the latest
\* are over and have failed; the latest, if it looked failed, still is what it
\* looked like, or was charged and its detail has not been read.
Knows(x) ==
  /\ x.order \in x.tried /\ x.tried \subseteq Tried(x.code)
  /\ Tried(x.code) = x.tried => x.order = last[x.code]
  /\ \A o \in x.tried \ {x.order} : order[o] \in {"declined", "failed", "charged"}
  /\ x.state \in {"declined", "failed"} =>
       order[x.order] = x.state \/ (order[x.order] = "charged" /\ ~x.sure)
  /\ x.pc = "detail" => ~x.sure
  /\ x.pc = "issue" => LooksUnpaid(x.state)
ExchangesKnow == \A e \in Exchangers : exchange[e].pc \in {"detail", "issue"} => Knows(exchange[e])

ExchangeInv == OpenIsLast /\ ExchangesKnow

\* Orders are only added to those tried, and then the last one changes.
TriedGrow == \A c \in Codes : /\ Tried(c) \subseteq Tried(c)'
                              /\ Tried(c)' = Tried(c) => last'[c] = last[c]

LEMMA TriedMove == ASSUME Typed, [Next]_vars PROVE TriedGrow
<1>1. CASE UNCHANGED <<order, last>>
  BY <1>1 DEF TriedGrow, Tried
<1>2. ASSUME NEW o \in Orders, OrderStarts(o) PROVE TriedGrow
  <2>1. order' = [order EXCEPT ![o] = "processing"] /\ order[o] = "none"
    BY <1>2 DEF OrderStarts
  <2>2. \A c \in Codes : c # CodeOf[o] => last'[c] = last[c]
    BY <1>2 DEF OrderStarts, Typed, TypeOK, StockTypeOK
  <2>3. o \in Tried(CodeOf[o])' /\ o \notin Tried(CodeOf[o])
    BY <2>1 DEF Tried, Typed, TypeOK, StockTypeOK
  <2>4. \A c \in Codes : Tried(c) \subseteq Tried(c)'
    BY <2>1 DEF Tried, Typed, TypeOK, StockTypeOK
  <2>5. QED
    BY <2>2, <2>3, <2>4 DEF TriedGrow
<1>3. ASSUME NEW o \in Orders, OrderStalls(o) \/ OrderEnds(o) PROVE TriedGrow
  <2>1. last' = last /\ \E s \in OrderStates \ {"none"} : order' = [order EXCEPT ![o] = s]
    BY <1>3 DEF OrderStalls, OrderEnds, OrderStates, Final
  <2>2. QED
    BY <2>1 DEF TriedGrow, Tried, Typed, TypeOK, StockTypeOK
<1>4. QED
  BY <1>1, <1>2, <1>3, StockFrame, HealthFrame DEF Next, PlatformNext, ServerStops, vars, platform

LEMMA KnowsStays ==
  ASSUME Typed, OrdersGrow, TriedGrow, NEW x \in Looked, Knows(x)
  PROVE  (Knows(x))'
<1>1. x.code \in Codes /\ x.order \in Orders /\ x.tried \subseteq Orders
  BY DEF Looked
<1>2. x.tried \subseteq Tried(x.code)' /\ (Tried(x.code)' = x.tried => x.order = last'[x.code])
  BY <1>1 DEF Knows, TriedGrow
<1>3. \A o \in Orders : order[o] \in {"declined", "failed", "charged"} => order'[o] = order[o]
  BY DEF OrdersGrow, Final
<1>4. QED
  BY <1>1, <1>2, <1>3 DEF Knows, LooksUnpaid

\* The list: no order before the latest is under way, and none is completed.
LEMMA ListKnows ==
  ASSUME Typed, OpenIsLast, NEW c \in Codes, NEW state \in ListedAs(order[last[c]]),
         last[c] \in Tried(c), \A o \in Tried(c) : order[o] # "completed"
  PROVE  Knows(Shown(c, state))
<1> DEFINE x == Shown(c, state)
<1>1. /\ x.pc = "detail" /\ x.code = c /\ x.tried = Tried(c)
      /\ x.order = last[c] /\ x.state = state /\ x.sure = FALSE
  BY DEF Shown
<1>2. \A o \in Tried(c) \ {last[c]} : order[o] \in {"declined", "failed", "charged"}
  BY DEF Tried, OpenIsLast, Typed, TypeOK, StockTypeOK, OrderStates, Final
<1>3. state \in {"declined", "failed"} => order[last[c]] = state \/ order[last[c]] = "charged"
  BY DEF ListedAs
<1> HIDE DEF x
<1>4. QED
  BY <1>1, <1>2, <1>3 DEF Knows, x

\* The detail: if it was read it shows what the order is.
LEMMA DetailKnows ==
  ASSUME NEW x \in Looked, x.pc = "detail", Knows(x), NEW sure \in BOOLEAN,
         LooksUnpaid(Detailed(x, sure).state), order \in [Orders -> OrderStates]
  PROVE  Knows(Detailed(x, sure))
<1> DEFINE y == Detailed(x, sure)
<1>1. /\ y.pc = "issue" /\ y.code = x.code /\ y.tried = x.tried /\ y.order = x.order
      /\ y.state = (IF sure THEN order[x.order] ELSE x.state) /\ y.sure = sure
  BY DEF Looked, Detailed
<1>2. LooksUnpaid(y.state)
  OBVIOUS
<1> HIDE DEF y
<1>3. QED
  BY <1>1, <1>2 DEF Knows, y

LEMMA ExchangesStep ==
  ASSUME Typed, OpenIsLast, ExchangesKnow, NEW e \in Exchangers, ExchangeStep(e)
  PROVE  ExchangesKnow'
<1> exchange \in [Exchangers -> ExchangeStates]
  BY DEF Typed, TypeOK, StockTypeOK, ExchangeStates
<1>0. order' = order /\ last' = last
  BY StockFrame DEF StockNext
<1> DEFINE Good(step) == step.pc \in {"detail", "issue"} => Knows(step)
<1> SUFFICES \E step : Good(step) /\ exchange' = [exchange EXCEPT ![e] = step]
  BY <1>0 DEF ExchangesKnow, Knows, Tried
<1>i. Good(Idle)
  BY DEF Idle
<1>1. ASSUME NEW c \in Codes, ExchangeStart(e, c)
      PROVE  \E step : Good(step) /\ exchange' = [exchange EXCEPT ![e] = step]
  BY <1>1 DEF ExchangeStart, Advance
<1>2. CASE ExchangeList(e)
  <2>1. PICK step : /\ exchange' = [exchange EXCEPT ![e] = step]
                    /\ \/ step = Idle
                       \/ \E c \in Codes : \E state \in ListedAs(order[last[c]]) :
                            /\ step = Shown(c, state) /\ last[c] \in Tried(c)
                            /\ \A o \in Tried(c) : order[o] # "completed"
    BY <1>2, ListedStep
  <2>2. Good(step)
    BY <1>i, <2>1, ListKnows
  <2>3. QED
    BY <2>1, <2>2
<1>3. CASE ExchangeDetail(e)
  <2>1. PICK step : /\ exchange' = [exchange EXCEPT ![e] = step]
                    /\ \/ step = Idle
                       \/ \E sure \in BOOLEAN : step = Detailed(exchange[e], sure) /\ LooksUnpaid(step.state)
    BY <1>3, DetailStep
  <2>2. exchange[e].pc = "detail" /\ exchange[e] \in Looked
    BY <1>3, ExchangeKinds DEF ExchangeDetail
  <2>3. Knows(exchange[e]) /\ order \in [Orders -> OrderStates]
    BY <2>2 DEF ExchangesKnow, Typed, TypeOK, StockTypeOK
  <2>4. Good(step)
    BY <1>i, <2>1, <2>2, <2>3, DetailKnows
  <2>5. QED
    BY <2>1, <2>4
<1>4. CASE ExchangeIssue(e)
  <2>1. \E step : step.pc \in {"disable", "idle"} /\ exchange' = [exchange EXCEPT ![e] = step]
    BY <1>4 DEF ExchangeIssue, Advance, Idle
  <2>2. QED
    BY <2>1
<1>5. CASE ExchangeDisable(e)
  <2>1. exchange[e] \in [pc : {"disable", "record"}, code : Codes, new : Codes]
    BY <1>5, ExchangeKinds DEF ExchangeDisable
  <2>2. [exchange[e] EXCEPT !.pc = "record"].pc = "record"
    BY <2>1
  <2>3. QED
    BY <1>5, <2>2 DEF ExchangeDisable, Advance
<1>6. CASE ExchangeRecord(e)
  BY <1>6, <1>i DEF ExchangeRecord, Advance
<1>7. QED
  BY <1>1, <1>2, <1>3, <1>4, <1>5, <1>6 DEF ExchangeStep

LEMMA ExchangesNext == ASSUME Typed, ExchangeInv, [Next]_vars PROVE ExchangesKnow'
<1> exchange \in [Exchangers -> ExchangeStates]
  BY DEF Typed, TypeOK, StockTypeOK, ExchangeStates
<1>1. CASE \E e \in Exchangers : ExchangeStep(e)
  BY <1>1, ExchangesStep DEF ExchangeInv
<1>2. CASE exchange' = exchange
  <2>1. \A x \in Looked : Knows(x) => (Knows(x))'
    BY OrdersMove, TriedMove, KnowsStays
  <2>2. \A e \in Exchangers : exchange[e].pc \in {"detail", "issue"} => exchange[e] \in Looked
    BY ExchangeKinds
  <2>3. QED
    BY <1>2, <2>1, <2>2 DEF ExchangeInv, ExchangesKnow, Knows
<1>3. CASE ServerStops
  <2>1. \A e \in Exchangers : exchange'[e] = Idle
    BY <1>3 DEF ServerStops, Gone
  <2>2. QED
    BY <2>1 DEF ExchangesKnow, Idle
<1>4. ASSUME (\E p \in Probes : ProbeStep(p)) \/ \E i \in Issuers : IssueStep(i) PROVE exchange' = exchange
  BY <1>4 DEF ProbeStep, ProbeAsk, ProbeWrite, AdminSwitch, StoreByHand, IssueStep, IssueCall,
     IssueSave, IssueRecover
<1>5. PlatformNext => exchange' = exchange
  BY DEF PlatformNext, OrderStarts, OrderStalls, OrderEnds, stock
<1>6. QED
  BY <1>1, <1>2, <1>3, <1>4, <1>5, HealthFrame DEF Next, StockNext, vars, stock

LEMMA OpenNext == ASSUME Typed, OpenIsLast, [Next]_vars PROVE OpenIsLast'
<1>1. ASSUME UNCHANGED <<order, last>>,
             \A c \in Codes : upstream[c] = "reserved" => upstream'[c] = "reserved"
      PROVE  OpenIsLast'
  BY <1>1, OrdersAssumption DEF OpenIsLast
<1>2. CASE PlatformNext
  <2> PICK o \in Orders : OrderStarts(o) \/ OrderStalls(o) \/ OrderEnds(o)
    BY <1>2 DEF PlatformNext
  <2> USE OrdersAssumption DEF OpenIsLast, Typed, TypeOK, StockTypeOK
  <2>1. CASE OrderStarts(o)
    BY <2>1 DEF OrderStarts
  <2>2. CASE OrderStalls(o)
    BY <2>2 DEF OrderStalls
  <2>3. CASE OrderEnds(o)
    BY <2>3 DEF OrderEnds, Final
  <2>4. QED
    BY <2>1, <2>2, <2>3
<1>3. CASE StockNext
  <2>1. UNCHANGED <<order, last>>
    BY <1>3, StockFrame
  <2>2. ASSUME NEW c \in Codes, upstream[c] = "reserved" PROVE upstream'[c] = "reserved"
    <3> upstream \in [Codes -> CodeStatus \cup {"none"}]
      BY DEF Typed, TypeOK, StockTypeOK
    <3>1. ASSUME NEW p \in Probes, ProbeStep(p) PROVE upstream'[c] = "reserved"
      BY <2>2, <3>1 DEF ProbeStep, ProbeAsk, ProbeWrite, AdminSwitch, StoreByHand, platform
    <3>2. ASSUME NEW i \in Issuers, IssueStep(i) PROVE upstream'[c] = "reserved"
      BY <2>2, <3>2 DEF IssueStep, IssueCall, IssueSave, IssueRecover, PlatformIssues, Unissued, platform
    <3>3. ASSUME NEW e \in Exchangers, ExchangeStep(e) PROVE upstream'[c] = "reserved"
      BY <2>2, <3>3 DEF ExchangeStep, ExchangeStart, ExchangeList, ExchangeDetail, ExchangeIssue,
         ExchangeDisable, ExchangeRecord, PlatformIssues, Unissued, platform
    <3>4. QED
      BY <1>3, <3>1, <3>2, <3>3 DEF StockNext
  <2>3. QED
    BY <1>1, <2>1, <2>2
<1>4. CASE HealthNext \/ ServerStops \/ UNCHANGED vars
  BY <1>1, <1>4, HealthFrame DEF ServerStops, vars, platform
<1>5. QED
  BY <1>2, <1>3, <1>4 DEF Next

\* A new code is issued for a code only by an exchange to which all orders of
\* that code had failed: the latest as its detail had it, or the list if the
\* detail could not be read, and none of them is under way or completed when
\* the new code is issued but a stalled one that has gone on since.
THEOREM FeedExchangesFailures == Spec => ExchangeFollowsFailure
<1> DEFINE OK == \A c \in Codes : \A new \in replaced'[c] \ replaced[c] : \E e \in Exchangers :
                   /\ exchange[e].pc = "issue" /\ exchange[e].code = c
                   /\ exchange'[e] = [pc |-> "disable", code |-> c, new |-> new]
                   /\ Deserved(exchange[e])
<1>1. Init => ExchangeInv
  BY DEF Init, ExchangeInv, OpenIsLast, ExchangesKnow, Idle
<1>2. ASSUME Typed, ExchangeInv, [Next]_vars PROVE ExchangeInv'
  BY <1>2, ExchangesNext, OpenNext DEF ExchangeInv
<1>3. ASSUME Typed, ExchangeInv, [Next]_vars PROVE OK
  <2> replaced \in [Codes -> SUBSET Codes] /\ exchange \in [Exchangers -> ExchangeStates]
    BY <1>3 DEF Typed, TypeOK, StockTypeOK, ExchangeStates
  <2>1. CASE replaced' = replaced
    BY <2>1
  <2>2. ASSUME NEW e \in Exchangers, ExchangeIssue(e) PROVE OK
    <3>1. exchange[e].pc = "issue" /\ Knows(exchange[e])
      BY <1>3, <2>2 DEF ExchangeIssue, ExchangeInv, ExchangesKnow
    <3>2. Deserved(exchange[e])
      BY <3>1 DEF Knows, LooksUnpaid, Deserved, FailedAsSeen
    <3> DEFINE c == exchange[e].code
    <3>3. \/ replaced' = replaced
          \/ \E new : /\ replaced' = [replaced EXCEPT ![c] = @ \cup {new}]
                      /\ exchange' = [exchange EXCEPT ![e] = [pc |-> "disable", code |-> c, new |-> new]]
      BY <2>2 DEF ExchangeIssue, Advance
    <3>4. QED
      BY <3>1, <3>2, <3>3
  <2>3. ASSUME NEW e \in Exchangers, ExchangeStep(e) PROVE replaced' = replaced \/ ExchangeIssue(e)
    BY <2>3 DEF ExchangeStep, ExchangeStart, ExchangeList, ExchangeDetail, ExchangeDisable, ExchangeRecord
  <2>4. ASSUME (\E p \in Probes : ProbeStep(p)) \/ \E i \in Issuers : IssueStep(i) PROVE replaced' = replaced
    BY <2>4 DEF ProbeStep, ProbeAsk, ProbeWrite, AdminSwitch, StoreByHand, IssueStep, IssueCall,
       IssueSave, IssueRecover
  <2>5. PlatformNext \/ ServerStops => replaced' = replaced
    BY DEF PlatformNext, OrderStarts, OrderStalls, OrderEnds, stock, ServerStops
  <2>6. QED
    BY <1>3, <2>1, <2>2, <2>3, <2>4, <2>5, HealthFrame DEF Next, StockNext, vars, stock
<1>4. QED
  BY <1>1, <1>2, <1>3, TypedInit, TypedNext, PTL DEF Spec, ExchangeFollowsFailure
=============================================================================
