------------------------------ MODULE CodeStock ------------------------------
(***************************************************************************)
(* The codes of the payment platform that this site issues, stores,        *)
(* disables, lists and exchanges.  The platform's status is the truth and  *)
(* the stored one a cache that webhooks, list pages and administrators     *)
(* write, each some time after it has asked.                               *)
(***************************************************************************)
EXTENDS FeedState

Probing == [pc : {"write"}, code : Codes, status : CodeStatus]
Issuing == [pc : {"save"}, code : Codes] \cup [pc : {"recover"}]
Exchanging == [pc : {"list"}, code : Codes] \cup
              [pc : {"detail", "issue"}, code : Codes, tried : SUBSET Orders,
               order : Orders, state : OrderStates, sure : BOOLEAN] \cup
              [pc : {"disable", "record"}, code : Codes, new : Codes]

StockTypeOK ==
  /\ upstream \in [Codes -> CodeStatus \cup {"none"}]
  /\ order \in [Orders -> OrderStates]
  /\ last \in [Codes -> Orders \cup {NoOrder}]
  /\ feed \in [Orders -> 0..Copies]
  /\ stored \in [Codes -> CodeStatus \cup {"absent"}]
  /\ exchanged \subseteq Codes
  /\ replaced \in [Codes -> SUBSET Codes]
  /\ probe \in [Probes -> Probing \cup {Idle}]
  /\ issue \in [Issuers -> Issuing \cup {Idle, [pc |-> "done"]}]
  /\ exchange \in [Exchangers -> Exchanging \cup {Idle}]
  /\ admin \in 0..MaxAdmin

\* UpdateCardplatformCDKStatus and SaveCardplatformCDKCodeWithStatus.
Update(c, status) == stored' = IF stored[c] = "absent" THEN stored
                               ELSE [stored EXCEPT ![c] = status]
Save(c, status) == stored' = [stored EXCEPT ![c] = status]

------------------------------------------------------------------------------
\* Lists and administrators.

\* refreshStoredCDKStatuses, SyncUpstreamFullCodes and CardPlatformListCDKs:
\* the answer about a code is written down as it came, later.
ProbeAsk(p, c) ==
  /\ p \in crew /\ probe[p] = Idle /\ upstream[c] # "none"
  /\ probe' = [probe EXCEPT ![p] = [pc |-> "write", code |-> c, status |-> upstream[c]]]
  /\ UNCHANGED <<platform, health, hook, admin, stored, exchanged, replaced, issue, exchange>>

ProbeWrite(p) ==
  /\ probe[p].pc = "write"
  /\ Save(probe[p].code, probe[p].status)
  /\ probe' = [probe EXCEPT ![p] = Idle]
  /\ UNCHANGED <<platform, health, hook, admin, exchanged, replaced, issue, exchange>>

\* CardPlatformDisableCDK and CardPlatformEnableCDK, one or a batch: first at
\* the platform; if its answer is lost the stored status stays as it is.
AdminSwitch(p, c, from, to) ==
  /\ admin < MaxAdmin
  /\ p \in crew /\ probe[p] = Idle /\ upstream[c] = from
  /\ upstream' = [upstream EXCEPT ![c] = to]
  /\ \/ probe' = [probe EXCEPT ![p] = [pc |-> "write", code |-> c, status |-> to]]
     \/ UNCHANGED probe
  /\ admin' = admin + 1
  /\ UNCHANGED <<order, last, feed, crew, health, hook, stored, exchanged, replaced, issue, exchange>>

\* CardPlatformStoreCDKCodes: a code stored by hand is stored as unused.
StoreByHand(p, c) ==
  /\ admin < MaxAdmin /\ p \in crew /\ probe[p] = Idle /\ upstream[c] # "none"
  /\ Save(c, "unused")
  /\ admin' = admin + 1
  /\ UNCHANGED <<platform, health, hook, exchanged, replaced, issue, exchange, probe>>

------------------------------------------------------------------------------
\* CardPlatformIssueCDKs.

IssueCall(i) ==
  /\ i \in crew /\ issue[i] = Idle
  /\ \/ \E c \in Unissued :
          /\ PlatformIssues(c)
          /\ \/ issue' = [issue EXCEPT ![i] = [pc |-> "save", code |-> c]]
             \/ issue' = [issue EXCEPT ![i] = [pc |-> "recover"]]
     \/ UNCHANGED upstream /\ issue' = [issue EXCEPT ![i] = [pc |-> "recover"]]
  /\ UNCHANGED <<order, last, feed, crew, health, hook, admin,
                 stored, exchanged, replaced, exchange, probe>>

IssueSave(i) ==
  /\ issue[i].pc = "save"
  /\ Save(issue[i].code, "unused")
  /\ issue' = [issue EXCEPT ![i] = [pc |-> "done"]]
  /\ UNCHANGED <<platform, health, hook, admin, exchanged, replaced, exchange, probe>>

\* After a lost answer the codes that are new to the site are fetched.
IssueRecover(i) ==
  /\ issue[i].pc = "recover"
  /\ stored' = [c \in Codes |-> IF upstream[c] = "unused" THEN "unused" ELSE stored[c]]
  /\ issue' = [issue EXCEPT ![i] = [pc |-> "done"]]
  /\ UNCHANGED <<platform, health, hook, admin, exchanged, replaced, exchange, probe>>

------------------------------------------------------------------------------
\* PublicAgentCDKExchange.

Advance(e, step) == exchange' = [exchange EXCEPT ![e] = step]
OtherThanExchange == <<health, hook, admin, issue, probe>>

ExchangeStart(e, c) ==
  /\ e \in crew /\ exchange[e] = Idle
  /\ c \notin exchanged /\ stored[c] # "absent"
  /\ Advance(e, [pc |-> "list", code |-> c])
  /\ UNCHANGED <<platform, stored, exchanged, replaced, OtherThanExchange>>

\* The events that give a charge away are in the order's detail; the list
\* shows a charge by its final amount, if it has one.
Tried(c) == {o \in Orders : CodeOf[o] = c /\ order[o] # "none"}
ListedAs(state) == IF state = "charged" THEN {"failed", "charged"} ELSE {state}

\* A code never tried, or with a completed order, is refused.
ExchangeList(e) ==
  LET c == exchange[e].code IN
  /\ exchange[e].pc = "list"
  /\ IF Tried(c) = {} \/ \E o \in Tried(c) : order[o] = "completed"
     THEN Advance(e, Idle)
     ELSE \E state \in ListedAs(order[last[c]]) :
            Advance(e, [pc |-> "detail", code |-> c, tried |-> Tried(c),
                        order |-> last[c], state |-> state, sure |-> FALSE])
  /\ UNCHANGED <<platform, stored, exchanged, replaced, OtherThanExchange>>

\* orderLooksUnpaid.
\* Mutant: an order under way counts as unpaid.
LooksUnpaidYet(state) == state \notin {"completed", "charged"}
LooksUnpaid(state) == state \in {"declined", "failed", "stalled"}

\* The order's detail, when it can be read, overrides the list.
Detailed(x, sure) == [x EXCEPT !.pc = "issue", !.state = IF sure THEN order[x.order] ELSE x.state,
                               !.sure = sure]
ExchangeDetail(e) ==
  /\ exchange[e].pc = "detail"
  /\ \E sure \in BOOLEAN : LET seen == Detailed(exchange[e], sure)
                            IN  Advance(e, IF LooksUnpaid(seen.state) THEN seen ELSE Idle)
  /\ UNCHANGED <<platform, stored, exchanged, replaced, OtherThanExchange>>

\* Every exchange asks with an idempotency key of its own.
ExchangeIssue(e) ==
  LET c == exchange[e].code IN
  /\ exchange[e].pc = "issue"
  /\ \/ \E new \in Unissued :
          /\ PlatformIssues(new)
          /\ \/ /\ Advance(e, [pc |-> "disable", code |-> c, new |-> new])
                /\ replaced' = [replaced EXCEPT ![c] = @ \cup {new}]
             \/ Advance(e, Idle) /\ UNCHANGED replaced
     \/ Advance(e, Idle) /\ UNCHANGED <<upstream, replaced>>
  /\ UNCHANGED <<order, last, feed, crew, stored, exchanged, OtherThanExchange>>

\* The new code is stored, then the old one disabled if the platform agrees
\* and says so; if not, the exchange goes on.
ExchangeDisable(e) ==
  LET x == exchange[e] IN
  /\ x.pc = "disable"
  /\ \/ /\ upstream[x.code] = "unused"
        /\ upstream' = [upstream EXCEPT ![x.code] = "disabled"]
        /\ \/ stored' = [stored EXCEPT ![x.new] = "unused", ![x.code] = "disabled"]
           \/ Save(x.new, "unused")
     \/ UNCHANGED upstream /\ Save(x.new, "unused")
  /\ Advance(e, [x EXCEPT !.pc = "record"])
  /\ UNCHANGED <<order, last, feed, crew, exchanged, replaced, OtherThanExchange>>

ExchangeRecord(e) ==
  /\ exchange[e].pc = "record"
  /\ exchanged' = exchanged \cup {exchange[e].code}
  /\ Advance(e, Idle)
  /\ UNCHANGED <<platform, stored, replaced, OtherThanExchange>>

------------------------------------------------------------------------------
ProbeStep(p) == \/ \E c \in Codes : ProbeAsk(p, c)
                \/ ProbeWrite(p)
                \/ \E c \in Codes : AdminSwitch(p, c, "unused", "disabled")
                \/ \E c \in Codes : AdminSwitch(p, c, "disabled", "unused")
                \/ \E c \in Codes : StoreByHand(p, c)
IssueStep(i) == IssueCall(i) \/ IssueSave(i) \/ IssueRecover(i)
ExchangeStep(e) == \/ \E c \in Codes : ExchangeStart(e, c)
                   \/ ExchangeList(e) \/ ExchangeDetail(e)
                   \/ ExchangeIssue(e) \/ ExchangeDisable(e) \/ ExchangeRecord(e)

StockNext == \/ \E p \in Probes : ProbeStep(p)
             \/ \E i \in Issuers : IssueStep(i)
             \/ \E e \in Exchangers : ExchangeStep(e)
=============================================================================
