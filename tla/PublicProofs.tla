---------------------------- MODULE PublicProofs ----------------------------
(***************************************************************************)
(* Theorems of PublicCodes: one call per attempt, one open order per code, *)
(* the e-mail of the order, bounded grants, and an attempt in its window   *)
(* that stands until its order has failed.                                 *)
(***************************************************************************)
EXTENDS PublicCodes, SequenceTheorems, TLAPS

USE DEF NewVisit, NewCheck, NewRequest, NoQuery, NoOrder

Bound(a) == visit[a].pc = "bound"
Read(a) == visit[a].pc \in {"read", "proved"}

\* An attempt whose one submission is taken: its preview is over, and the row,
\* while it is the attempt's, says so.
Used(a) == a \in Attempts /\ Bound(a) /\ (row.attempt = a => row.submitted)

RowIsBound == /\ row.attempt # NoAttempt => Bound(row.attempt)
              /\ row.submitted => row.attempt # NoAttempt
RequestsUse == \A r \in Requests : redeem[r].pc # "new" => Used(redeem[r].attempt)
OrdersUse == \A a \in Attempts : order[a] # NoOrder => Used(a)
QueriesUse == \A l \in Lookups :
  query[l].pc \in {"asking", "answered", "binding"} => Used(query[l].attempt)
CallsAreFirst == \A r \in Requests : redeem[r].pc = "calling" => order[redeem[r].attempt] = NoOrder

\* What a preview has read of the row is an earlier state of it.
SnapshotsAreOld == \A a \in Attempts : Read(a) =>
  LET old == visit[a].snapshot
  IN /\ old.attempt # NoAttempt => Bound(old.attempt)
     /\ old.submitted => Used(old.attempt)
     /\ visit[a].pc = "read" /\ visit[a].open => old.submitted

\* A submission whose window had ended when it was read has not come back.
Over(a) == row.attempt = a => elapsed
ClosedStaysClosed == \A a \in Attempts :
  visit[a].pc = "read" /\ ~visit[a].open /\ visit[a].snapshot.submitted
    => Over(visit[a].snapshot.attempt)
ExpiredStaysExpired == \A l \in Lookups : query[l].pc = "expired" =>
  Used(query[l].snapshot.attempt) /\ Over(query[l].snapshot.attempt)

\* What the platform's answer about the attempt's token proves.
Failed(a) == order[a].state = "declined" \/ SharesAFailure(a)
ProofsHold == \A a \in Attempts : visit[a].pc = "proved" =>
  visit[a].snapshot.attempt \in Attempts /\ Failed(visit[a].snapshot.attempt)

\* The last order of a token has been placed, and with that token.
LatestIsOwn == \A t \in Tokens : latest[t] # NoAttempt =>
  TokenOf[latest[t]] = t /\ order[latest[t]] # NoOrder

WindowsAreCounted == elapsed /\ row.submitted => row.attempt \in lapsed
LiveIsOpen == \A a \in Attempts \ lapsed :
  Live(a) => (row.attempt = a /\ row.submitted) \/ SharesAFailure(a)

\* An order was placed for this account with the attempt's token.
Placed(a, account) == order[a] # NoOrder /\ order[a].account = account
Answer(a, account) == \E b \in Attempts : TokenOf[b] = TokenOf[a] /\ Placed(b, account)
AnswersAreTrue ==
  /\ \A r \in Requests : redeem[r].pc = "answered" => Answer(redeem[r].attempt, redeem[r].account)
  /\ \A l \in Lookups : query[l].pc \in {"answered", "binding"} =>
                           Answer(query[l].attempt, query[l].account)

EmailIsHeld == row.email # NoEmail => row.attempt \in Attempts

History == /\ RowIsBound /\ RequestsUse /\ OrdersUse /\ CallsAreFirst /\ SnapshotsAreOld
           /\ OneCallPerAttempt /\ LatestIsOwn
IInv == /\ TypeOK /\ History /\ QueriesUse /\ ClosedStaysClosed /\ ExpiredStaysExpired
        /\ ProofsHold /\ WindowsAreCounted /\ LiveIsOpen
        /\ AnswersAreTrue /\ EmailIsHeld /\ EmailIsOfTheOrder

LEMMA TypeInit == Init => TypeOK
<1> SUFFICES ASSUME Init PROVE TypeOK
  OBVIOUS
<1>1. grants \in [Attempts -> Seq(Checks)]
  BY DEF Init
<1> QED
  BY <1>1 DEF Init, TypeOK, NoRow, Rows, Visits, CheckStates, Submissions, Queries, Orders

LEMMA GrantsType == ASSUME NEW s \in Seq(Checks), NEW f \in Checks
                    PROVE  /\ Newest(Append(s, f)) \in Seq(Checks)
                           /\ Len(s) <= GrantLimit => Len(Newest(Append(s, f))) <= GrantLimit
<1> DEFINE t == Append(s, f)
<1>1. t \in Seq(Checks) /\ Len(t) = Len(s) + 1 /\ Len(s) \in Nat
  OBVIOUS
<1>2. ASSUME Len(t) > GrantLimit
      PROVE  /\ SubSeq(t, Len(t) - GrantLimit + 1, Len(t)) \in Seq(Checks)
             /\ Len(SubSeq(t, Len(t) - GrantLimit + 1, Len(t))) = GrantLimit
  <2>1. Len(t) - GrantLimit + 1 \in 1..Len(t) + 1
    BY <1>1, <1>2, LimitAssumption
  <2> HIDE DEF t
  <2> QED
    BY <1>1, <1>2, <2>1, LimitAssumption, SubSeqProperties
<1> HIDE DEF t
<1>3. Newest(t) \in Seq(Checks) /\ Len(Newest(t)) <= GrantLimit
  BY <1>1, <1>2, LimitAssumption DEF Newest
<1> QED
  BY <1>3 DEF t

LEMMA ScrubType == ASSUME TypeOK, Scrub
                   PROVE  row' \in Rows /\ grants' \in [Attempts -> Seq(Checks)]
<1>1. <<>> \in Seq(Checks)
  OBVIOUS
<1>2. grants' = [grants EXCEPT ![row.attempt] = <<>>] /\ grants \in [Attempts -> Seq(Checks)]
  BY DEF Scrub, TypeOK
<1>3. grants' \in [Attempts -> Seq(Checks)]
  BY <1>1, <1>2
<1>4. row' = [row EXCEPT !.scrubbed = TRUE, !.email = NoEmail]
  BY DEF Scrub
<1> QED
  BY <1>3, <1>4 DEF TypeOK, Rows

LEMMA BindEmailType == ASSUME TypeOK, NEW a, NEW account \in Accounts, BindEmail(a, account)
                       PROVE  row' \in Rows
  BY DEF TypeOK, BindEmail, Rows

Submitted == [pc : {"calling", "answered", "done"}, attempt : Attempts, account : Accounts]
Heard == [pc : {"answered", "binding"}, attempt : Attempts, account : Accounts]

LEMMA SubmittedType == ASSUME TypeOK, NEW r \in Requests, redeem[r].pc # "new"
                       PROVE  redeem[r] \in Submitted
  BY DEF TypeOK, Submissions, Submitted

LEMMA SubmittedMoves == ASSUME NEW s \in Submitted
                        PROVE  /\ [s EXCEPT !.pc = "answered"] \in Submissions
                               /\ [s EXCEPT !.pc = "done"] \in Submissions
  BY DEF Submissions, Submitted

LEMMA HeardType == ASSUME TypeOK, NEW l \in Lookups, query[l].pc \in {"answered", "binding"}
                   PROVE  query[l] \in Heard
  BY DEF TypeOK, Queries, Heard

LEMMA TypeNext == TypeOK /\ LatestIsOwn /\ [Next]_vars => TypeOK'
<1> SUFFICES ASSUME TypeOK, LatestIsOwn, [Next]_vars PROVE TypeOK'
  OBVIOUS
<1> USE DEF TypeOK
<1>0. <<>> \in Seq(Checks)
  OBVIOUS
<1>1. CASE UNCHANGED vars
  BY <1>1 DEF vars
<1>2. CASE PlatformSettles
  <2>1. PICK a \in Attempts, s \in {"completed", "declined", "failed"} :
          order[a].state = "processing" /\ order' = [order EXCEPT ![a].state = s]
    BY <1>2 DEF PlatformSettles
  <2>2. order[a] \in [state : {"processing", "completed", "declined", "failed"}, account : Accounts]
    BY <2>1 DEF Orders
  <2>3. [order[a] EXCEPT !.state = s] \in Orders
    BY <2>2 DEF Orders
  <2>4. order' \in [Attempts -> Orders]
    BY <2>1, <2>3
  <2> QED
    BY <1>2, <2>4 DEF PlatformSettles, local
<1>3. CASE DeadlinePasses
  BY <1>3 DEF DeadlinePasses, platform, Rows
<1>4. CASE Purge
  BY <1>4, ScrubType DEF Purge, platform
<1>5. CASE Sweep
  <2>1. row' \in Rows
    BY <1>5 DEF Sweep, Rows
  <2>2. grants' \in [Attempts -> Seq(Checks)]
    BY <1>0, <1>5 DEF Sweep
  <2> QED
    BY <1>5, <2>1, <2>2 DEF Sweep, platform
<1>6. ASSUME NEW a \in Attempts, PreviewRead(a) PROVE TypeOK'
  BY <1>6 DEF PreviewRead, Visits, Rows, local, platform
<1>7. ASSUME NEW a \in Attempts, PreviewRefused(a) PROVE TypeOK'
  BY <1>7 DEF PreviewRefused, Visits, local, platform
<1>8. ASSUME NEW a \in Attempts, PreviewProve(a) PROVE TypeOK'
  BY <1>8 DEF PreviewProve, Visits, local, platform
<1>9. ASSUME NEW a \in Attempts, PreviewBind(a) PROVE TypeOK'
  <2>1. visit' \in [Attempts -> Visits]
    <3>1. {[pc |-> "bound"], [pc |-> "refused"]} \subseteq Visits
      BY DEF Visits
    <3> QED
      BY <1>9, <3>1 DEF PreviewBind
  <2>2. row' \in Rows /\ elapsed' \in BOOLEAN
    BY <1>9 DEF PreviewBind, Rows, NoRow, local
  <2>3. grants' \in [Attempts -> Seq(Checks)]
    BY <1>0, <1>9 DEF PreviewBind, local
  <2> QED
    BY <1>9, <2>1, <2>2, <2>3 DEF PreviewBind, platform
<1>10. ASSUME NEW f \in Checks, NEW a \in Attempts, PreflightCheck(f, a) PROVE TypeOK'
  BY <1>10 DEF PreflightCheck, CheckStates, local, platform
<1>11. ASSUME NEW f \in Checks, PreflightRefused(f) PROVE TypeOK'
  BY <1>11 DEF PreflightRefused, CheckStates, local, platform
<1>12. ASSUME NEW f \in Checks, PreflightRegister(f) PROVE TypeOK'
  <2> DEFINE a == check[f].attempt
  <2>1. a \in Attempts /\ check' \in [Checks -> CheckStates]
    BY <1>12 DEF PreflightRegister, CheckStates
  <2>2. Newest(Append(grants[a], f)) \in Seq(Checks)
    BY <2>1, GrantsType
  <2>3. grants' \in [Attempts -> Seq(Checks)]
    BY <1>12, <2>1, <2>2 DEF PreflightRegister
  <2> QED
    BY <1>12, <2>1, <2>3 DEF PreflightRegister, platform
<1>13. ASSUME NEW r \in Requests, NEW a \in Attempts, NEW f \in Checks, RedeemClaim(r, a, f)
       PROVE TypeOK'
  <2>1. redeem' \in [Requests -> Submissions]
    BY <1>13, FunctionsAssumption DEF RedeemClaim, Submissions
  <2>2. row' \in Rows
    BY <1>13 DEF RedeemClaim, Rows
  <2>3. grants' \in [Attempts -> Seq(Checks)]
    BY <1>0, <1>13 DEF RedeemClaim
  <2> QED
    BY <1>13, <2>1, <2>2, <2>3 DEF RedeemClaim, platform
<1>14. ASSUME NEW r \in Requests, RedeemCall(r) PROVE TypeOK'
  <2>1. redeem[r] \in Submitted
    BY <1>14, SubmittedType DEF RedeemCall
  <2>2. redeem' \in [Requests -> Submissions]
    BY <1>14, <2>1, SubmittedMoves DEF RedeemCall
  <2>3. [state |-> "processing", account |-> redeem[r].account] \in Orders
    BY <2>1 DEF Submitted, Orders
  <2>4. order' \in [Attempts -> Orders]
    BY <1>14, <2>3 DEF RedeemCall, PlaceOrder, platform
  <2>5. latest' \in [Tokens -> Attempts \cup {NoAttempt}]
    BY <1>14, <2>1 DEF RedeemCall, PlaceOrder, platform, Submitted
  <2> QED
    BY <1>14, <2>2, <2>4, <2>5 DEF RedeemCall, local
<1>15. ASSUME NEW r \in Requests, RedeemBind(r) PROVE TypeOK'
  <2>1. redeem[r] \in Submitted
    BY <1>15, SubmittedType DEF RedeemBind
  <2>2. redeem' \in [Requests -> Submissions]
    BY <1>15, <2>1, SubmittedMoves DEF RedeemBind
  <2> QED
    BY <1>15, <2>1, <2>2, BindEmailType DEF RedeemBind, platform, Submitted
<1>16. ASSUME NEW l \in Lookups, LookupRead(l) PROVE TypeOK'
  BY <1>16 DEF LookupRead, Queries, Rows, local, platform
<1>17. ASSUME NEW l \in Lookups, LookupPurge(l) PROVE TypeOK'
  BY <1>17, ScrubType DEF LookupPurge, PurgeSnapshot, Queries, platform
<1>18. ASSUME NEW l \in Lookups, LookupAnswered(l) PROVE TypeOK'
  <2>1. query[l].attempt \in Attempts
    <3>1. query[l] \in Queries /\ query[l].pc = "asking"
      BY <1>18 DEF LookupAnswered
    <3> QED
      BY <3>1 DEF Queries
  <2>2. query' \in [Lookups -> Queries]
    BY <1>18, <2>1, FunctionsAssumption DEF LookupAnswered, Queries, Orders, LatestIsOwn
  <2> QED
    BY <1>18, <2>2 DEF LookupAnswered, local, platform
<1>19. ASSUME NEW l \in Lookups, LookupServe(l) PROVE TypeOK'
  <2>1. query[l] \in Heard
    BY <1>19, HeardType DEF LookupServe
  <2>2. [query[l] EXCEPT !.pc = "binding"] \in Queries /\ NoQuery \in Queries
    BY <2>1 DEF Heard, Queries
  <2>3. query' \in [Lookups -> Queries]
    BY <1>19, <2>2 DEF LookupServe
  <2> QED
    BY <1>19, <2>3 DEF LookupServe, local, platform
<1>20. ASSUME NEW l \in Lookups, LookupBind(l) PROVE TypeOK'
  <2>1. query[l] \in Heard
    BY <1>20, HeardType DEF LookupBind
  <2>2. query' \in [Lookups -> Queries]
    BY <1>20 DEF LookupBind, Queries
  <2> QED
    BY <1>20, <2>1, <2>2, BindEmailType DEF LookupBind, platform, Heard
<1> QED
  BY <1>1, <1>2, <1>3, <1>4, <1>5, <1>6, <1>7, <1>8, <1>9, <1>10, <1>11, <1>12, <1>13,
     <1>14, <1>15, <1>16, <1>17, <1>18, <1>19, <1>20
     DEF Next, PreviewStep, PreflightStep, RedeemStep, LookupStep

------------------------------------------------------------------------------
\* What a step can do to each part of the state.

SameAttempt == row'.attempt = row.attempt /\ row'.submitted = row.submitted
Binds(a) == PreviewBind(a) /\ UnchangedSince(visit[a].snapshot)
Claims == \E r \in Requests, a \in Attempts, f \in Checks : RedeemClaim(r, a, f)

LEMMA RowSteps ==
  ASSUME TypeOK, [Next]_vars
  PROVE  \/ SameAttempt /\ (elapsed => elapsed')
         \/ \E a \in Attempts : Binds(a)
         \/ Claims
<1> USE DEF SameAttempt
<1>1. ASSUME Scrub PROVE SameAttempt
  BY <1>1 DEF Scrub, TypeOK, Rows
<1>2. ASSUME NEW a, NEW account, BindEmail(a, account) PROVE SameAttempt
  BY <1>2 DEF BindEmail, TypeOK, Rows
<1>3. ASSUME Sweep PROVE SameAttempt /\ UNCHANGED elapsed
  BY <1>3 DEF Sweep, TypeOK, Rows
<1>4. ASSUME Purge \/ \E l \in Lookups : LookupPurge(l)
      PROVE  SameAttempt /\ UNCHANGED elapsed
  BY <1>1, <1>4 DEF Purge, LookupPurge, PurgeSnapshot
<1>5. ASSUME (\E r \in Requests : RedeemBind(r)) \/ (\E l \in Lookups : LookupBind(l))
      PROVE  SameAttempt /\ UNCHANGED elapsed
  BY <1>2, <1>5 DEF RedeemBind, LookupBind
<1>6. ASSUME NEW a \in Attempts, PreviewStep(a)
      PROVE  (SameAttempt /\ UNCHANGED elapsed) \/ Binds(a)
  BY <1>6 DEF PreviewStep, PreviewRead, PreviewRefused, PreviewProve, PreviewBind, Binds, local
<1>7. ASSUME NEW f \in Checks, PreflightStep(f) PROVE SameAttempt /\ UNCHANGED elapsed
  BY <1>7 DEF PreflightStep, PreflightCheck, PreflightRefused, PreflightRegister, local
<1>8. ASSUME NEW r \in Requests, RedeemCall(r) PROVE SameAttempt /\ UNCHANGED elapsed
  BY <1>8 DEF RedeemCall, local
<1>9. ASSUME NEW l \in Lookups, LookupRead(l) \/ LookupAnswered(l) \/ LookupServe(l)
      PROVE  SameAttempt /\ UNCHANGED elapsed
  BY <1>9 DEF LookupRead, LookupAnswered, LookupServe, local
<1>10. ASSUME PlatformSettles \/ DeadlinePasses PROVE SameAttempt /\ (elapsed => elapsed')
  BY <1>10 DEF PlatformSettles, DeadlinePasses, local
<1> QED
  BY <1>3, <1>4, <1>5, <1>6, <1>7, <1>8, <1>9, <1>10
     DEF Next, RedeemStep, LookupStep, Claims, vars

LEMMA VisitSteps ==
  ASSUME TypeOK, [Next]_vars, NEW a \in Attempts
  PROVE  visit'[a] = visit[a] \/ (~Bound(a) /\ PreviewStep(a))
<1>1. ASSUME NEW b \in Attempts, PreviewStep(b)
      PROVE  visit'[a] = visit[a] \/ (b = a /\ ~Bound(a))
  BY <1>1 DEF PreviewStep, PreviewRead, PreviewRefused, PreviewProve, PreviewBind, MayReplace,
              TypeOK, Bound
<1>2. ASSUME NEW f \in Checks, PreflightStep(f) PROVE UNCHANGED visit
  BY <1>2 DEF PreflightStep, PreflightCheck, PreflightRefused, PreflightRegister
<1>3. ASSUME NEW r \in Requests, RedeemStep(r) PROVE UNCHANGED visit
  BY <1>3 DEF RedeemStep, RedeemClaim, RedeemCall, RedeemBind
<1>4. ASSUME NEW l \in Lookups, LookupStep(l) PROVE UNCHANGED visit
  BY <1>4 DEF LookupStep, LookupRead, LookupPurge, LookupAnswered, LookupServe, LookupBind
<1>5. ASSUME PlatformSettles \/ DeadlinePasses \/ Purge \/ Sweep PROVE UNCHANGED visit
  BY <1>5 DEF PlatformSettles, DeadlinePasses, Purge, Sweep
<1> QED
  BY <1>1, <1>2, <1>3, <1>4, <1>5 DEF Next, vars

LEMMA RedeemSteps ==
  ASSUME TypeOK, [Next]_vars, NEW r \in Requests
  PROVE  redeem'[r] = redeem[r] \/ RedeemStep(r)
<1>1. ASSUME NEW s \in Requests, RedeemStep(s) PROVE redeem'[r] = redeem[r] \/ r = s
  BY <1>1 DEF RedeemStep, RedeemClaim, RedeemCall, RedeemBind, TypeOK
<1>2. ASSUME NEW f \in Checks, PreflightStep(f) PROVE UNCHANGED redeem
  BY <1>2 DEF PreflightStep, PreflightCheck, PreflightRefused, PreflightRegister
<1>3. ASSUME NEW a \in Attempts, PreviewStep(a) PROVE UNCHANGED redeem
  BY <1>3 DEF PreviewStep, PreviewRead, PreviewRefused, PreviewProve, PreviewBind
<1>4. ASSUME NEW l \in Lookups, LookupStep(l) PROVE UNCHANGED redeem
  BY <1>4 DEF LookupStep, LookupRead, LookupPurge, LookupAnswered, LookupServe, LookupBind
<1>5. ASSUME PlatformSettles \/ DeadlinePasses \/ Purge \/ Sweep PROVE UNCHANGED redeem
  BY <1>5 DEF PlatformSettles, DeadlinePasses, Purge, Sweep
<1> QED
  BY <1>1, <1>2, <1>3, <1>4, <1>5 DEF Next, vars

\* The platform changes only by an order that is placed, once, or settled.
Settles(a) == /\ PlatformSettles /\ order[a].state = "processing"
              /\ order'[a] # NoOrder /\ order'[a].account = order[a].account

LEMMA PlatformSteps ==
  ASSUME TypeOK, [Next]_vars
  PROVE  \/ UNCHANGED platform
         \/ PlatformSettles
         \/ \E r \in Requests : RedeemCall(r) /\ PlaceOrder(redeem[r].attempt, redeem[r].account)
<1>1. ASSUME NEW f \in Checks, PreflightStep(f) PROVE UNCHANGED platform
  BY <1>1 DEF PreflightStep, PreflightCheck, PreflightRefused, PreflightRegister
<1>2. ASSUME NEW a \in Attempts, PreviewStep(a) PROVE UNCHANGED platform
  BY <1>2 DEF PreviewStep, PreviewRead, PreviewRefused, PreviewProve, PreviewBind
<1>3. ASSUME NEW l \in Lookups, LookupStep(l) PROVE UNCHANGED platform
  BY <1>3 DEF LookupStep, LookupRead, LookupPurge, LookupAnswered, LookupServe, LookupBind
<1>4. ASSUME NEW r \in Requests, RedeemStep(r)
      PROVE  UNCHANGED platform \/ (RedeemCall(r) /\ PlaceOrder(redeem[r].attempt, redeem[r].account))
  BY <1>4 DEF RedeemStep, RedeemClaim, RedeemCall, RedeemBind
<1>5. ASSUME DeadlinePasses \/ Purge \/ Sweep PROVE UNCHANGED platform
  BY <1>5 DEF DeadlinePasses, Purge, Sweep
<1> QED
  BY <1>1, <1>2, <1>3, <1>4, <1>5 DEF Next, vars, platform

LEMMA OrderSteps ==
  ASSUME TypeOK, [Next]_vars, NEW a \in Attempts
  PROVE  \/ order'[a] = order[a]
         \/ Settles(a)
         \/ \E r \in Requests :
              /\ RedeemCall(r) /\ redeem[r].attempt = a
              /\ order'[a] = [state |-> "processing", account |-> redeem[r].account]
<1>1. ASSUME PlatformSettles PROVE order'[a] = order[a] \/ Settles(a)
  <2>1. PICK b \in Attempts, s \in {"completed", "declined", "failed"} :
          order[b].state = "processing" /\ order' = [order EXCEPT ![b].state = s]
    BY <1>1 DEF PlatformSettles
  <2>2. CASE b = a
    <3>1. order[a] \in [state : {"processing", "completed", "declined", "failed"}, account : Accounts]
      BY <2>1, <2>2 DEF TypeOK, Orders
    <3>2. order'[a].state = s /\ order'[a].account = order[a].account
      BY <2>1, <2>2, <3>1 DEF TypeOK
    <3> QED
      BY <1>1, <2>1, <2>2, <3>2 DEF Settles
  <2>3. CASE b # a
    BY <2>1, <2>3 DEF TypeOK
  <2> QED
    BY <2>2, <2>3
<1> QED
  BY <1>1, PlatformSteps DEF platform, PlaceOrder, TypeOK

LEMMA QuerySteps ==
  ASSUME TypeOK, [Next]_vars, NEW l \in Lookups
  PROVE  query'[l] = query[l] \/ LookupStep(l)
<1>1. ASSUME NEW k \in Lookups, LookupStep(k) PROVE query'[l] = query[l] \/ k = l
  BY <1>1 DEF LookupStep, LookupRead, LookupPurge, LookupAnswered, LookupServe, LookupBind, TypeOK
<1>2. ASSUME NEW f \in Checks, PreflightStep(f) PROVE UNCHANGED query
  BY <1>2 DEF PreflightStep, PreflightCheck, PreflightRefused, PreflightRegister
<1>3. ASSUME NEW a \in Attempts, PreviewStep(a) PROVE UNCHANGED query
  BY <1>3 DEF PreviewStep, PreviewRead, PreviewRefused, PreviewProve, PreviewBind
<1>4. ASSUME NEW r \in Requests, RedeemStep(r) PROVE UNCHANGED query
  BY <1>4 DEF RedeemStep, RedeemClaim, RedeemCall, RedeemBind
<1>5. ASSUME PlatformSettles \/ DeadlinePasses \/ Purge \/ Sweep PROVE UNCHANGED query
  BY <1>5 DEF PlatformSettles, DeadlinePasses, Purge, Sweep
<1> QED
  BY <1>1, <1>2, <1>3, <1>4, <1>5 DEF Next, vars

------------------------------------------------------------------------------
\* The history: what is used stays used.

LEMMA HistoryInit == Init => History
  BY DEF Init, History, RowIsBound, RequestsUse, OrdersUse, CallsAreFirst, SnapshotsAreOld,
         OneCallPerAttempt, LatestIsOwn, NoRow, Read

LEMMA BoundStays == ASSUME TypeOK, [Next]_vars, NEW a \in Attempts, Bound(a) PROVE Bound(a)'
  BY VisitSteps DEF Bound

LEMMA BindsFresh == ASSUME TypeOK, NEW a \in Attempts, Binds(a)
                    PROVE  /\ ~Bound(a) /\ Bound(a)' /\ row' = [NoRow EXCEPT !.attempt = a]
                           /\ ~elapsed' /\ row = visit[a].snapshot /\ MayReplace(a)
                           /\ row'.attempt = a /\ ~row'.submitted /\ row'.email = NoEmail
<1>1. /\ MayReplace(a) /\ row = visit[a].snapshot /\ row' = [NoRow EXCEPT !.attempt = a]
      /\ elapsed' = FALSE /\ visit' = [visit EXCEPT ![a] = [pc |-> "bound"]]
  BY DEF Binds, PreviewBind, UnchangedSince
<1>2. row'.attempt = a /\ row'.submitted = FALSE /\ row'.email = NoEmail
  BY <1>1 DEF NoRow
<1>3. ~Bound(a)
  BY <1>1 DEF MayReplace, Bound
<1>4. Bound(a)'
  BY <1>1 DEF Bound, TypeOK
<1> QED
  BY <1>1, <1>2, <1>3, <1>4

LEMMA ClaimsRow == ASSUME TypeOK, NEW r \in Requests, NEW a \in Attempts, NEW f \in Checks,
                          RedeemClaim(r, a, f)
                   PROVE  /\ row.attempt = a /\ ~row.submitted
                          /\ row'.attempt = a /\ row'.submitted /\ row'.email = row.email
                          /\ redeem[r].pc = "new" /\ redeem'[r].pc = "calling"
                          /\ redeem'[r].attempt = a
  BY DEF RedeemClaim, MayClaim, Pending, Current, TypeOK, Rows

LEMMA UsedStays == ASSUME TypeOK, [Next]_vars, NEW a, Used(a) PROVE Used(a)'
<1>1. a \in Attempts /\ Bound(a) /\ Bound(a)' /\ (row.attempt = a => row.submitted)
  BY BoundStays DEF Used
<1>2. CASE SameAttempt
  BY <1>1, <1>2 DEF SameAttempt, Used
<1>3. ASSUME NEW b \in Attempts, Binds(b) PROVE Used(a)'
  BY <1>1, <1>3, BindsFresh DEF Used
<1>4. CASE Claims
  BY <1>1, <1>4, ClaimsRow DEF Used, Claims
<1> QED
  BY <1>2, <1>3, <1>4, RowSteps

LEMMA CallAnswers == ASSUME TypeOK, NEW r \in Requests, RedeemCall(r)
                     PROVE  redeem'[r].pc = "done" \/
                              /\ redeem'[r].pc = "answered"
                              /\ PlaceOrder(redeem[r].attempt, redeem[r].account)
<1>1. redeem[r] \in Submitted
  BY SubmittedType DEF RedeemCall
<1>2. \/ redeem'[r] = [redeem[r] EXCEPT !.pc = "done"]
      \/ /\ redeem'[r] = [redeem[r] EXCEPT !.pc = "answered"]
         /\ PlaceOrder(redeem[r].attempt, redeem[r].account)
  BY DEF RedeemCall, TypeOK
<1> QED
  BY <1>1, <1>2 DEF Submitted

LEMMA RequestsMove ==
  ASSUME TypeOK, [Next]_vars, NEW r \in Requests, RowIsBound
  PROVE  \/ redeem'[r] = redeem[r]
         \/ redeem[r].pc = "new" /\ \E f \in Checks : RedeemClaim(r, row.attempt, f)
         \/ /\ redeem[r] \in Submitted /\ redeem'[r] \in Submitted
            /\ redeem'[r].attempt = redeem[r].attempt /\ redeem'[r].account = redeem[r].account
            /\ redeem'[r].pc \in {"answered", "done"}
            /\ RedeemCall(r) \/ RedeemBind(r)
<1>1. ASSUME RedeemCall(r) \/ RedeemBind(r)
      PROVE  /\ redeem[r] \in Submitted /\ redeem'[r] \in Submitted
             /\ redeem'[r].attempt = redeem[r].attempt /\ redeem'[r].account = redeem[r].account
             /\ redeem'[r].pc \in {"answered", "done"}
  <2>1. redeem[r] \in Submitted
    BY <1>1, SubmittedType DEF RedeemCall, RedeemBind
  <2>2. redeem'[r] = [redeem[r] EXCEPT !.pc = "answered"] \/ redeem'[r] = [redeem[r] EXCEPT !.pc = "done"]
    BY <1>1 DEF RedeemCall, RedeemBind, TypeOK
  <2> QED
    BY <2>1, <2>2 DEF Submitted
<1>2. ASSUME NEW a \in Attempts, NEW f \in Checks, RedeemClaim(r, a, f)
      PROVE  redeem[r].pc = "new" /\ RedeemClaim(r, row.attempt, f)
  BY <1>2, ClaimsRow
<1> QED
  BY <1>1, <1>2, RedeemSteps DEF RedeemStep

LEMMA OrdersStay ==
  ASSUME TypeOK, [Next]_vars, NEW a \in Attempts, order[a] # NoOrder
  PROVE  order'[a] # NoOrder
<1>1. \A c : [state |-> "processing", account |-> c] # NoOrder
  <2>1. \A c : [state |-> "processing", account |-> c].state # NoOrder.state
    OBVIOUS
  <2> QED
    BY <2>1
<1>2. Settles(a) => order'[a] # NoOrder
  BY DEF Settles
<1>3. (\E r \in Requests : order'[a] = [state |-> "processing", account |-> redeem[r].account])
        => order'[a] # NoOrder
  BY <1>1
<1> QED
  BY <1>2, <1>3, OrderSteps

LEMMA HistoryNext == TypeOK /\ History /\ [Next]_vars => History'
<1> SUFFICES ASSUME TypeOK, History, [Next]_vars PROVE History'
  OBVIOUS
<1> USE DEF History
<1>t. TypeOK'
  BY TypeNext
<1>r. row.attempt \in Attempts \cup {NoAttempt} /\ row'.attempt \in Attempts \cup {NoAttempt}
  BY <1>t DEF TypeOK, Rows
<1>1. RowIsBound'
  <2>1. CASE SameAttempt
    BY <1>r, <2>1, BoundStays DEF SameAttempt, RowIsBound
  <2>2. ASSUME NEW b \in Attempts, Binds(b) PROVE RowIsBound'
    BY <2>2, BindsFresh DEF RowIsBound
  <2>3. CASE Claims
    BY <1>r, <2>3, ClaimsRow, BoundStays, NamesAssumption DEF RowIsBound, Claims
  <2> QED
    BY <2>1, <2>2, <2>3, RowSteps
<1>2. RequestsUse'
  <2>1. ASSUME NEW r \in Requests, redeem'[r].pc # "new", NEW a, a = redeem'[r].attempt
        PROVE  Used(a)'
    <3>1. CASE redeem'[r] = redeem[r]
      BY <2>1, <3>1, UsedStays DEF RequestsUse
    <3>2. ASSUME NEW f \in Checks, RedeemClaim(r, row.attempt, f) PROVE Used(a)'
      <4>1. PICK b \in Attempts : row.attempt = b
        BY <1>r, <3>2, NamesAssumption DEF RedeemClaim, MayClaim, Pending, Current, TypeOK, CheckStates
      <4>2. RedeemClaim(r, b, f)
        BY <3>2, <4>1
      <4>3. a = b /\ row'.submitted /\ Bound(b)
        BY <2>1, <4>1, <4>2, ClaimsRow, NamesAssumption DEF RowIsBound
      <4> QED
        BY <4>3, BoundStays DEF Used
    <3>3. CASE redeem[r] \in Submitted /\ redeem'[r].attempt = redeem[r].attempt
      BY <2>1, <3>3, UsedStays DEF RequestsUse, Submitted
    <3> QED
      BY <3>1, <3>2, <3>3, RequestsMove
  <2> QED
    BY <2>1 DEF RequestsUse, Used
<1>3. OrdersUse'
  <2>1. ASSUME NEW a \in Attempts, order'[a] # NoOrder PROVE Used(a)'
    <3>1. Used(a)
      <4>1. CASE order'[a] = order[a] \/ Settles(a)
        BY <2>1, <4>1 DEF OrdersUse, Settles
      <4>2. ASSUME NEW r \in Requests, RedeemCall(r), redeem[r].attempt = a PROVE Used(a)
        BY <4>2 DEF RedeemCall, RequestsUse
      <4> QED
        BY <4>1, <4>2, OrderSteps
    <3> QED
      BY <3>1, UsedStays
  <2> QED
    BY <2>1 DEF OrdersUse, Used
<1>4. OneCallPerAttempt'
  <2>1. ASSUME NEW r \in Requests, NEW s \in Requests, r # s,
               redeem'[r].pc # "new", redeem'[s].pc # "new",
               redeem[s].pc = "new" \/ redeem[r].pc # "new"
        PROVE  redeem'[r].attempt # redeem'[s].attempt
    <3>1. ASSUME NEW f \in Checks, RedeemClaim(s, row.attempt, f)
          PROVE  redeem'[r] = redeem[r] /\ redeem'[s].attempt = row.attempt /\ ~row.submitted
                 /\ row.attempt \in Attempts
      BY <2>1, <3>1, <1>r, NamesAssumption
         DEF RedeemClaim, MayClaim, Pending, Current, TypeOK, CheckStates
    <3>2. ASSUME NEW f \in Checks, RedeemClaim(s, row.attempt, f)
          PROVE  redeem'[r].attempt # redeem'[s].attempt
      BY <2>1, <3>1, <3>2 DEF RequestsUse, Used
    <3>3. ASSUME redeem[s].pc # "new"
          PROVE  redeem'[s].attempt = redeem[s].attempt
      BY <3>3, RequestsMove, <1>t
    <3>4. ASSUME redeem[r].pc # "new"
          PROVE  redeem'[r].attempt = redeem[r].attempt
      BY <3>4, RequestsMove
    <3>5. CASE redeem[s].pc # "new"
      BY <2>1, <3>3, <3>4, <3>5 DEF OneCallPerAttempt
    <3>6. CASE redeem[s].pc = "new"
      BY <2>1, <3>2, <3>6, RequestsMove, SubmittedType DEF Submitted
    <3> QED
      BY <3>5, <3>6
  <2>2. ASSUME NEW r \in Requests, NEW s \in Requests, r # s,
               redeem'[r].pc # "new", redeem'[s].pc # "new"
        PROVE  redeem'[r].attempt # redeem'[s].attempt
    BY <2>1, <2>2
  <2>3. \A r \in Requests : redeem'[r] # NewRequest => redeem'[r].pc # "new"
    BY <1>t DEF TypeOK, Submissions
  <2> QED
    BY <2>2, <2>3 DEF OneCallPerAttempt
<1>5. CallsAreFirst'
  <2>1. ASSUME NEW r \in Requests, redeem'[r].pc = "calling", NEW a \in Attempts, a = redeem'[r].attempt
        PROVE  order'[a] = NoOrder
    <3>1. CASE redeem[r].pc = "calling"
      <4>1. redeem[r].attempt = a /\ order[a] = NoOrder /\ ~RedeemCall(r)
        <5>1. redeem[r].attempt = a
          BY <2>1, <3>1, RequestsMove
        <5>2. ~RedeemCall(r)
          BY <2>1, CallAnswers
        <5> QED
          BY <3>1, <5>1, <5>2 DEF CallsAreFirst
      <4>2. ASSUME NEW s \in Requests, RedeemCall(s) PROVE redeem[s].attempt # a
        BY <3>1, <4>1, <4>2 DEF OneCallPerAttempt, RedeemCall
      <4>3. ~Settles(a)
        BY <4>1 DEF Settles
      <4> QED
        BY <4>1, <4>2, <4>3, OrderSteps
    <3>2. CASE redeem[r].pc # "calling"
      <4>1. PICK f \in Checks : RedeemClaim(r, row.attempt, f)
        BY <2>1, <3>2, RequestsMove
      <4>2. a = row.attempt /\ ~row.submitted /\ order' = order
        BY <2>1, <4>1 DEF RedeemClaim, MayClaim, Pending, Current, TypeOK, platform
      <4> QED
        BY <4>2 DEF OrdersUse, Used
    <3> QED
      BY <3>1, <3>2
  <2>2. \A r \in Requests : redeem'[r].pc = "calling" => redeem'[r].attempt \in Attempts
    BY <1>t DEF TypeOK, Submissions
  <2> QED
    BY <2>1, <2>2 DEF CallsAreFirst
<1>6. SnapshotsAreOld'
  <2> DEFINE Old(s) == (s.attempt # NoAttempt => Bound(s.attempt)) /\ (s.submitted => Used(s.attempt))
  <2>1. ASSUME NEW s \in Rows, Old(s) PROVE Old(s)'
    BY <2>1, BoundStays, UsedStays DEF Rows
  <2>2. Old(row)
    BY <1>r DEF RowIsBound, Used
  <2>3. ASSUME NEW a \in Attempts, Read(a)'
        PROVE  LET old == visit'[a].snapshot
               IN /\ old.attempt # NoAttempt => Bound(old.attempt)
                  /\ old.submitted => Used(old.attempt)
                  /\ visit'[a].pc = "read" /\ visit'[a].open => old.submitted
    <3>1. CASE visit'[a] = visit[a]
      BY <2>3, <3>1 DEF SnapshotsAreOld, Read
    <3>2. CASE PreviewRead(a)
      <4>1. visit'[a] = [pc |-> "read", snapshot |-> row, open |-> row.submitted /\ ~elapsed]
        BY <3>2 DEF PreviewRead, TypeOK
      <4>2. visit'[a].snapshot = row
        BY <4>1
      <4>3. visit'[a].open = (row.submitted /\ ~elapsed)
        BY <4>1
      <4>4. visit'[a].open => row.submitted
        BY <4>3, Zenon
      <4> QED
        BY <2>2, <4>2, <4>4
    <3>3. CASE PreviewProve(a)
      <4>1. visit[a].pc = "read" /\ visit'[a] = [pc |-> "proved", snapshot |-> visit[a].snapshot]
        BY <3>3 DEF PreviewProve, TypeOK
      <4> QED
        BY <4>1 DEF SnapshotsAreOld, Read
    <3>4. CASE PreviewRefused(a) \/ PreviewBind(a)
      BY <2>3, <3>4 DEF PreviewRefused, PreviewBind, Read, TypeOK
    <3> QED
      BY <3>1, <3>2, <3>3, <3>4, VisitSteps DEF PreviewStep
  <2>4. ASSUME NEW a \in Attempts, Read(a)' PROVE visit'[a].snapshot \in Rows
    BY <1>t, <2>4 DEF TypeOK, Read, Visits
  <2> QED
    BY <2>1, <2>3, <2>4 DEF SnapshotsAreOld
<1>7. LatestIsOwn'
  <2>1. CASE UNCHANGED platform
    BY <2>1 DEF platform, LatestIsOwn
  <2>2. CASE PlatformSettles
    <3>1. latest' = latest
      BY <2>2 DEF PlatformSettles
    <3>2. \A a \in Attempts : order[a] # NoOrder => order'[a] # NoOrder
      BY <2>2, OrdersStay
    <3> QED
      BY <3>1, <3>2 DEF LatestIsOwn, TypeOK
  <2>3. ASSUME NEW r \in Requests, RedeemCall(r), PlaceOrder(redeem[r].attempt, redeem[r].account)
        PROVE  LatestIsOwn'
    BY <2>3, SubmittedType DEF PlaceOrder, LatestIsOwn, TypeOK, Submitted, RedeemCall
  <2> QED
    BY <2>1, <2>2, <2>3, PlatformSteps
<1> QED
  BY <1>1, <1>2, <1>3, <1>4, <1>5, <1>6, <1>7

------------------------------------------------------------------------------
\* Windows: what was over stays over, and an over submission is counted.

LEMMA WindowSteps ==
  ASSUME [Next]_vars
  PROVE  \/ DeadlinePasses
         \/ lapsed' = lapsed /\ (elapsed' => elapsed)
<1>1. ASSUME NEW a \in Attempts, PreviewStep(a) PROVE lapsed' = lapsed /\ (elapsed' => elapsed)
  BY <1>1 DEF PreviewStep, PreviewRead, PreviewRefused, PreviewProve, PreviewBind, local
<1>2. ASSUME NEW f \in Checks, PreflightStep(f) PROVE lapsed' = lapsed /\ (elapsed' => elapsed)
  BY <1>2 DEF PreflightStep, PreflightCheck, PreflightRefused, PreflightRegister, local
<1>3. ASSUME NEW r \in Requests, RedeemStep(r) PROVE lapsed' = lapsed /\ (elapsed' => elapsed)
  BY <1>3 DEF RedeemStep, RedeemClaim, RedeemCall, RedeemBind, local
<1>4. ASSUME NEW l \in Lookups, LookupStep(l) PROVE lapsed' = lapsed /\ (elapsed' => elapsed)
  BY <1>4 DEF LookupStep, LookupRead, LookupPurge, LookupAnswered, LookupServe, LookupBind, local
<1>5. ASSUME PlatformSettles \/ Purge \/ Sweep PROVE lapsed' = lapsed /\ (elapsed' => elapsed)
  BY <1>5 DEF PlatformSettles, Purge, Sweep, local
<1> QED
  BY <1>1, <1>2, <1>3, <1>4, <1>5 DEF Next, vars

LEMMA OverStays == ASSUME TypeOK, [Next]_vars, NEW a, Used(a), Over(a) PROVE Over(a)'
<1>1. CASE SameAttempt /\ (elapsed => elapsed')
  BY <1>1 DEF Over, SameAttempt
<1>2. ASSUME NEW b \in Attempts, Binds(b) PROVE Over(a)'
  BY <1>2, BindsFresh DEF Over, Used
<1>3. CASE Claims
  BY <1>3, ClaimsRow DEF Over, Used, Claims
<1> QED
  BY <1>1, <1>2, <1>3, RowSteps

LEMMA ClosedNext == ASSUME TypeOK, History, ClosedStaysClosed, [Next]_vars
                    PROVE  ClosedStaysClosed'
<1>1. ASSUME NEW a \in Attempts, visit'[a].pc = "read", ~visit'[a].open, visit'[a].snapshot.submitted,
             NEW b, b = visit'[a].snapshot.attempt
      PROVE  Over(b)'
  <2>1. CASE visit'[a] = visit[a]
    BY <1>1, <2>1, OverStays DEF ClosedStaysClosed, History, SnapshotsAreOld, Read
  <2>2. CASE PreviewRead(a)
    <3>1. visit'[a] = [pc |-> "read", snapshot |-> row, open |-> row.submitted /\ ~elapsed]
      BY <2>2 DEF PreviewRead, TypeOK
    <3>2. visit'[a].open = (row.submitted /\ ~elapsed) /\ visit'[a].snapshot = row
      BY <3>1
    <3>3. ~(row.submitted /\ ~elapsed)
      BY <1>1, <3>2, Zenon
    <3> QED
      BY <1>1, <2>2, <3>2, <3>3 DEF Over, PreviewRead, local
  <2>3. CASE PreviewRefused(a) \/ PreviewProve(a) \/ PreviewBind(a)
    BY <1>1, <2>1, <2>3 DEF PreviewRefused, PreviewProve, PreviewBind, TypeOK
  <2> QED
    BY <2>1, <2>2, <2>3, VisitSteps DEF PreviewStep
<1> QED
  BY <1>1 DEF ClosedStaysClosed, Over

LEMMA ExpiredNext == ASSUME TypeOK, History, ExpiredStaysExpired, [Next]_vars
                     PROVE  ExpiredStaysExpired'
<1>1. ASSUME NEW l \in Lookups, query'[l].pc = "expired", NEW b, b = query'[l].snapshot.attempt
      PROVE  Used(b)' /\ Over(b)'
  <2>1. CASE query'[l] = query[l]
    BY <1>1, <2>1, OverStays, UsedStays DEF ExpiredStaysExpired
  <2>2. CASE LookupRead(l)
    <3>1. query'[l] = [pc |-> "expired", snapshot |-> row] /\ elapsed
      BY <1>1, <2>2 DEF LookupRead, TypeOK
    <3>2. b = row.attempt /\ Used(b)
      BY <1>1, <2>2, <3>1 DEF LookupRead, History, RowIsBound, Used, TypeOK, Rows
    <3> QED
      BY <2>2, <3>1, <3>2, UsedStays DEF Over, LookupRead, local
  <2>3. CASE LookupPurge(l) \/ LookupBind(l)
    BY <1>1, <2>3 DEF LookupPurge, LookupBind, TypeOK
  <2>4. CASE LookupAnswered(l)
    BY <1>1, <2>4 DEF LookupAnswered, TypeOK
  <2>5. CASE LookupServe(l)
    <3>1. query[l] \in Heard
      BY <2>5, HeardType DEF LookupServe
    <3> QED
      BY <1>1, <2>5, <3>1 DEF LookupServe, TypeOK, Heard
  <2> QED
    BY <2>1, <2>2, <2>3, <2>4, <2>5, QuerySteps DEF LookupStep
<1> QED
  BY <1>1 DEF ExpiredStaysExpired, Over, Used

LEMMA WindowsNext == ASSUME TypeOK, WindowsAreCounted, [Next]_vars PROVE WindowsAreCounted'
<1>1. CASE DeadlinePasses
  BY <1>1 DEF DeadlinePasses, WindowsAreCounted
<1>2. CASE lapsed' = lapsed /\ (elapsed' => elapsed)
  <2>1. CASE SameAttempt
    BY <1>2, <2>1 DEF SameAttempt, WindowsAreCounted
  <2>2. ASSUME NEW b \in Attempts, Binds(b) PROVE WindowsAreCounted'
    BY <2>2, BindsFresh DEF WindowsAreCounted
  <2>3. CASE Claims
    BY <2>3 DEF Claims, RedeemClaim, WindowsAreCounted
  <2> QED
    BY <2>1, <2>2, <2>3, RowSteps
<1> QED
  BY <1>1, <1>2, WindowSteps

------------------------------------------------------------------------------
\* Orders and answers.

LEMMA AnswerStays ==
  ASSUME TypeOK, History, [Next]_vars, NEW a \in Attempts, NEW account, Answer(a, account)
  PROVE  Answer(a, account)'
<1>1. PICK b \in Attempts : TokenOf[b] = TokenOf[a] /\ Placed(b, account)
  BY DEF Answer
<1>2. ASSUME NEW r \in Requests, RedeemCall(r), redeem[r].attempt = b PROVE FALSE
  BY <1>1, <1>2 DEF RedeemCall, History, CallsAreFirst, Placed
<1>3. Placed(b, account)'
  BY <1>1, <1>2, OrderSteps DEF Placed, Settles
<1> QED
  BY <1>1, <1>3 DEF Answer

LEMMA DeclinedStays ==
  ASSUME TypeOK, History, [Next]_vars, NEW a \in Attempts, order[a].state = "declined"
  PROVE  order'[a] = order[a]
<1>1. ASSUME NEW r \in Requests, RedeemCall(r), redeem[r].attempt = a PROVE FALSE
  BY <1>1 DEF RedeemCall, History, CallsAreFirst
<1> QED
  BY <1>1, OrderSteps DEF Settles

LEMMA SharedStays ==
  ASSUME TypeOK, History, [Next]_vars, NEW a, SharesAFailure(a)
  PROVE  SharesAFailure(a)'
<1>1. PICK b \in Attempts \ {a} : TokenOf[b] = TokenOf[a] /\ order[b].state = "declined"
  BY DEF SharesAFailure
<1>2. order'[b].state = "declined"
  BY <1>1, DeclinedStays
<1> QED
  BY <1>1, <1>2 DEF SharesAFailure

LEMMA FailedStays ==
  ASSUME TypeOK, History, [Next]_vars, NEW a \in Attempts, Failed(a)
  PROVE  Failed(a)'
  BY DeclinedStays, SharedStays DEF Failed

\* Result may be retried: an order that was placed with the token was declined.
LEMMA RetryProves ==
  ASSUME TypeOK, History, NEW a \in Attempts, AllowsRetry(TokenOf[a])
  PROVE  Failed(a)
<1>1. TokenOf[a] \in Tokens
  BY FunctionsAssumption
<1>2. /\ latest[TokenOf[a]] \in Attempts /\ TokenOf[latest[TokenOf[a]]] = TokenOf[a]
      /\ order[latest[TokenOf[a]]].state = "declined"
  BY <1>1 DEF AllowsRetry, History, LatestIsOwn, TypeOK
<1> QED
  BY <1>2 DEF Failed, SharesAFailure

LEMMA ProofsNext == ASSUME TypeOK, History, ProofsHold, [Next]_vars PROVE ProofsHold'
<1>1. ASSUME NEW a \in Attempts, visit'[a].pc = "proved", NEW b, b = visit'[a].snapshot.attempt
      PROVE  b \in Attempts /\ Failed(b)'
  <2>1. CASE visit'[a] = visit[a]
    BY <1>1, <2>1, FailedStays DEF ProofsHold
  <2>2. CASE PreviewProve(a)
    <3>1. /\ visit[a].pc = "read" /\ visit[a].open /\ AllowsRetry(TokenOf[b])
          /\ b = visit[a].snapshot.attempt
      BY <1>1, <2>2 DEF PreviewProve, TypeOK
    <3>2. b \in Attempts
      BY <3>1 DEF History, SnapshotsAreOld, Read, Used
    <3> QED
      BY <3>1, <3>2, RetryProves, FailedStays
  <2>3. CASE PreviewRead(a) \/ PreviewRefused(a) \/ PreviewBind(a)
    BY <1>1, <2>1, <2>3 DEF PreviewRead, PreviewRefused, PreviewBind, TypeOK
  <2> QED
    BY <2>1, <2>2, <2>3, VisitSteps DEF PreviewStep
<1>2. ASSUME NEW a \in Attempts, visit'[a].pc = "proved"
      PROVE  (visit[a].snapshot.attempt \in Attempts /\ Failed(visit[a].snapshot.attempt))'
  BY <1>1, <1>2 DEF Failed, SharesAFailure
<1> QED
  BY <1>2 DEF ProofsHold

\* The row of a bind was free: no submission, one that has failed, or one
\* whose window has ended.
LEMMA BindsOverNothing ==
  ASSUME TypeOK, History, ClosedStaysClosed, ProofsHold, NEW a \in Attempts, Binds(a)
  PROVE  \/ ~row.submitted
         \/ elapsed
         \/ row.attempt \in Attempts /\ Failed(row.attempt)
<1>1. MayReplace(a) /\ row = visit[a].snapshot
  BY BindsFresh
<1> QED
  BY <1>1 DEF MayReplace, ClosedStaysClosed, Over, ProofsHold

LEMMA LiveSteps ==
  ASSUME TypeOK, History, [Next]_vars, NEW a \in Attempts, Live(a)'
  PROVE  \/ Live(a)
         \/ row'.attempt = a /\ row'.submitted
<1>1. ASSUME NEW r \in Requests, redeem'[r].pc = "calling", redeem'[r].attempt = a
      PROVE  Live(a) \/ (row'.attempt = a /\ row'.submitted)
  <2>1. CASE redeem'[r] = redeem[r]
    BY <1>1, <2>1 DEF Live
  <2>2. ASSUME NEW f \in Checks, RedeemClaim(r, row.attempt, f)
        PROVE  row'.attempt = a /\ row'.submitted
    BY <1>1, <2>2 DEF RedeemClaim, TypeOK, Rows
  <2> QED
    BY <1>1, <2>1, <2>2, RequestsMove DEF History
<1>2. ASSUME order'[a].state \in {"processing", "completed", "failed"} PROVE Live(a)
  BY <1>2, OrderSteps DEF Live, Settles, RedeemCall
<1> QED
  BY <1>1, <1>2 DEF Live

LEMMA LiveNext ==
  ASSUME TypeOK, History, ClosedStaysClosed, ProofsHold, WindowsAreCounted, LiveIsOpen,
         [Next]_vars
  PROVE  LiveIsOpen'
<1> SUFFICES ASSUME NEW a \in Attempts, a \notin lapsed', Live(a)'
             PROVE  (row'.attempt = a /\ row'.submitted) \/ SharesAFailure(a)'
  BY DEF LiveIsOpen
<1>1. a \notin lapsed
  BY WindowSteps DEF DeadlinePasses
<1>2. CASE Live(a) /\ ~SharesAFailure(a)
  <2>1. row.attempt = a /\ row.submitted
    BY <1>1, <1>2 DEF LiveIsOpen
  <2>2. ~elapsed
    BY <1>1, <2>1 DEF WindowsAreCounted
  <2>3. ~Failed(a)
    BY <1>2 DEF Live, History, CallsAreFirst, Failed
  <2>4. \A b \in Attempts : ~Binds(b)
    BY <2>1, <2>2, <2>3, BindsOverNothing
  <2>5. ~Claims
    BY <2>1, ClaimsRow DEF Claims
  <2> QED
    BY <2>1, <2>4, <2>5, RowSteps DEF SameAttempt
<1> QED
  BY <1>2, LiveSteps, SharedStays

LEMMA AnswersNext ==
  ASSUME TypeOK, History, AnswersAreTrue, [Next]_vars
  PROVE  AnswersAreTrue'
<1>t. TypeOK'
  BY TypeNext DEF History
<1>1. ASSUME NEW r \in Requests, redeem'[r].pc = "answered",
             NEW a \in Attempts, a = redeem'[r].attempt, NEW account, account = redeem'[r].account
      PROVE  Answer(a, account)'
  <2>1. CASE redeem[r].pc = "answered"
    <3>1. redeem[r].attempt = a /\ redeem[r].account = account
      BY <1>1, <2>1, RequestsMove DEF History
    <3> QED
      BY <2>1, <3>1, AnswerStays DEF AnswersAreTrue
  <2>2. CASE redeem[r].pc # "answered"
    <3>1. RedeemCall(r) /\ redeem[r].attempt = a /\ redeem[r].account = account
      <4>1. ASSUME NEW f \in Checks, RedeemClaim(r, row.attempt, f) PROVE FALSE
        BY <1>1, <4>1 DEF RedeemClaim, TypeOK
      <4> QED
        BY <1>1, <2>2, <4>1, RequestsMove DEF RedeemBind, History
    <3>2. PlaceOrder(a, account)
      BY <1>1, <3>1, CallAnswers
    <3>3. order'[a] = [state |-> "processing", account |-> account]
      BY <3>2 DEF PlaceOrder, TypeOK
    <3>4. order'[a].state # NoOrder.state
      BY <3>3
    <3>5. Placed(a, account)'
      BY <3>3, <3>4 DEF Placed
    <3>6. a \in Attempts
      BY <1>1
    <3> QED
      BY <3>5, <3>6 DEF Answer
  <2> QED
    BY <2>1, <2>2
<1>2. ASSUME NEW l \in Lookups, query'[l].pc \in {"answered", "binding"},
             NEW a \in Attempts, a = query'[l].attempt, NEW account, account = query'[l].account
      PROVE  Answer(a, account)'
  <2>1. CASE query'[l] = query[l]
    BY <1>2, <2>1, AnswerStays DEF AnswersAreTrue
  <2>2. CASE LookupAnswered(l)
    <3>1. query[l].pc = "asking" /\ query[l].attempt \in Attempts
      BY <2>2 DEF LookupAnswered, TypeOK, Queries
    <3> DEFINE placed == latest[TokenOf[query[l].attempt]]
    <3>2. /\ placed # NoAttempt
          /\ query'[l] = [pc |-> "answered", attempt |-> query[l].attempt,
                          account |-> order[placed].account]
      BY <1>2, <2>2 DEF LookupAnswered, TypeOK
    <3>3. placed \in Attempts /\ TokenOf[placed] = TokenOf[query[l].attempt] /\ order[placed] # NoOrder
      BY <3>1, <3>2, FunctionsAssumption DEF History, LatestIsOwn, TypeOK
    <3>4. query[l].attempt = a /\ order[placed].account = account
      BY <1>2, <3>2
    <3> HIDE DEF placed
    <3>5. Answer(a, account)
      BY <3>3, <3>4 DEF Answer, Placed
    <3> QED
      BY <3>5, AnswerStays
  <2>3. CASE LookupServe(l) \/ LookupBind(l)
    <3>1. query[l] \in Heard
      BY <2>3, HeardType DEF LookupServe, LookupBind
    <3>2. query[l].attempt = a /\ query[l].account = account
      BY <1>2, <2>3, <3>1 DEF LookupServe, LookupBind, TypeOK, Heard
    <3>3. Answer(a, account)
      BY <3>1, <3>2 DEF AnswersAreTrue, Heard
    <3> QED
      BY <3>3, AnswerStays
  <2>4. CASE LookupRead(l) \/ LookupPurge(l)
    BY <1>2, <2>4 DEF LookupRead, LookupPurge, TypeOK
  <2> QED
    BY <2>1, <2>2, <2>3, <2>4, QuerySteps DEF LookupStep
<1>3. \A r \in Requests : redeem'[r].pc = "answered" => redeem'[r].attempt \in Attempts
  BY <1>t DEF TypeOK, Submissions
<1>4. \A l \in Lookups : query'[l].pc \in {"answered", "binding"} => query'[l].attempt \in Attempts
  <2>1. ASSUME NEW l \in Lookups, query'[l].pc \in {"answered", "binding"} PROVE query'[l] \in Heard
    BY <1>t, <2>1 DEF TypeOK, Queries, Heard
  <2> QED
    BY <2>1 DEF Heard
<1> QED
  BY <1>1, <1>2, <1>3, <1>4 DEF AnswersAreTrue, Answer, Placed

\* A query is about an attempt that was submitted.
LEMMA QueriesNext == ASSUME TypeOK, History, QueriesUse, [Next]_vars PROVE QueriesUse'
<1>1. ASSUME NEW l \in Lookups, query'[l].pc \in {"asking", "answered", "binding"},
             NEW a, a = query'[l].attempt
      PROVE  Used(a)'
  <2>1. CASE query'[l] = query[l]
    BY <1>1, <2>1, UsedStays DEF QueriesUse
  <2>2. CASE LookupRead(l)
    <3>1. a = row.attempt /\ row.submitted /\ row.attempt # NoAttempt
      BY <1>1, <2>2 DEF LookupRead, TypeOK
    <3>2. Used(a)
      BY <3>1 DEF History, RowIsBound, Used, TypeOK, Rows
    <3> QED
      BY <3>2, UsedStays
  <2>3. CASE LookupAnswered(l)
    <3>1. query[l].pc = "asking" /\ query[l].attempt = a
      BY <1>1, <2>3 DEF LookupAnswered, TypeOK
    <3> QED
      BY <3>1, UsedStays DEF QueriesUse
  <2>4. CASE LookupServe(l)
    <3>1. query[l] \in Heard
      BY <2>4, HeardType DEF LookupServe
    <3>2. query[l].attempt = a
      BY <1>1, <2>4, <3>1 DEF LookupServe, TypeOK, Heard
    <3> QED
      BY <3>1, <3>2, UsedStays DEF QueriesUse, Heard
  <2>5. CASE LookupPurge(l) \/ LookupBind(l)
    BY <1>1, <2>5 DEF LookupPurge, LookupBind, TypeOK
  <2> QED
    BY <2>1, <2>2, <2>3, <2>4, <2>5, QuerySteps DEF LookupStep
<1> QED
  BY <1>1 DEF QueriesUse, Used

LEMMA EmailSteps ==
  ASSUME TypeOK, [Next]_vars
  PROVE  \/ row'.email = NoEmail
         \/ row'.email = row.email /\ row'.attempt = row.attempt
         \/ \E r \in Requests :
              /\ redeem[r].pc = "answered"
              /\ row'.attempt = redeem[r].attempt /\ row'.email = redeem[r].account
         \/ \E l \in Lookups :
              /\ query[l].pc = "binding"
              /\ row'.attempt = query[l].attempt /\ row'.email = query[l].account
<1> DEFINE Kept == row'.email = NoEmail \/ (row'.email = row.email /\ row'.attempt = row.attempt)
<1>1. ASSUME Scrub PROVE Kept
  BY <1>1 DEF Scrub, TypeOK, Rows
<1>2. ASSUME NEW a, NEW account, BindEmail(a, account)
      PROVE  Kept \/ (row'.attempt = a /\ row'.email = account)
  BY <1>2 DEF BindEmail, OfAttempt, Current, TypeOK, Rows
<1>3. ASSUME Sweep PROVE Kept
  BY <1>3 DEF Sweep, TypeOK, Rows
<1>4. ASSUME Purge \/ \E l \in Lookups : LookupPurge(l) PROVE Kept
  BY <1>1, <1>4 DEF Purge, LookupPurge, PurgeSnapshot
<1>5. ASSUME NEW r \in Requests, RedeemBind(r)
      PROVE  Kept \/ /\ redeem[r].pc = "answered"
                     /\ row'.attempt = redeem[r].attempt /\ row'.email = redeem[r].account
  BY <1>2, <1>5 DEF RedeemBind
<1>6. ASSUME NEW l \in Lookups, LookupBind(l)
      PROVE  Kept \/ /\ query[l].pc = "binding"
                     /\ row'.attempt = query[l].attempt /\ row'.email = query[l].account
  BY <1>2, <1>6 DEF LookupBind
<1>7. ASSUME NEW a \in Attempts, PreviewStep(a) PROVE Kept
  BY <1>7, BindsFresh
     DEF PreviewStep, PreviewRead, PreviewRefused, PreviewProve, PreviewBind, Binds, local
<1>8. ASSUME NEW f \in Checks, PreflightStep(f) PROVE Kept
  BY <1>8 DEF PreflightStep, PreflightCheck, PreflightRefused, PreflightRegister, local
<1>9. ASSUME NEW r \in Requests, RedeemCall(r) PROVE Kept
  BY <1>9 DEF RedeemCall, local
<1>10. ASSUME NEW r \in Requests, NEW a \in Attempts, NEW f \in Checks, RedeemClaim(r, a, f) PROVE Kept
  BY <1>10, ClaimsRow
<1>11. ASSUME NEW l \in Lookups, LookupRead(l) \/ LookupAnswered(l) \/ LookupServe(l) PROVE Kept
  BY <1>11 DEF LookupRead, LookupAnswered, LookupServe, local
<1>12. ASSUME PlatformSettles \/ DeadlinePasses PROVE Kept
  BY <1>12 DEF PlatformSettles, DeadlinePasses, local
<1> QED
  BY <1>3, <1>4, <1>5, <1>6, <1>7, <1>8, <1>9, <1>10, <1>11, <1>12
     DEF Next, RedeemStep, LookupStep, vars

\* An e-mail that stays does so under the same submission.
LEMMA EmailStaysSubmitted ==
  ASSUME TypeOK, [Next]_vars, row.submitted, row'.email # NoEmail, row'.attempt = row.attempt
  PROVE  row'.submitted
  BY RowSteps, BindsFresh, ClaimsRow DEF SameAttempt, Claims

LEMMA EmailNext ==
  ASSUME TypeOK, History, QueriesUse, AnswersAreTrue, EmailIsHeld, EmailIsOfTheOrder, [Next]_vars
  PROVE  EmailIsHeld' /\ EmailIsOfTheOrder'
<1>1. ASSUME NEW a \in Attempts, NEW e, Answer(a, e), row'.attempt = a, row'.email = e,
             row'.submitted
      PROVE  EmailIsHeld' /\ EmailIsOfTheOrder'
  <2>1. PICK b \in Attempts : (TokenOf[b] = TokenOf[a] /\ Placed(b, e))'
    BY <1>1, AnswerStays DEF Answer
  <2> QED
    BY <1>1, <2>1 DEF Placed, EmailIsHeld, EmailIsOfTheOrder
<1>2. CASE row'.email = NoEmail
  BY <1>2 DEF EmailIsHeld, EmailIsOfTheOrder
<1>3. CASE row'.email = row.email /\ row'.attempt = row.attempt /\ row.email # NoEmail
  <2>1. PICK b \in Attempts : TokenOf[b] = TokenOf[row.attempt] /\ Placed(b, row.email)
    BY <1>3 DEF EmailIsOfTheOrder, Placed
  <2>2. row.attempt \in Attempts /\ Answer(row.attempt, row.email)
    BY <1>3, <2>1 DEF EmailIsHeld, Answer
  <2>3. row'.submitted
    BY <1>3, EmailStaysSubmitted DEF EmailIsOfTheOrder
  <2> QED
    BY <1>1, <1>3, <2>2, <2>3
<1>4. ASSUME NEW a, Used(a), row'.attempt = a PROVE row'.submitted
  BY <1>4, UsedStays DEF Used
<1>5. ASSUME NEW r \in Requests, redeem[r].pc = "answered",
             row'.attempt = redeem[r].attempt, row'.email = redeem[r].account
      PROVE  EmailIsHeld' /\ EmailIsOfTheOrder'
  <2>1. Used(redeem[r].attempt) /\ Answer(redeem[r].attempt, redeem[r].account)
    BY <1>5 DEF History, RequestsUse, AnswersAreTrue
  <2> QED
    BY <1>1, <1>4, <1>5, <2>1 DEF Used
<1>6. ASSUME NEW l \in Lookups, query[l].pc = "binding",
             row'.attempt = query[l].attempt, row'.email = query[l].account
      PROVE  EmailIsHeld' /\ EmailIsOfTheOrder'
  <2>1. Used(query[l].attempt) /\ Answer(query[l].attempt, query[l].account)
    BY <1>6 DEF QueriesUse, AnswersAreTrue
  <2> QED
    BY <1>1, <1>4, <1>6, <2>1 DEF Used
<1> QED
  BY <1>2, <1>3, <1>5, <1>6, EmailSteps

------------------------------------------------------------------------------
\* An attempt in its window stands.

LEMMA OpenStays ==
  ASSUME TypeOK, History, ClosedStaysClosed, ExpiredStaysExpired, ProofsHold, [Next]_vars,
         NEW a \in Attempts, Open(a), ~Failed(a)
  PROVE  row'.attempt = a /\ row'.submitted /\ ~row'.scrubbed
<1>o. row.attempt = a /\ row.submitted /\ ~row.scrubbed /\ ~elapsed
  BY DEF Open, Current
<1>1. SameAttempt
  <2>1. \A b \in Attempts : ~Binds(b)
    BY <1>o, BindsOverNothing
  <2>2. ~Claims
    BY <1>o, ClaimsRow DEF Claims
  <2> QED
    BY <2>1, <2>2, RowSteps
<1>2. ~row'.scrubbed
  <2>1. ASSUME NEW l \in Lookups, LookupPurge(l) PROVE row' = row
    BY <1>o, <2>1 DEF LookupPurge, PurgeSnapshot, StillSnapshot, ExpiredStaysExpired, Over
  <2>2. ASSUME NEW b, NEW account, BindEmail(b, account) PROVE row'.scrubbed = row.scrubbed
    BY <2>2 DEF BindEmail, TypeOK, Rows
  <2>3. ASSUME NEW l \in Lookups, LookupStep(l) PROVE ~row'.scrubbed
    BY <1>o, <2>1, <2>2, <2>3
       DEF LookupStep, LookupRead, LookupAnswered, LookupServe, LookupBind, local
  <2>4. ASSUME NEW r \in Requests, RedeemStep(r) PROVE ~row'.scrubbed
    <3>1. CASE RedeemBind(r)
      BY <1>o, <2>2, <3>1 DEF RedeemBind
    <3>2. CASE RedeemCall(r)
      BY <1>o, <3>2 DEF RedeemCall, local
    <3>3. ASSUME NEW b \in Attempts, NEW f \in Checks, RedeemClaim(r, b, f) PROVE FALSE
      BY <1>o, <3>3, ClaimsRow
    <3> QED
      BY <2>4, <3>1, <3>2, <3>3 DEF RedeemStep
  <2>5. ASSUME NEW b \in Attempts, PreviewStep(b) PROVE ~row'.scrubbed
    BY <1>o, <2>5, BindsFresh
       DEF PreviewStep, PreviewRead, PreviewRefused, PreviewProve, PreviewBind, NoRow, local
  <2>6. ASSUME NEW f \in Checks, PreflightStep(f) PROVE ~row'.scrubbed
    BY <1>o, <2>6 DEF PreflightStep, PreflightCheck, PreflightRefused, PreflightRegister, local
  <2>7. ASSUME PlatformSettles \/ DeadlinePasses \/ Purge \/ Sweep PROVE ~row'.scrubbed
    BY <1>o, <2>7 DEF PlatformSettles, DeadlinePasses, Purge, Sweep, local
  <2> QED
    BY <1>o, <2>3, <2>4, <2>5, <2>6, <2>7 DEF Next, vars
<1> QED
  BY <1>o, <1>1, <1>2 DEF SameAttempt

------------------------------------------------------------------------------
\* Grants are added one at a time and pruned with it.

LEMMA GrantsNext == ASSUME TypeOK, GrantsAreBounded, [Next]_vars PROVE GrantsAreBounded'
<1>0. \A a \in Attempts : grants[a] \in Seq(Checks) /\ Len(grants[a]) <= GrantLimit
  BY DEF TypeOK, GrantsAreBounded
<1>e. Len(<<>>) = 0 /\ 0 <= GrantLimit
  BY LimitAssumption
<1>1. ASSUME \A a \in Attempts : grants'[a] = grants[a] \/ grants'[a] = <<>>
      PROVE  GrantsAreBounded'
  BY <1>0, <1>e, <1>1 DEF GrantsAreBounded
<1>2. ASSUME Scrub PROVE GrantsAreBounded'
  BY <1>1, <1>2 DEF Scrub, TypeOK
<1>3. ASSUME PlatformSettles \/ DeadlinePasses \/ Sweep PROVE GrantsAreBounded'
  BY <1>1, <1>3 DEF PlatformSettles, DeadlinePasses, Sweep, local
<1>4. CASE Purge
  BY <1>2, <1>4 DEF Purge
<1>5. ASSUME NEW a \in Attempts, PreviewStep(a) PROVE GrantsAreBounded'
  BY <1>1, <1>5 DEF PreviewStep, PreviewRead, PreviewRefused, PreviewProve, PreviewBind, local
<1>6. ASSUME NEW f \in Checks, PreflightStep(f) PROVE GrantsAreBounded'
  <2>1. CASE PreflightRegister(f)
    <3>1. PICK a \in Attempts : a = check[f].attempt
      BY <2>1 DEF PreflightRegister, TypeOK, CheckStates
    <3>2. Len(Newest(Append(grants[a], f))) <= GrantLimit
      BY <1>0, GrantsType
    <3>3. grants' = [grants EXCEPT ![a] = Newest(Append(grants[a], f))]
      BY <2>1, <3>1 DEF PreflightRegister
    <3> QED
      BY <1>0, <3>2, <3>3 DEF GrantsAreBounded, TypeOK
  <2> QED
    BY <1>1, <1>6, <2>1 DEF PreflightStep, PreflightCheck, PreflightRefused, local
<1>7. ASSUME NEW r \in Requests, RedeemStep(r) PROVE GrantsAreBounded'
  BY <1>1, <1>7 DEF RedeemStep, RedeemClaim, RedeemCall, RedeemBind, TypeOK, local
<1>8. ASSUME NEW l \in Lookups, LookupStep(l) PROVE GrantsAreBounded'
  BY <1>1, <1>2, <1>8
     DEF LookupStep, LookupRead, LookupPurge, PurgeSnapshot, LookupAnswered, LookupServe,
         LookupBind, local
<1>9. CASE UNCHANGED vars
  BY <1>1, <1>9 DEF vars
<1> QED
  BY <1>3, <1>4, <1>5, <1>6, <1>7, <1>8, <1>9 DEF Next

------------------------------------------------------------------------------
\* The theorems.

LEMMA IInvInit == Init => IInv
<1> SUFFICES ASSUME Init PROVE IInv
  OBVIOUS
<1>1. TypeOK /\ History
  BY TypeInit, HistoryInit
<1>2. /\ QueriesUse /\ ClosedStaysClosed /\ ExpiredStaysExpired /\ ProofsHold /\ WindowsAreCounted
      /\ LiveIsOpen /\ AnswersAreTrue /\ EmailIsHeld /\ EmailIsOfTheOrder
  BY DEF Init, NoRow, QueriesUse, ClosedStaysClosed, ExpiredStaysExpired, ProofsHold, WindowsAreCounted,
         LiveIsOpen, Live, AnswersAreTrue, EmailIsHeld, EmailIsOfTheOrder
<1> QED
  BY <1>1, <1>2 DEF IInv

LEMMA IInvNext == IInv /\ [Next]_vars => IInv'
<1> SUFFICES ASSUME IInv, [Next]_vars PROVE IInv'
  OBVIOUS
<1> USE DEF IInv
<1>1. TypeOK' /\ History'
  BY TypeNext, HistoryNext DEF History
<1>2. /\ ClosedStaysClosed' /\ ExpiredStaysExpired' /\ ProofsHold' /\ WindowsAreCounted'
      /\ LiveIsOpen'
  BY ClosedNext, ExpiredNext, ProofsNext, WindowsNext, LiveNext
<1>3. QueriesUse' /\ AnswersAreTrue' /\ EmailIsHeld' /\ EmailIsOfTheOrder'
  BY QueriesNext, AnswersNext, EmailNext
<1> QED
  BY <1>1, <1>2, <1>3

LEMMA HistoryHolds == Spec => [](TypeOK /\ History)
<1>1. Init => TypeOK /\ History
  BY TypeInit, HistoryInit
<1>2. TypeOK /\ History /\ [Next]_vars => (TypeOK /\ History)'
  BY TypeNext, HistoryNext DEF History
<1> QED
  BY <1>1, <1>2, PTL DEF Spec

LEMMA IInvHolds == Spec => []IInv
<1>1. IInv /\ [Next]_vars => IInv'
  BY IInvNext
<1> QED
  BY <1>1, IInvInit, PTL DEF Spec

\* Every variable keeps the type of its table, handler or answer.
THEOREM TypeCorrect == Spec => []TypeOK
<1> QED
  BY HistoryHolds, PTL

\* ClaimCDKRedemptionAttempt: however many tabs, requests and late answers, an
\* attempt asks the platform for one order, whatever tokens it hands out.
THEOREM CalledOnce == Spec => []OneCallPerAttempt
<1>1. TypeOK /\ History => OneCallPerAttempt
  BY DEF History
<1> QED
  BY <1>1, HistoryHolds, PTL

\* RegisterCDKPreflightGrant: no attempt ever has more grants than the limit,
\* although the capacity is checked before the platform is asked.
THEOREM GrantsBounded == Spec => []GrantsAreBounded
<1>1. Init => GrantsAreBounded
  <2>1. Len(<<>>) = 0 /\ 0 <= GrantLimit
    BY LimitAssumption
  <2> QED
    BY <2>1 DEF Init, GrantsAreBounded
<1>2. TypeOK /\ GrantsAreBounded /\ [Next]_vars => GrantsAreBounded'
  BY GrantsNext
<1>3. TypeOK /\ History => TypeOK
  OBVIOUS
<1> QED
  BY <1>1, <1>2, <1>3, HistoryHolds, PTL DEF Spec

\* PublicCDKPreview and bindCDKRedemptionTokenCAS: while the query windows last
\* a code has one live order, unless the platform gave a live attempt's token to
\* another attempt whose order was declined.
THEOREM OneOpen == Spec => []OneOpenOrder
<1>1. IInv => OneOpenOrder
  BY DEF IInv, LiveIsOpen, OneOpenOrder
<1> QED
  BY <1>1, IInvHolds, PTL

\* BindCDKAccountEmailForAttempt: the e-mail in the row goes with a submission,
\* and is that of an order placed with the submission's token.
THEOREM EmailTrue == Spec => []EmailIsOfTheOrder
<1>1. IInv => EmailIsOfTheOrder
  BY DEF IInv
<1> QED
  BY <1>1, IInvHolds, PTL

\* An attempt in its window is neither replaced nor erased before an order that
\* was placed with its token is declined.
THEOREM OpenStands == Spec => OpenAttemptStands
<1>1. IInv /\ [Next]_vars
        => [\A a \in Attempts : Open(a) => \/ row'.attempt = a /\ row'.submitted /\ ~row'.scrubbed
                                           \/ order[a].state = "declined" \/ SharesAFailure(a)]_vars
  BY OpenStays DEF IInv, Failed
<1> QED
  BY <1>1, IInvHolds, PTL DEF Spec, OpenAttemptStands
=============================================================================
