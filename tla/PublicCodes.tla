----------------------------- MODULE PublicCodes -----------------------------
(***************************************************************************)
(* A code that the payment platform owns, redeemed through this site:      *)
(* PublicCDKPreview, Preflight, Redeem and Result, the one row that        *)
(* cdk_session_bindings keeps for the code, and its cdk_preflight_grants.  *)
(* Codes share nothing, so one code is modelled, with all its visitors.    *)
(*                                                                         *)
(* Every handler talks to the platform between reading the row and writing *)
(* it, so each is a sequence of steps.  A handler that the server's stop   *)
(* cuts short simply takes no further step.  The platform is external: it  *)
(* may hand out one redemption token to several attempts, and its answer   *)
(* about a token is about the last order that was placed with it.          *)
(***************************************************************************)
EXTENDS Naturals, Sequences

CONSTANTS Attempts,      \* the attempt nonces that previews hand out
          Tokens,        \* the platform's redemption tokens
          TokenOf,       \* [Attempts -> Tokens]: what the preview was answered
          Checks,        \* the calls of PublicCDKPreflight, each with its token
          Accounts,
          AccountOf,     \* [Checks -> Accounts]: the account it asks about
          Requests,      \* the calls of PublicCDKRedeem
          Lookups,       \* concurrent result queries
          GrantLimit     \* cdkPreflightGrantLimit

NoAttempt == "no_attempt"
NoEmail == "no_email"

ASSUME NamesAssumption == NoAttempt \notin Attempts /\ NoEmail \notin Accounts
ASSUME FunctionsAssumption ==
  TokenOf \in [Attempts -> Tokens] /\ AccountOf \in [Checks -> Accounts]
ASSUME LimitAssumption == GrantLimit \in Nat \ {0}

VARIABLES row,       \* the row of cdk_session_bindings
          elapsed,   \* its deadline has passed: 24 hours as a preview, 7 days as a submission
          grants,    \* [Attempts -> the attempt's preflight grants, oldest first]
          visit,     \* [Attempts -> the preview that creates this attempt]
          check,     \* [Checks -> the state of this preflight]
          redeem,    \* [Requests -> the state of this submission]
          query,     \* [Lookups -> what this query has read]
          order,     \* [Attempts -> the platform's order of this attempt]
          latest,    \* [Tokens -> the attempt that placed the token's last order]
          lapsed     \* history: submissions whose query window has ended

local == <<row, elapsed, grants>>
platform == <<order, latest>>
vars == <<row, elapsed, grants, visit, check, redeem, query, order, latest, lapsed>>

\* updated_at is new at every bind, as the nonce is: the nonce stands for both.
\* A scrubbed row keeps its times and has lost its token, nonce and e-mail.
Rows == [attempt : Attempts \cup {NoAttempt},  submitted : BOOLEAN,
         scrubbed : BOOLEAN,  email : Accounts \cup {NoEmail}]
NoRow == [attempt |-> NoAttempt, submitted |-> FALSE, scrubbed |-> FALSE, email |-> NoEmail]

NewVisit == [pc |-> "new"]
Visits == [pc : {"new", "bound", "refused"}] \cup
          [pc : {"read"}, snapshot : Rows, open : BOOLEAN] \cup
          [pc : {"proved"}, snapshot : Rows]

NewCheck == [pc |-> "new"]
CheckStates == [pc : {"new", "refused"}] \cup [pc : {"asking", "granted"}, attempt : Attempts]

NewRequest == [pc |-> "new"]
Submissions == {NewRequest} \cup
               [pc : {"calling", "answered", "done"}, attempt : Attempts, account : Accounts]

NoQuery == [pc |-> "idle"]
Queries == {NoQuery} \cup
           [pc : {"asking"}, attempt : Attempts] \cup
           [pc : {"answered", "binding"}, attempt : Attempts, account : Accounts] \cup
           [pc : {"expired"}, snapshot : Rows]

NoOrder == [state |-> "none"]
Orders == {NoOrder} \cup
          [state : {"processing", "completed", "declined", "failed"}, account : Accounts]

TypeOK ==
  /\ row \in Rows
  /\ elapsed \in BOOLEAN
  /\ grants \in [Attempts -> Seq(Checks)]
  /\ visit \in [Attempts -> Visits]
  /\ check \in [Checks -> CheckStates]
  /\ redeem \in [Requests -> Submissions]
  /\ query \in [Lookups -> Queries]
  /\ order \in [Attempts -> Orders]
  /\ latest \in [Tokens -> Attempts \cup {NoAttempt}]
  /\ lapsed \subseteq Attempts

Init ==
  /\ row = NoRow
  /\ elapsed = FALSE
  /\ grants = [a \in Attempts |-> <<>>]
  /\ visit = [a \in Attempts |-> NewVisit]
  /\ check = [f \in Checks |-> NewCheck]
  /\ redeem = [r \in Requests |-> NewRequest]
  /\ query = [l \in Lookups |-> NoQuery]
  /\ order = [a \in Attempts |-> NoOrder]
  /\ latest = [t \in Tokens |-> NoAttempt]
  /\ lapsed = {}

\* What the conditions on a binding come down to.
Current(a) == row.attempt = a /\ ~row.scrubbed /\ ~elapsed
Pending(a) == Current(a) /\ ~row.submitted
Open(a) == Current(a) /\ row.submitted

------------------------------------------------------------------------------
\* The platform, and the passing of time.

\* "declined" stands for a failure with can_resubmit, "failed" for one without.
PlatformSettles ==
  /\ \E a \in Attempts, s \in {"completed", "declined", "failed"} :
       /\ order[a].state = "processing"
       /\ order' = [order EXCEPT ![a].state = s]
  /\ UNCHANGED <<local, visit, check, redeem, query, latest, lapsed>>

\* publicResultAllowsRetry of the answer to Result(token).
AllowsRetry(t) == latest[t] # NoAttempt /\ order[latest[t]].state = "declined"

\* No call to the platform outlasts its window: the client gives up long before.
DeadlinePasses ==
  /\ row.attempt # NoAttempt /\ ~elapsed
  /\ \A r \in Requests : redeem[r].pc # "calling"
  /\ elapsed' = TRUE
  /\ lapsed' = IF row.submitted THEN lapsed \cup {row.attempt} ELSE lapsed
  /\ UNCHANGED <<row, grants, visit, check, redeem, query, platform>>

\* The purges erase what identifies the customer, and the grants with it.
Scrub == /\ row' = [row EXCEPT !.scrubbed = TRUE, !.email = NoEmail]
         /\ grants' = [grants EXCEPT ![row.attempt] = <<>>]

\* The purge by code with which the other handlers answer a binding past its
\* deadline.
Purge ==
  /\ row.attempt # NoAttempt /\ elapsed /\ ~row.scrubbed
  /\ Scrub
  /\ UNCHANGED <<elapsed, visit, check, redeem, query, platform, lapsed>>

\* The sweep at the start and every 15 minutes: it also deletes the grants that
\* can no longer be used.
Sweep ==
  /\ row' = IF elapsed THEN [row EXCEPT !.scrubbed = TRUE, !.email = NoEmail] ELSE row
  /\ grants' = [a \in Attempts |-> IF Pending(a) THEN grants[a] ELSE <<>>]
  /\ UNCHANGED <<elapsed, visit, check, redeem, query, platform, lapsed>>

\* purgeExpiredCDKBindingSnapshot: erases only the row that was found expired.
\* Mutant: erases whatever row the code has.
StillSnapshotAny(snapshot) == row.attempt # NoAttempt
StillSnapshot(snapshot) == row = snapshot
PurgeSnapshot(snapshot) == IF StillSnapshot(snapshot) /\ ~row.scrubbed THEN Scrub
                           ELSE UNCHANGED <<row, grants>>

------------------------------------------------------------------------------
\* PublicCDKPreview.

PreviewRead(a) ==
  /\ visit[a] = NewVisit
  /\ visit' = [visit EXCEPT ![a] = [pc |-> "read", snapshot |-> row,
                                    open |-> row.submitted /\ ~elapsed]]
  /\ UNCHANGED <<local, check, redeem, query, platform, lapsed>>

PreviewRefused(a) ==
  /\ visit[a].pc \in {"read", "proved"}
  /\ visit' = [visit EXCEPT ![a] = [pc |-> "refused"]]
  /\ UNCHANGED <<local, check, redeem, query, platform, lapsed>>

\* A submission in its window gives way only once Result says that it failed.
PreviewProve(a) ==
  /\ visit[a].pc = "read" /\ visit[a].open
  /\ AllowsRetry(TokenOf[visit[a].snapshot.attempt])
  /\ visit' = [visit EXCEPT ![a] = [pc |-> "proved", snapshot |-> visit[a].snapshot]]
  /\ UNCHANGED <<local, check, redeem, query, platform, lapsed>>

MayReplace(a) == visit[a].pc = "proved" \/ (visit[a].pc = "read" /\ ~visit[a].open)

\* Mutant: the row is not compared with the snapshot.
UnchangedSinceAny(snapshot) == snapshot = snapshot
UnchangedSince(snapshot) == row = snapshot

\* bindCDKRedemptionTokenCAS, after a preview the platform answered with 2xx.
PreviewBind(a) ==
  /\ MayReplace(a)
  /\ IF UnchangedSince(visit[a].snapshot)
       THEN /\ row' = [NoRow EXCEPT !.attempt = a]
            /\ elapsed' = FALSE
            /\ grants' = [b \in Attempts |-> IF b = row.attempt THEN <<>> ELSE grants[b]]
            /\ visit' = [visit EXCEPT ![a] = [pc |-> "bound"]]
       ELSE /\ visit' = [visit EXCEPT ![a] = [pc |-> "refused"]]
            /\ UNCHANGED local
  /\ UNCHANGED <<check, redeem, query, platform, lapsed>>

------------------------------------------------------------------------------
\* PublicCDKPreflight.

\* GetCDKPreflightBindingByToken and CheckCDKPreflightGrantCapacity.
PreflightCheck(f, a) ==
  /\ check[f] = NewCheck /\ visit[a].pc = "bound"
  /\ Pending(a) /\ Len(grants[a]) < GrantLimit
  /\ check' = [check EXCEPT ![f] = [pc |-> "asking", attempt |-> a]]
  /\ UNCHANGED <<local, visit, redeem, query, platform, lapsed>>

PreflightRefused(f) ==
  /\ check[f].pc = "asking"
  /\ check' = [check EXCEPT ![f] = [pc |-> "refused"]]
  /\ UNCHANGED <<local, visit, redeem, query, platform, lapsed>>

\* Mutant: the oldest grants are not pruned.
NewestAll(s) == s
Newest(s) == IF Len(s) > GrantLimit THEN SubSeq(s, Len(s) - GrantLimit + 1, Len(s)) ELSE s

\* RegisterCDKPreflightGrant, one transaction after the platform's answer.
PreflightRegister(f) ==
  LET a == check[f].attempt IN
  /\ check[f].pc = "asking"
  /\ Pending(a)
  /\ grants' = [grants EXCEPT ![a] = Newest(Append(grants[a], f))]
  /\ check' = [check EXCEPT ![f].pc = "granted"]
  /\ UNCHANGED <<row, elapsed, visit, redeem, query, platform, lapsed>>

------------------------------------------------------------------------------
\* PublicCDKRedeem.

Granted(a) == {grants[a][i] : i \in 1..Len(grants[a])}

\* Mutant: the claim is not a latch.
MayClaimAgain(a) == Current(a)
MayClaim(a) == Pending(a)

\* ClaimCDKRedemptionAttempt; the grants are deleted by a statement of its own
\* that may fail.
RedeemClaim(r, a, f) ==
  /\ redeem[r] = NewRequest
  /\ check[f].pc = "granted" /\ check[f].attempt = a
  /\ MayClaim(a) /\ f \in Granted(a)
  /\ row' = [row EXCEPT !.submitted = TRUE]
  /\ elapsed' = FALSE
  /\ grants' \in {grants, [grants EXCEPT ![a] = <<>>]}
  /\ redeem' = [redeem EXCEPT ![r] = [pc |-> "calling", attempt |-> a,
                                      account |-> AccountOf[f]]]
  /\ UNCHANGED <<visit, check, query, platform, lapsed>>

PlaceOrder(a, account) ==
  /\ order' = [order EXCEPT ![a] = [state |-> "processing", account |-> account]]
  /\ latest' = [latest EXCEPT ![TokenOf[a]] = a]

\* The call reaches the platform or not, and its answer this site or not.
RedeemCall(r) ==
  LET s == redeem[r] IN
  /\ s.pc = "calling"
  /\ \/ PlaceOrder(s.attempt, s.account) /\ redeem' = [redeem EXCEPT ![r].pc = "answered"]
     \/ PlaceOrder(s.attempt, s.account) /\ redeem' = [redeem EXCEPT ![r].pc = "done"]
     \/ UNCHANGED platform /\ redeem' = [redeem EXCEPT ![r].pc = "done"]
  /\ UNCHANGED <<local, visit, check, query, lapsed>>

\* BindCDKAccountEmailForAttempt: one UPDATE that repeats the attempt.
\* Mutant: only the token is compared, not the attempt's nonce.
OfTokenOnly(a) == /\ row.attempt # NoAttempt /\ TokenOf[row.attempt] = TokenOf[a]
                  /\ ~row.scrubbed /\ ~elapsed
OfAttempt(a) == Current(a)
BindEmail(a, account) ==
  row' = IF OfAttempt(a) /\ row.email \in {NoEmail, account}
           THEN [row EXCEPT !.email = account] ELSE row

RedeemBind(r) ==
  /\ redeem[r].pc = "answered"
  /\ BindEmail(redeem[r].attempt, redeem[r].account)
  /\ redeem' = [redeem EXCEPT ![r].pc = "done"]
  /\ UNCHANGED <<elapsed, grants, visit, check, query, platform, lapsed>>

------------------------------------------------------------------------------
\* PublicCDKResult and PublicCDKResultByCode.

LookupRead(l) ==
  /\ query[l] = NoQuery
  /\ row.attempt # NoAttempt /\ ~row.scrubbed /\ row.submitted
  /\ query' = [query EXCEPT ![l] = IF elapsed THEN [pc |-> "expired", snapshot |-> row]
                                              ELSE [pc |-> "asking", attempt |-> row.attempt]]
  /\ UNCHANGED <<local, visit, check, redeem, platform, lapsed>>

LookupPurge(l) ==
  /\ query[l].pc = "expired"
  /\ PurgeSnapshot(query[l].snapshot)
  /\ query' = [query EXCEPT ![l] = NoQuery]
  /\ UNCHANGED <<elapsed, visit, check, redeem, platform, lapsed>>

LookupAnswered(l) ==
  LET a == query[l].attempt
      placed == latest[TokenOf[a]]
  IN /\ query[l].pc = "asking"
     /\ query' = [query EXCEPT ![l] = IF placed = NoAttempt THEN NoQuery ELSE
                    [pc |-> "answered", attempt |-> a, account |-> order[placed].account]]
     /\ UNCHANGED <<local, visit, check, redeem, platform, lapsed>>

\* servePublicCDKResult looks at the binding again before it shows anything.
LookupServe(l) ==
  /\ query[l].pc = "answered"
  /\ query' = [query EXCEPT ![l] = IF Open(query[l].attempt) THEN [@ EXCEPT !.pc = "binding"]
                                                              ELSE NoQuery]
  /\ UNCHANGED <<local, visit, check, redeem, platform, lapsed>>

LookupBind(l) ==
  /\ query[l].pc = "binding"
  /\ BindEmail(query[l].attempt, query[l].account)
  /\ query' = [query EXCEPT ![l] = NoQuery]
  /\ UNCHANGED <<elapsed, grants, visit, check, redeem, platform, lapsed>>

------------------------------------------------------------------------------
PreviewStep(a) == PreviewRead(a) \/ PreviewRefused(a) \/ PreviewProve(a) \/ PreviewBind(a)
PreflightStep(f) == \/ \E a \in Attempts : PreflightCheck(f, a)
                    \/ PreflightRefused(f)
                    \/ PreflightRegister(f)
RedeemStep(r) == \/ \E a \in Attempts, f \in Checks : RedeemClaim(r, a, f)
                 \/ RedeemCall(r)
                 \/ RedeemBind(r)
LookupStep(l) == \/ LookupRead(l) \/ LookupPurge(l) \/ LookupAnswered(l)
                 \/ LookupServe(l) \/ LookupBind(l)

Next ==
  \/ PlatformSettles \/ DeadlinePasses \/ Purge \/ Sweep
  \/ \E a \in Attempts : PreviewStep(a)
  \/ \E f \in Checks : PreflightStep(f)
  \/ \E r \in Requests : RedeemStep(r)
  \/ \E l \in Lookups : LookupStep(l)

Spec == Init /\ [][Next]_vars

------------------------------------------------------------------------------
\* An attempt that has asked the platform for an order, or holds one that has
\* not failed in a way that may be repeated.
Live(a) == \/ \E r \in Requests : redeem[r].pc = "calling" /\ redeem[r].attempt = a
           \/ order[a].state \in {"processing", "completed", "failed"}

\* However many tabs and clicks, one attempt is submitted to the platform once:
\* the submit latch of ClaimCDKRedemptionAttempt.
OneCallPerAttempt ==
  \A r, s \in Requests :
    redeem[r] # NewRequest /\ redeem[s] # NewRequest /\ r # s
      => redeem[r].attempt # redeem[s].attempt

\* The platform gave the attempt's token to another attempt too, and the other's
\* order was declined: an answer about the token may be about that order.
SharesAFailure(a) ==
  \E b \in Attempts \ {a} : TokenOf[b] = TokenOf[a] /\ order[b].state = "declined"

\* While the query windows last, the code has one live order: previews, claims
\* and late answers of several visitors never open a second one.  The one way
\* to it is a token that the platform hands out again: an attempt that shares a
\* failure may be taken for failed while it is live.
OneOpenOrder ==
  \A a, b \in Attempts \ lapsed :
    Live(a) /\ Live(b) /\ a # b => SharesAFailure(a) \/ SharesAFailure(b)

\* An e-mail is shown with a submission only, never with the preview that
\* replaced it, and it is that of an order placed with the token of the
\* submission: its own, or one of another attempt that was given the token.
EmailIsOfTheOrder ==
  row.email # NoEmail =>
    /\ row.submitted
    /\ \E a \in Attempts : /\ TokenOf[a] = TokenOf[row.attempt]
                          /\ order[a] # NoOrder /\ order[a].account = row.email

\* Preflights that pass the advisory capacity check together still leave no
\* more grants than the limit.
GrantsAreBounded == \A a \in Attempts : Len(grants[a]) <= GrantLimit

\* PublicCDKPreview: "an active attempt may be replaced only after the current
\* token proves that its upstream order is terminally failed", and no purge
\* erases it before its window ends.  What a token proves is the failure of an
\* order that was placed with it.
OpenAttemptStands ==
  [][\A a \in Attempts : Open(a) => \/ row'.attempt = a /\ row'.submitted /\ ~row'.scrubbed
                                    \/ order[a].state = "declined" \/ SharesAFailure(a)]_vars
=============================================================================
