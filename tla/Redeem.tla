------------------------------- MODULE Redeem --------------------------------
(***************************************************************************)
(* The public redemption flow (handler/local_cdk.go): Preview issues a     *)
(* token, Preflight binds an account and the settings it was quoted        *)
(* under, Redeem reserves a card and only then calls the payment           *)
(* platform.  Every handler reads the database, talks to the platform and  *)
(* writes later, so each is a sequence of steps with anything in between.  *)
(* Also here: the administrator's operations on codes and configuration.   *)
(***************************************************************************)
EXTENDS ShopState

Idle(h) == handler[h].pc = "idle"
At(h, pc) == handler[h].pc = pc
Goto(h, state) == handler' = [handler EXCEPT ![h] = state]
Return(h) == Goto(h, IdleHandler)

\* Any early return before a reservation: a failed check, an upstream error.
Refuse(h) == /\ handler[h].pc \in {"preview", "preflight", "checked", "listed"}
             /\ Return(h)
             /\ UNCHANGED <<codeVars, configVars, cardVars, upVars, poller, keeper, restarts>>

------------------------------------------------------------------------------
\* LocalCDKPreview: the checks, then a store that has no condition on status.

PreviewLoad(h, c) ==
  /\ Idle(h)
  /\ row[c].status # "disabled"
  /\ row[c].status = "unused" => c \notin expired /\ OnSale(c)
  /\ Goto(h, [IdleHandler EXCEPT !.pc = "preview", !.code = c])
  /\ UNCHANGED <<codeVars, configVars, cardVars, upVars, poller, keeper, restarts>>

PreviewStore(h) ==
  LET c == handler[h].code
      fresh == issued[c] + 1
  IN /\ At(h, "preview")
     /\ fresh <= MaxIssued
     /\ issued' = [issued EXCEPT ![c] = fresh]
     /\ row' = [row EXCEPT ![c] = [@ EXCEPT !.token = fresh, !.pf = 0, !.cred = NoSettings]]
     /\ Return(h)
     /\ UNCHANGED <<expired, configVars, cardVars, upVars, poller, keeper, restarts>>

------------------------------------------------------------------------------
\* LocalCDKPreflight: the quote is asked under the settings read first; the
\* store is conditional on the status and the token.  cards[0] is only a hint.

PreflightCheck(h, c) ==
  /\ Idle(h)
  /\ row[c].token # 0
  /\ Redeemable(c)
  /\ settings.enabled /\ settings.pool # {}
  /\ Goto(h, [IdleHandler EXCEPT !.pc = "preflight", !.code = c,
                                 !.token = row[c].token, !.cred = settings])
  /\ UNCHANGED <<codeVars, configVars, cardVars, upVars, poller, keeper, restarts>>

PreflightStore(h) ==
  LET c == handler[h].code
      fresh == issued[c] + 1
  IN /\ At(h, "preflight")
     /\ fresh <= MaxIssued
     /\ row[c].status = "unused" /\ row[c].token = handler[h].token
     /\ \E k \in Available(handler[h].cred) :
          row' = [row EXCEPT ![c] = [@ EXCEPT !.pf = fresh, !.cred = handler[h].cred, !.card = k]]
     /\ issued' = [issued EXCEPT ![c] = fresh]
     /\ Return(h)
     /\ UNCHANGED <<expired, configVars, cardVars, upVars, poller, keeper, restarts>>

\* preflight_expires passes: no later check of this preflight can succeed.
PreflightExpires(c) ==
  /\ row[c].pf # 0
  /\ row[c].status = "unused"
  /\ row' = [row EXCEPT ![c].pf = 0]
  /\ UNCHANGED <<issued, expired, configVars, cardVars, upVars, procVars>>

\* expires_at passes; only an unused code looks at it.
CodeExpires(c) ==
  /\ c \in Perishable \ expired
  /\ row[c].status = "unused"
  /\ expired' = expired \cup {c}
  /\ UNCHANGED <<row, issued, configVars, cardVars, upVars, procVars>>

------------------------------------------------------------------------------
\* LocalCDKRedeem.

\* The early checks, and the values they leave in local variables.
RedeemCheck(h, c) ==
  /\ Idle(h)
  /\ row[c].token # 0
  /\ Redeemable(c)
  /\ settings.enabled
  /\ ~ policy.paused
  /\ row[c].pf # 0
  /\ row[c].cred = settings
  /\ Goto(h, [IdleHandler EXCEPT !.pc = "checked", !.code = c, !.token = row[c].token,
                                 !.pf = row[c].pf, !.cred = row[c].cred,
                                 !.version = policy.version])
  /\ UNCHANGED <<codeVars, configVars, cardVars, upVars, poller, keeper, restarts>>

\* localAvailableCards, and the second look at the settings.
RedeemList(h) ==
  /\ At(h, "checked")
  /\ handler[h].cred = settings
  /\ Available(settings) # {}
  /\ Goto(h, [handler[h] EXCEPT !.pc = "listed", !.offer = Available(settings)])
  /\ UNCHANGED <<codeVars, configVars, cardVars, upVars, poller, keeper, restarts>>

\* Mutant: the cards on offer are trusted to be still free.
MayReserveOffered(h, c, k) ==
  /\ row[c].status = "unused" /\ c \notin expired /\ OnSale(c)
  /\ row[c].token = handler[h].token /\ row[c].pf = handler[h].pf
  /\ row[c].cred = handler[h].cred
  /\ lifecycle[k] = "active" /\ k \notin held
  /\ policy.version = handler[h].version /\ ~policy.paused
\* Mutant: the switches are read by the early checks only.
MayReserveUnswitched(h, c, k) ==
  /\ row[c].status = "unused" /\ c \notin expired
  /\ row[c].token = handler[h].token /\ row[c].pf = handler[h].pf
  /\ row[c].cred = handler[h].cred
  /\ ~CardBusy(k) /\ lifecycle[k] = "active" /\ k \notin held

\* The conditions of the compare-and-swap that reserves code c and card k.
MayReserve(h, c, k) ==
  /\ row[c].status = "unused"
  /\ row[c].token = handler[h].token
  /\ row[c].pf = handler[h].pf
  /\ row[c].cred = handler[h].cred
  /\ c \notin expired
  /\ ~CardBusy(k)
  /\ lifecycle[k] = "active"
  /\ policy.version = handler[h].version /\ ~policy.paused
  /\ OnSale(c)
  /\ k \notin held

\* One transaction, before any payment call.
RedeemReserve(h) ==
  LET c == handler[h].code
  IN /\ At(h, "listed")
     /\ \E k \in handler[h].offer :
          /\ MayReserve(h, c, k)
          /\ row' = [row EXCEPT ![c] = [@ EXCEPT !.status = "reserved", !.card = k, !.request = h]]
     /\ Goto(h, [IdleHandler EXCEPT !.pc = "reserved", !.code = c])
     /\ UNCHANGED <<issued, expired, configVars, cardVars, upVars, poller, keeper, restarts>>

\* cli.DirectOrder leaves the process.
RedeemCall(h) ==
  LET c == handler[h].code
  IN /\ At(h, "reserved")
     /\ order' = [order EXCEPT ![c] = IF @ = "none" THEN "sent" ELSE @]
     /\ calls' = [calls EXCEPT ![c] = @ + 1]
     /\ Goto(h, [handler[h] EXCEPT !.pc = "calling"])
     /\ UNCHANGED <<deleted, codeVars, configVars, cardVars, poller, keeper, restarts>>

\* The platform answered with the order's number.
RedeemBound(h) ==
  LET c == handler[h].code
  IN /\ At(h, "calling")
     /\ order[c] \in Accepted
     /\ row' = IF row[c].request = h THEN [row EXCEPT ![c].upstream = TRUE] ELSE row
     /\ Return(h)
     /\ UNCHANGED <<issued, expired, configVars, cardVars, upVars, poller, keeper, restarts>>

\* Mutant: an error sends the order again.
RedeemRetries(h) ==
  /\ At(h, "calling")
  /\ Goto(h, [handler[h] EXCEPT !.pc = "reserved"])
  /\ UNCHANGED <<codeVars, configVars, cardVars, upVars, poller, keeper, restarts>>
\* Mutant: an error makes the code redeemable again.
RedeemUnlocks(h) ==
  /\ At(h, "calling")
  /\ row' = [row EXCEPT ![handler[h].code].status = "unused"]
  /\ Return(h)
  /\ UNCHANGED <<issued, expired, configVars, cardVars, upVars, poller, keeper, restarts>>
\* Mutant: an error is taken for a failed order.
RedeemFails(h) ==
  /\ At(h, "calling")
  /\ row' = [row EXCEPT ![handler[h].code].status = "failed"]
  /\ Return(h)
  /\ UNCHANGED <<issued, expired, configVars, cardVars, upVars, poller, keeper, restarts>>

\* An error or a timeout says nothing about the order: it may exist, or still be
\* on the wire.
RedeemUnclear(h) ==
  LET c == handler[h].code
  IN /\ At(h, "calling")
     /\ row' = IF row[c].status = "reserved"
                 THEN [row EXCEPT ![c].status = "review"] ELSE row
     /\ Return(h)
     /\ UNCHANGED <<issued, expired, configVars, cardVars, upVars, poller, keeper, restarts>>

------------------------------------------------------------------------------
\* The administrator.

\* Mutant: a code in use is disabled as well.
LocalCDKDisableAny(c) ==
  /\ row[c].status # "disabled"
  /\ row' = [row EXCEPT ![c] = [@ EXCEPT !.status = "disabled", !.token = 0, !.pf = 0]]
  /\ UNCHANGED <<issued, expired, configVars, cardVars, upVars, procVars>>

LocalCDKDisable(c) ==
  /\ row[c].status = "unused" /\ row[c].request = NoHandler /\ ~row[c].upstream
  /\ row' = [row EXCEPT ![c] = [@ EXCEPT !.status = "disabled", !.token = 0, !.pf = 0]]
  /\ UNCHANGED <<issued, expired, configVars, cardVars, upVars, procVars>>

AdminMove == admin < MaxAdmin /\ admin' = admin + 1

\* LocalCDKPutSettings: compare-and-swap on the revision in one transaction.
LocalCDKPutSettings(s) ==
  /\ AdminMove
  /\ s # settings
  /\ settings' = s
  /\ UNCHANGED <<policy, onSale, codeVars, cardVars, upVars, procVars>>

\* AdminAutomationSave: any policy, at the version the form was loaded with.
AdminAutomationSave(paused) ==
  /\ AdminMove
  /\ policy' = [version |-> policy.version + 1, paused |-> paused]
  /\ UNCHANGED <<settings, onSale, codeVars, cardVars, upVars, procVars>>

\* AdminAutomationPause: the emergency stop.
AdminAutomationPause ==
  /\ AdminMove
  /\ policy' = [policy EXCEPT !.version = @ + 1, !.paused = TRUE]
  /\ UNCHANGED <<settings, onSale, codeVars, cardVars, upVars, procVars>>

\* A product is taken off sale, or put back.
AdminProduct(plan) ==
  /\ AdminMove
  /\ onSale' = IF plan \in onSale THEN onSale \ {plan} ELSE onSale \cup {plan}
  /\ UNCHANGED <<settings, policy, codeVars, cardVars, upVars, procVars>>

RedeemNext ==
  \/ \E h \in Handlers : \/ \E c \in Codes : \/ PreviewLoad(h, c)
                                             \/ PreflightCheck(h, c)
                                             \/ RedeemCheck(h, c)
                         \/ PreviewStore(h) \/ PreflightStore(h)
                         \/ RedeemList(h) \/ RedeemReserve(h) \/ RedeemCall(h)
                         \/ RedeemBound(h) \/ RedeemUnclear(h)
                         \/ Refuse(h)
  \/ \E c \in Codes : \/ PreflightExpires(c) \/ CodeExpires(c)
                      \/ LocalCDKDisable(c)
  \/ \E s \in SettingsChoices : LocalCDKPutSettings(s)
  \/ \E paused \in BOOLEAN : AdminAutomationSave(paused)
  \/ AdminAutomationPause
  \/ \E plan \in Plans : AdminProduct(plan)
=============================================================================
