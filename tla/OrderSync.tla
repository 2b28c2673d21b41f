------------------------------ MODULE OrderSync ------------------------------
(***************************************************************************)
(* How the outcome of an upstream order reaches its code.  The background  *)
(* watcher (watchOrder), a customer asking for the result                  *)
(* (LocalCDKResult) and the administrator's reconciliation                 *)
(* (LocalCDKReconcile) each load the row, ask the platform and write what  *)
(* it said then: the first and last step of two of them may interleave,    *)
(* and either may be overtaken by the order itself.                        *)
(* The platform is external: it accepts or loses the request, and moves an *)
(* unsettled order as it likes.                                            *)
(***************************************************************************)
EXTENDS ShopState

PollAt(p, pc) == poller[p].pc = pc
PollGoto(p, state) == poller' = [poller EXCEPT ![p] = state]
PollReturn(p) == PollGoto(p, IdlePoller)
othersSame == <<issued, expired, configVars, upVars, handler, keeper, restarts>>

------------------------------------------------------------------------------
\* The platform.

PlatformAccepts(c) == /\ order[c] = "sent"
                      /\ order' = [order EXCEPT ![c] = "processing"]
                      /\ UNCHANGED <<calls, deleted, codeVars, configVars, cardVars, procVars>>

RequestLost(c) == /\ order[c] = "sent"
                  /\ order' = [order EXCEPT ![c] = "lost"]
                  /\ UNCHANGED <<calls, deleted, codeVars, configVars, cardVars, procVars>>

OrderMoves(c) == /\ order[c] \in Unsettled
                 /\ \E o \in Accepted \ {order[c]} : order' = [order EXCEPT ![c] = o]
                 /\ UNCHANGED <<calls, deleted, codeVars, configVars, cardVars, procVars>>

------------------------------------------------------------------------------
\* Loading the row.

Load(p, c, status, pc) ==
  /\ PollAt(p, "idle")
  /\ PollGoto(p, [IdlePoller EXCEPT !.pc = pc, !.code = c, !.status = status])
  /\ UNCHANGED <<othersSame, row, cardVars>>

\* Mutant: only codes with a known order are watched.
WatchLoadBound(p, c) ==
  /\ row[c].request # NoHandler /\ row[c].upstream
  /\ Load(p, c, row[c].status, "read")
\* Mutant: only open codes are watched.
WatchLoadBusy(p, c) ==
  /\ row[c].request # NoHandler /\ Busy(c)
  /\ Load(p, c, row[c].status, IF row[c].upstream THEN "read" ELSE "find")

\* A watch row exists for every code with a request id, whatever its status; the
\* watcher writes back the status it loaded when the order is in progress.
WatchLoad(p, c) ==
  /\ row[c].request # NoHandler
  /\ Load(p, c, row[c].status, IF row[c].upstream THEN "read" ELSE "find")

\* refreshLocalOrder, for the holder of the current token; an order in progress
\* makes the code "reserved".
ResultLoad(p, c) ==
  /\ row[c].token # 0 /\ row[c].upstream /\ Busy(c)
  /\ Load(p, c, "reserved", "read")

\* The administrator names an order that carries this code's request id.
ReconcileLoad(p, c) ==
  /\ row[c].request # NoHandler /\ Busy(c) /\ order[c] \in Accepted
  /\ Load(p, c, "reserved", "bind")

\* Bound whatever has become of the code; the refresh that follows uses the row
\* loaded before.
ReconcileBind(p) ==
  LET c == poller[p].code
  IN /\ PollAt(p, "bind")
     /\ row' = [row EXCEPT ![c].upstream = TRUE]
     /\ PollGoto(p, [poller[p] EXCEPT !.pc = "read"])
     /\ UNCHANGED <<othersSame, cardVars>>

\* FindDirectOrder looks for the original request id in the platform's pages;
\* the next page is for the next poll, so an existing order may be missed.
WatchFind(p) ==
  LET c == poller[p].code
  IN /\ PollAt(p, "find")
     /\ order[c] \in Accepted
     /\ row' = [row EXCEPT ![c].upstream = TRUE]
     /\ PollGoto(p, [poller[p] EXCEPT !.pc = "read"])
     /\ UNCHANGED <<othersSame, cardVars>>

\* Not found, a failed query, an overdue throttle: nothing is written.
PollGivesUp(p) ==
  /\ poller[p].pc \in {"bind", "find", "read"}
  /\ PollReturn(p)
  /\ UNCHANGED <<othersSame, row, cardVars>>

------------------------------------------------------------------------------
\* Reading the order, then writing what it said.

\* Mutant: a declined order is taken for a settled one.
VerdictDeclineFinal(state, loaded) ==
  CASE state = "completed"         -> "consumed"
    [] state \in {"failed_precharge", "cancelled", "declined"} -> "failed"
    [] state = "requires_action"   -> "review"
    [] OTHER                       -> loaded
\* Mutant: a cancelled order is left for review.
VerdictCancelledOpen(state, loaded) ==
  CASE state = "completed"         -> "consumed"
    [] state = "failed_precharge"  -> "failed"
    [] state \in {"cancelled", "declined", "requires_action"} -> "review"
    [] OTHER                       -> loaded

\* The status an order state calls for.
Verdict(state, loaded) ==
  CASE state = "completed"                         -> "consumed"
    [] state \in {"failed_precharge", "cancelled"} -> "failed"
    [] state \in {"declined", "requires_action"}   -> "review"
    [] OTHER                                       -> loaded

\* The watcher keeps a consumed code consumed when the platform contradicts it.
PollRead(p) ==
  LET loaded == poller[p].status
      state == order[poller[p].code]
      contradicted == loaded = "consumed" /\ state # "completed"
  IN /\ PollAt(p, "read")
     /\ PollGoto(p, IF contradicted THEN IdlePoller
                    ELSE [poller[p] EXCEPT
                            !.pc = "write", !.status = Verdict(state, loaded),
                            !.decline = state \in {"declined", "failed_precharge"}])
     /\ UNCHANGED <<othersSame, row, cardVars>>

\* A completion counts as a use of the card for plus codes only.
Counts(c, verdict) == Busy(c) /\ verdict = "consumed" /\ PlanOf[c] = "plus"

\* Mutant: the status is written whatever it is now.
PollWriteAnyway(p) ==
  LET c == poller[p].code
      status == poller[p].status
  IN /\ PollAt(p, "write")
     /\ Counts(c, status) => lifecycle[row[c].card] = "active"
     /\ row' = [row EXCEPT ![c].status = status]
     /\ wins' = IF Counts(c, status) THEN [wins EXCEPT ![row[c].card] = @ + 1] ELSE wins
     /\ PollReturn(p)
     /\ UNCHANGED <<othersSame, lifecycle, declined, held>>
\* Mutant: a completion is counted by every poller that reads it.
PollWriteCountsAgain(p) ==
  LET c == poller[p].code
      counted == poller[p].status = "consumed" /\ PlanOf[c] = "plus"
  IN /\ PollAt(p, "write")
     /\ counted => lifecycle[row[c].card] = "active"
     /\ row' = IF Busy(c) THEN [row EXCEPT ![c].status = poller[p].status] ELSE row
     /\ wins' = IF counted THEN [wins EXCEPT ![row[c].card] = @ + 1] ELSE wins
     /\ PollReturn(p)
     /\ UNCHANGED <<othersSame, lifecycle, declined, held>>

\* recordAuthoritativeLocalStatus: one transaction, which changes a busy code
\* only, and fails as a whole when the use cannot be counted.
PollWrite(p) ==
  LET c == poller[p].code
      status == poller[p].status
  IN /\ PollAt(p, "write")
     /\ Counts(c, status) => lifecycle[row[c].card] = "active"
     /\ row' = IF Busy(c) THEN [row EXCEPT ![c].status = status] ELSE row
     /\ wins' = IF Counts(c, status) THEN [wins EXCEPT ![row[c].card] = @ + 1] ELSE wins
     /\ PollGoto(p, IF poller[p].decline
                      THEN [IdlePoller EXCEPT !.pc = "decline", !.code = c]
                      ELSE IdlePoller)
     /\ UNCHANGED <<othersSame, lifecycle, declined, held>>

\* The transaction found the card out of service and rolled back.
PollWriteFails(p) ==
  LET c == poller[p].code
  IN /\ PollAt(p, "write")
     /\ Counts(c, poller[p].status) /\ lifecycle[row[c].card] # "active"
     /\ PollReturn(p)
     /\ UNCHANGED <<othersSame, row, cardVars>>

\* recordAutomationDecline: a transaction of its own, after the status; a code's
\* decline is recorded once.
PollDecline(p) ==
  LET c == poller[p].code
      k == row[c].card
      declines == declined \cup {c}
  IN /\ PollAt(p, "decline")
     /\ declined' = declines
     /\ lifecycle' = IF /\ c \notin declined
                        /\ lifecycle[k] = "active"
                        /\ TwoAccountsDeclined(k, declines)
                       THEN [lifecycle EXCEPT ![k] = "queued"] ELSE lifecycle
     /\ PollReturn(p)
     /\ UNCHANGED <<othersSame, row, held, wins>>

SyncNext ==
  \/ \E c \in Codes : PlatformAccepts(c) \/ RequestLost(c) \/ OrderMoves(c)
  \/ \E p \in Pollers : \/ \E c \in Codes : \/ WatchLoad(p, c)
                                            \/ ResultLoad(p, c)
                                            \/ ReconcileLoad(p, c)
                        \/ ReconcileBind(p) \/ WatchFind(p) \/ PollGivesUp(p)
                        \/ PollRead(p) \/ PollWrite(p) \/ PollWriteFails(p)
                        \/ PollDecline(p)
=============================================================================
