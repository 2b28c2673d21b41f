--------------------------- MODULE LocalShopProofs ---------------------------
(***************************************************************************)
(* Types and safety of LocalShop, for any codes, cards, handlers, pollers  *)
(* and bounds, by four inductive invariants, each resting on the ones      *)
(* before:                                                                 *)
(*   Books       what a row's status says of its request id, card, order   *)
(*   Reports     what a poller that has read an order knows of it          *)
(*   Exclusion   who may use a card                                        *)
(*   UsesAreCounted, which counts rows and so needs all of the above       *)
(* and its refinement of CodePromise.                                      *)
(***************************************************************************)
EXTENDS LocalShop, FiniteSetTheorems, TLAPS

------------------------------------------------------------------------------
\* Functions and records of the tables and the goroutines.

LEMMA Update ==
  ASSUME NEW S, NEW T, NEW f \in [S -> T], NEW x, NEW v, x \in S => v \in T
  PROVE  [f EXCEPT ![x] = v] \in [S -> T]
  OBVIOUS

LEMMA Increment ==
  ASSUME NEW S, NEW f \in [S -> Nat], NEW x \in S
  PROVE  [f EXCEPT ![x] = f[x] + 1] \in [S -> Nat]
  OBVIOUS

LEMMA IdleTypes ==
  IdleHandler \in HandlerState /\ IdlePoller \in PollerState /\ IdleKeeper \in KeeperState
  BY DEF IdleHandler, HandlerState, IdlePoller, PollerState, IdleKeeper, KeeperState, Statuses

LEMMA RowStatus ==
  ASSUME NEW r \in Row, NEW s \in Statuses
  PROVE  [r EXCEPT !.status = s] \in Row
  BY DEF Row

LEMMA RowTokens ==
  ASSUME NEW r \in Row, NEW t \in Nat, NEW n \in Nat, NEW s \in Settings \cup {NoSettings}
  PROVE  [r EXCEPT !.token = t, !.pf = n, !.cred = s] \in Row
  BY DEF Row

LEMMA RowPreflight ==
  ASSUME NEW r \in Row, NEW n \in Nat, NEW s \in Settings \cup {NoSettings}, NEW k \in Cards
  PROVE  [r EXCEPT !.pf = n, !.cred = s, !.card = k] \in Row
  BY DEF Row

LEMMA RowReserved ==
  ASSUME NEW r \in Row, NEW k \in Cards, NEW h \in Handlers
  PROVE  [r EXCEPT !.status = "reserved", !.card = k, !.request = h] \in Row
  BY DEF Row, Statuses

LEMMA RowDisabled ==
  ASSUME NEW r \in Row
  PROVE  [r EXCEPT !.status = "disabled", !.token = 0, !.pf = 0] \in Row
  BY DEF Row, Statuses

LEMMA RowSmall ==
  ASSUME NEW r \in Row
  PROVE  [r EXCEPT !.upstream = TRUE] \in Row /\ [r EXCEPT !.pf = 0] \in Row
  BY DEF Row

\* The local state a handler is left in.
LEMMA HandlerAt ==
  ASSUME NEW pc \in {"idle", "preview", "preflight", "checked", "listed", "reserved", "calling"},
         NEW c \in Codes \cup {NoCode}
  PROVE  [IdleHandler EXCEPT !.pc = pc, !.code = c] \in HandlerState
  BY IdleTypes DEF HandlerState

\* The local state a poller is left in.
LEMMA PollerAt ==
  ASSUME NEW pc \in {"idle", "bind", "find", "read", "write", "decline"},
         NEW c \in Codes \cup {NoCode}, NEW s \in Statuses
  PROVE  /\ [IdlePoller EXCEPT !.pc = pc, !.code = c, !.status = s] \in PollerState
         /\ [IdlePoller EXCEPT !.pc = pc, !.code = c] \in PollerState
  BY IdleTypes DEF PollerState

------------------------------------------------------------------------------
\* Type correctness.  TypeOK is not inductive alone: a goroutine works on the code
\* or card it has remembered, and a preflight on remembered settings.

HandlerSnapshot(s) == /\ s.pc # "idle" => s.code \in Codes
                      /\ s.pc = "preflight" => s.cred \in Settings

Snapshots == /\ \A h \in Handlers : HandlerSnapshot(handler[h])
             /\ \A p \in Pollers : poller[p].pc # "idle" => poller[p].code \in Codes
             /\ keeper.pc # "idle" => keeper.card \in Cards

TypeInv == TypeOK /\ Snapshots

LEMMA TypeInit == Init => TypeInv
<1> SUFFICES ASSUME Init PROVE TypeInv
  OBVIOUS
<1>1. row \in [Codes -> Row]
  BY DEF Init, Row, Statuses
<1>2. TypeOK
  BY <1>1, IdleTypes, ChoicesAreSettings
  DEF Init, TypeOK, RetireStates, Orders, Plans
<1>3. Snapshots
  BY DEF Init, Snapshots, HandlerSnapshot, IdleHandler, IdlePoller, IdleKeeper
<1>4. QED
  BY <1>2, <1>3 DEF TypeInv

\* One handler moves to a well-formed state.
LEMMA HandlerMoves ==
  ASSUME TypeInv, NEW h \in Handlers, NEW state \in HandlerState, HandlerSnapshot(state),
         Goto(h, state), UNCHANGED <<poller, keeper>>
  PROVE  handler' \in [Handlers -> HandlerState] /\ Snapshots'
  BY DEF TypeInv, TypeOK, Snapshots, Goto

LEMMA HandlerReturns ==
  ASSUME TypeInv, NEW h \in Handlers, Return(h), UNCHANGED <<poller, keeper>>
  PROVE  handler' \in [Handlers -> HandlerState] /\ Snapshots'
<1>1. HandlerSnapshot(IdleHandler)
  BY DEF HandlerSnapshot, IdleHandler
<1>2. QED
  BY <1>1, IdleTypes, HandlerMoves DEF Return

\* The code a busy handler works on.
LEMMA HandlerCode ==
  ASSUME TypeInv, NEW h \in Handlers, handler[h].pc # "idle"
  PROVE  /\ handler[h].code \in Codes
         /\ handler[h] \in HandlerState
         /\ row[handler[h].code] \in Row
         /\ issued[handler[h].code] + 1 \in Nat
  BY DEF TypeInv, TypeOK, Snapshots, HandlerSnapshot

LEMMA PreviewKeepsType ==
  ASSUME TypeInv, NEW h \in Handlers,
         (\E c \in Codes : PreviewLoad(h, c)) \/ PreviewStore(h)
  PROVE  TypeInv'
<1> USE DEF codeVars, configVars, cardVars, upVars
<1>1. ASSUME NEW c \in Codes, PreviewLoad(h, c) PROVE TypeInv'
  <2>1. PICK state \in HandlerState :
          state = [IdleHandler EXCEPT !.pc = "preview", !.code = c]
    BY HandlerAt
  <2>2. HandlerSnapshot(state)
    BY <2>1 DEF HandlerSnapshot, IdleHandler
  <2>3. handler' \in [Handlers -> HandlerState] /\ Snapshots'
    BY <1>1, <2>1, <2>2, HandlerMoves DEF PreviewLoad
  <2>4. QED
    BY <1>1, <2>3 DEF PreviewLoad, TypeInv, TypeOK
<1>2. ASSUME PreviewStore(h) PROVE TypeInv'
  <2>1. PICK c \in Codes : c = handler[h].code /\ row[c] \in Row /\ issued[c] + 1 \in Nat
    BY <1>2, HandlerCode DEF PreviewStore, At
  <2>2. [row[c] EXCEPT !.token = issued[c] + 1, !.pf = 0, !.cred = NoSettings] \in Row
    BY <2>1, RowTokens
  <2>3. row' \in [Codes -> Row] /\ issued' \in [Codes -> Nat]
    BY <1>2, <2>1, <2>2 DEF PreviewStore, TypeInv, TypeOK
  <2>4. handler' \in [Handlers -> HandlerState] /\ Snapshots'
    BY <1>2, HandlerReturns DEF PreviewStore
  <2>5. QED
    BY <1>2, <2>3, <2>4 DEF PreviewStore, TypeInv, TypeOK
<1>3. QED
  BY <1>1, <1>2

LEMMA PreflightKeepsType ==
  ASSUME TypeInv, NEW h \in Handlers,
         (\E c \in Codes : PreflightCheck(h, c)) \/ PreflightStore(h)
  PROVE  TypeInv'
<1> USE DEF codeVars, configVars, cardVars, upVars
<1>1. ASSUME NEW c \in Codes, PreflightCheck(h, c) PROVE TypeInv'
  <2>1. row[c] \in Row /\ settings \in Settings
    BY DEF TypeInv, TypeOK
  <2>2. PICK state : state = [IdleHandler EXCEPT !.pc = "preflight", !.code = c,
                                                 !.token = row[c].token, !.cred = settings]
    OBVIOUS
  <2>3. state \in HandlerState
    BY <2>1, <2>2, IdleTypes DEF HandlerState, Row
  <2>4. HandlerSnapshot(state)
    BY <2>1, <2>2 DEF HandlerSnapshot, IdleHandler
  <2>5. handler' \in [Handlers -> HandlerState] /\ Snapshots'
    BY <1>1, <2>2, <2>3, <2>4, HandlerMoves DEF PreflightCheck
  <2>6. QED
    BY <1>1, <2>5 DEF PreflightCheck, TypeInv, TypeOK
<1>2. ASSUME PreflightStore(h) PROVE TypeInv'
  <2>1. PICK c \in Codes : c = handler[h].code /\ row[c] \in Row /\ issued[c] + 1 \in Nat
    BY <1>2, HandlerCode DEF PreflightStore, At
  <2>2. handler[h].cred \in Settings
    BY <1>2 DEF PreflightStore, At, TypeInv, Snapshots, HandlerSnapshot
  <2>3. PICK k \in Cards :
          row' = [row EXCEPT ![c] = [@ EXCEPT !.pf = issued[c] + 1, !.cred = handler[h].cred,
                                              !.card = k]]
    BY <1>2, <2>1, <2>2 DEF PreflightStore, Available, Settings
  <2>4. [row[c] EXCEPT !.pf = issued[c] + 1, !.cred = handler[h].cred, !.card = k] \in Row
    BY <2>1, <2>2, RowPreflight
  <2>5. row' \in [Codes -> Row]
    BY <2>3, <2>4 DEF TypeInv, TypeOK
  <2>6. issued' \in [Codes -> Nat]
    BY <1>2, <2>1 DEF PreflightStore, TypeInv, TypeOK
  <2>7. handler' \in [Handlers -> HandlerState] /\ Snapshots'
    BY <1>2, HandlerReturns DEF PreflightStore
  <2>8. QED
    BY <1>2, <2>5, <2>6, <2>7 DEF PreflightStore, TypeInv, TypeOK
<1>3. QED
  BY <1>1, <1>2

LEMMA RedeemKeepsType ==
  ASSUME TypeInv, NEW h \in Handlers,
         \/ \E c \in Codes : RedeemCheck(h, c)
         \/ RedeemList(h) \/ RedeemReserve(h) \/ RedeemCall(h)
         \/ RedeemBound(h) \/ RedeemUnclear(h) \/ Refuse(h)
  PROVE  TypeInv'
<1> USE DEF codeVars, configVars, cardVars, upVars
<1>1. ASSUME NEW c \in Codes, RedeemCheck(h, c) PROVE TypeInv'
  <2>1. row[c] \in Row /\ policy.version \in Nat
    BY DEF TypeInv, TypeOK
  <2>2. PICK state : state = [IdleHandler EXCEPT !.pc = "checked", !.code = c,
                                !.token = row[c].token, !.pf = row[c].pf, !.cred = row[c].cred,
                                !.version = policy.version]
    OBVIOUS
  <2>3. state \in HandlerState
    BY <2>1, <2>2, IdleTypes DEF HandlerState, Row
  <2>4. HandlerSnapshot(state)
    BY <2>1, <2>2 DEF HandlerSnapshot, IdleHandler
  <2>5. handler' \in [Handlers -> HandlerState] /\ Snapshots'
    BY <1>1, <2>2, <2>3, <2>4, HandlerMoves DEF RedeemCheck
  <2>6. QED
    BY <1>1, <2>5 DEF RedeemCheck, TypeInv, TypeOK
<1>2. ASSUME RedeemList(h) PROVE TypeInv'
  <2>1. handler[h] \in HandlerState /\ handler[h].code \in Codes
    BY <1>2, HandlerCode DEF RedeemList, At
  <2>2. PICK offer \in SUBSET Cards : offer = Available(settings)
    BY DEF Available, TypeInv, TypeOK, Settings
  <2>3. PICK state : state = [handler[h] EXCEPT !.pc = "listed", !.offer = offer]
    OBVIOUS
  <2>4. state \in HandlerState /\ HandlerSnapshot(state)
    BY <2>1, <2>2, <2>3 DEF HandlerState, HandlerSnapshot
  <2>5. handler' \in [Handlers -> HandlerState] /\ Snapshots'
    BY <1>2, <2>2, <2>3, <2>4, HandlerMoves DEF RedeemList
  <2>6. QED
    BY <1>2, <2>5 DEF RedeemList, TypeInv, TypeOK
<1>3. ASSUME RedeemReserve(h) PROVE TypeInv'
  <2>1. PICK c \in Codes : c = handler[h].code /\ handler[h] \in HandlerState /\ row[c] \in Row
    BY <1>3, HandlerCode DEF RedeemReserve, At
  <2>2. PICK k \in Cards :
          row' = [row EXCEPT ![c] = [@ EXCEPT !.status = "reserved", !.card = k, !.request = h]]
    BY <1>3, <2>1 DEF RedeemReserve, HandlerState
  <2>3. row' \in [Codes -> Row]
    BY <2>1, <2>2, RowReserved DEF TypeInv, TypeOK
  <2>4. PICK state \in HandlerState :
          state = [IdleHandler EXCEPT !.pc = "reserved", !.code = c]
    BY HandlerAt
  <2>5. HandlerSnapshot(state)
    BY <2>4 DEF HandlerSnapshot, IdleHandler
  <2>6. handler' \in [Handlers -> HandlerState] /\ Snapshots'
    BY <1>3, <2>1, <2>4, <2>5, HandlerMoves DEF RedeemReserve
  <2>7. QED
    BY <1>3, <2>3, <2>6 DEF RedeemReserve, TypeInv, TypeOK
<1>4. ASSUME RedeemCall(h) PROVE TypeInv'
  <2>1. PICK c \in Codes : c = handler[h].code /\ handler[h] \in HandlerState
    BY <1>4, HandlerCode DEF RedeemCall, At
  <2>2. order' \in [Codes -> Orders] /\ calls' \in [Codes -> Nat]
    <3>1. order \in [Codes -> Orders] /\ calls \in [Codes -> Nat]
      BY DEF TypeInv, TypeOK
    <3>2. PICK o \in Orders : o = IF order[c] = "none" THEN "sent" ELSE order[c]
      BY <3>1, <2>1 DEF Orders
    <3>3. order' = [order EXCEPT ![c] = o] /\ calls' = [calls EXCEPT ![c] = calls[c] + 1]
      BY <1>4, <2>1, <3>2 DEF RedeemCall
    <3>4. order' \in [Codes -> Orders]
      BY <3>1, <3>2, <3>3
    <3>5. calls' \in [Codes -> Nat]
      <4>1. [calls EXCEPT ![c] = calls[c] + 1] \in [Codes -> Nat]
        BY <3>1, Increment
      <4>2. QED
        BY <3>3, <4>1
    <3>6. QED
      BY <3>4, <3>5
  <2>3. PICK state : state = [handler[h] EXCEPT !.pc = "calling"]
    OBVIOUS
  <2>4. state \in HandlerState /\ HandlerSnapshot(state)
    BY <2>1, <2>3 DEF HandlerState, HandlerSnapshot
  <2>5. handler' \in [Handlers -> HandlerState] /\ Snapshots'
    BY <1>4, <2>3, <2>4, HandlerMoves DEF RedeemCall
  <2>6. QED
    BY <1>4, <2>2, <2>5 DEF RedeemCall, TypeInv, TypeOK
<1>5. ASSUME RedeemBound(h) PROVE TypeInv'
  <2>1. PICK c \in Codes : c = handler[h].code /\ row[c] \in Row
    BY <1>5, HandlerCode DEF RedeemBound, At
  <2>2. row' \in [Codes -> Row]
    BY <1>5, <2>1, RowSmall DEF RedeemBound, TypeInv, TypeOK
  <2>3. handler' \in [Handlers -> HandlerState] /\ Snapshots'
    BY <1>5, HandlerReturns DEF RedeemBound
  <2>4. QED
    BY <1>5, <2>2, <2>3 DEF RedeemBound, TypeInv, TypeOK
<1>6. ASSUME RedeemUnclear(h) PROVE TypeInv'
  <2>1. PICK c \in Codes : c = handler[h].code /\ row[c] \in Row
    BY <1>6, HandlerCode DEF RedeemUnclear, At
  <2>2. [row[c] EXCEPT !.status = "review"] \in Row
    BY <2>1, RowStatus DEF Statuses
  <2>3. row' \in [Codes -> Row]
    BY <1>6, <2>1, <2>2 DEF RedeemUnclear, TypeInv, TypeOK
  <2>4. handler' \in [Handlers -> HandlerState] /\ Snapshots'
    BY <1>6, HandlerReturns DEF RedeemUnclear
  <2>5. QED
    BY <1>6, <2>3, <2>4 DEF RedeemUnclear, TypeInv, TypeOK
<1>7. ASSUME Refuse(h) PROVE TypeInv'
  <2>1. handler' \in [Handlers -> HandlerState] /\ Snapshots'
    BY <1>7, HandlerReturns DEF Refuse
  <2>2. QED
    BY <1>7, <2>1 DEF Refuse, TypeInv, TypeOK
<1>8. QED
  BY <1>1, <1>2, <1>3, <1>4, <1>5, <1>6, <1>7

LEMMA AdminKeepsType ==
  ASSUME TypeInv,
         \/ \E c \in Codes : PreflightExpires(c) \/ CodeExpires(c) \/ LocalCDKDisable(c)
         \/ \E s \in SettingsChoices : LocalCDKPutSettings(s)
         \/ \E paused \in BOOLEAN : AdminAutomationSave(paused)
         \/ AdminAutomationPause
         \/ \E plan \in Plans : AdminProduct(plan)
  PROVE  TypeInv'
<1> USE DEF codeVars, configVars, cardVars, upVars, procVars
<1>1. ASSUME UNCHANGED <<handler, poller, keeper>> PROVE Snapshots'
  BY <1>1 DEF TypeInv, Snapshots
<1>2. ASSUME NEW c \in Codes, PreflightExpires(c) PROVE TypeInv'
  BY <1>1, <1>2, RowSmall DEF PreflightExpires, TypeInv, TypeOK
<1>3. ASSUME NEW c \in Codes, CodeExpires(c) PROVE TypeInv'
  BY <1>1, <1>3 DEF CodeExpires, TypeInv, TypeOK
<1>4. ASSUME NEW c \in Codes, LocalCDKDisable(c) PROVE TypeInv'
  BY <1>1, <1>4, RowDisabled DEF LocalCDKDisable, TypeInv, TypeOK
<1>5. ASSUME NEW s \in SettingsChoices, LocalCDKPutSettings(s) PROVE TypeInv'
  BY <1>1, <1>5, ChoicesAreSettings DEF LocalCDKPutSettings, AdminMove, TypeInv, TypeOK
<1>6. ASSUME NEW paused \in BOOLEAN, AdminAutomationSave(paused) PROVE TypeInv'
  <2>1. policy' \in [version : Nat, paused : BOOLEAN]
    BY <1>6 DEF AdminAutomationSave, TypeInv, TypeOK
  <2>2. QED
    BY <1>1, <1>6, <2>1 DEF AdminAutomationSave, AdminMove, TypeInv, TypeOK
<1>7. ASSUME AdminAutomationPause PROVE TypeInv'
  <2>1. policy \in [version : Nat, paused : BOOLEAN] /\ policy.version + 1 \in Nat
    BY DEF TypeInv, TypeOK
  <2>2. policy' = [policy EXCEPT !.version = policy.version + 1, !.paused = TRUE]
    BY <1>7 DEF AdminAutomationPause
  <2>3. policy' \in [version : Nat, paused : BOOLEAN]
    BY <2>1, <2>2
  <2>4. QED
    BY <1>1, <1>7, <2>3 DEF AdminAutomationPause, AdminMove, TypeInv, TypeOK
<1>8. ASSUME NEW plan \in Plans, AdminProduct(plan) PROVE TypeInv'
  BY <1>1, <1>8 DEF AdminProduct, AdminMove, TypeInv, TypeOK
<1>9. QED
  BY <1>2, <1>3, <1>4, <1>5, <1>6, <1>7, <1>8

LEMMA SyncKeepsType == TypeInv /\ SyncNext => TypeInv'
<1> SUFFICES ASSUME TypeInv, SyncNext PROVE TypeInv'
  OBVIOUS
<1> USE DEF codeVars, configVars, cardVars, upVars, procVars, othersSame
<1>1. ASSUME NEW p \in Pollers, NEW state \in PollerState, PollGoto(p, state),
             state.pc # "idle" => state.code \in Codes, UNCHANGED <<handler, keeper>>
      PROVE  poller' \in [Pollers -> PollerState] /\ Snapshots'
  BY <1>1 DEF TypeInv, TypeOK, Snapshots, PollGoto
<1>2. ASSUME NEW p \in Pollers, PollReturn(p), UNCHANGED <<handler, keeper>>
      PROVE  poller' \in [Pollers -> PollerState] /\ Snapshots'
  <2>1. IdlePoller \in PollerState /\ IdlePoller.pc = "idle"
    BY IdleTypes DEF IdlePoller
  <2>2. QED
    BY <1>1, <1>2, <2>1 DEF PollReturn
<1>3. ASSUME NEW p \in Pollers, poller[p].pc # "idle"
      PROVE  /\ poller[p] \in PollerState /\ poller[p].code \in Codes
             /\ row[poller[p].code] \in Row
  BY <1>3 DEF TypeInv, TypeOK, Snapshots
<1>4. ASSUME NEW c \in Codes, PlatformAccepts(c) \/ RequestLost(c) \/ OrderMoves(c)
      PROVE  TypeInv'
  <2>1. PICK o \in Orders : order' = [order EXCEPT ![c] = o]
    BY <1>4 DEF PlatformAccepts, RequestLost, OrderMoves, Orders, Accepted, Unsettled
  <2>2. order' \in [Codes -> Orders]
    BY <2>1 DEF TypeInv, TypeOK
  <2>3. Snapshots'
    BY <1>4 DEF PlatformAccepts, RequestLost, OrderMoves, TypeInv, Snapshots
  <2>4. QED
    BY <1>4, <2>2, <2>3 DEF PlatformAccepts, RequestLost, OrderMoves, TypeInv, TypeOK
<1>5. ASSUME NEW p \in Pollers, NEW c \in Codes,
             WatchLoad(p, c) \/ ResultLoad(p, c) \/ ReconcileLoad(p, c)
      PROVE  TypeInv'
  <2>1. row[c].status \in Statuses
    BY DEF TypeInv, TypeOK, Row
  <2>2. PICK s \in Statuses, pc \in {"bind", "find", "read"} : Load(p, c, s, pc)
    BY <1>5, <2>1 DEF WatchLoad, ResultLoad, ReconcileLoad, Statuses
  <2>3. PICK state : state = [IdlePoller EXCEPT !.pc = pc, !.code = c, !.status = s]
    OBVIOUS
  <2>4. state \in PollerState /\ state.code = c
    BY <2>3, PollerAt DEF IdlePoller
  <2>5. poller' \in [Pollers -> PollerState] /\ Snapshots'
    BY <1>1, <2>2, <2>3, <2>4 DEF Load
  <2>6. QED
    BY <2>2, <2>5 DEF Load, TypeInv, TypeOK
<1>6. ASSUME NEW p \in Pollers, ReconcileBind(p) \/ WatchFind(p) PROVE TypeInv'
  <2>1. poller[p].pc # "idle"
    BY <1>6 DEF ReconcileBind, WatchFind, PollAt
  <2>2. PICK c \in Codes : c = poller[p].code /\ poller[p] \in PollerState /\ row[c] \in Row
    BY <1>3, <2>1
  <2>3. row' = [row EXCEPT ![c].upstream = TRUE]
    BY <1>6, <2>2 DEF ReconcileBind, WatchFind
  <2>4. row' \in [Codes -> Row]
    BY <2>2, <2>3, RowSmall DEF TypeInv, TypeOK
  <2>5. PICK state : state = [poller[p] EXCEPT !.pc = "read"]
    OBVIOUS
  <2>6. state \in PollerState /\ state.code = c
    BY <2>2, <2>5 DEF PollerState
  <2>7. poller' \in [Pollers -> PollerState] /\ Snapshots'
    BY <1>1, <1>6, <2>5, <2>6 DEF ReconcileBind, WatchFind
  <2>8. QED
    BY <1>6, <2>4, <2>7 DEF ReconcileBind, WatchFind, TypeInv, TypeOK
<1>7. ASSUME NEW p \in Pollers, PollGivesUp(p) PROVE TypeInv'
  <2>1. poller' \in [Pollers -> PollerState] /\ Snapshots'
    BY <1>2, <1>7 DEF PollGivesUp
  <2>2. QED
    BY <1>7, <2>1 DEF PollGivesUp, TypeInv, TypeOK
<1>8. ASSUME NEW p \in Pollers, PollRead(p) PROVE TypeInv'
  <2>1. poller[p] \in PollerState /\ poller[p].code \in Codes
    BY <1>3, <1>8 DEF PollRead, PollAt
  <2>2. PICK v \in Statuses : v = Verdict(order[poller[p].code], poller[p].status)
    BY <2>1 DEF Verdict, PollerState, Statuses
  <2>3. PICK state :
          state = [poller[p] EXCEPT
                     !.pc = "write", !.status = v,
                     !.decline = order[poller[p].code] \in {"declined", "failed_precharge"}]
    OBVIOUS
  <2>4. (order[poller[p].code] \in {"declined", "failed_precharge"}) \in BOOLEAN
    OBVIOUS
  <2>5. state \in PollerState /\ state.code \in Codes
    BY <2>1, <2>3, <2>4 DEF PollerState
  <2>6. PollReturn(p) \/ PollGoto(p, state)
    BY <1>8, <2>2, <2>3 DEF PollRead, PollReturn, PollGoto
  <2>7. poller' \in [Pollers -> PollerState] /\ Snapshots'
    BY <1>1, <1>2, <1>8, <2>5, <2>6 DEF PollRead
  <2>8. QED
    BY <1>8, <2>7 DEF PollRead, TypeInv, TypeOK
<1>9. ASSUME NEW p \in Pollers, PollWrite(p) PROVE TypeInv'
  <2>1. PICK c \in Codes : c = poller[p].code /\ poller[p] \in PollerState /\ row[c] \in Row
    BY <1>3, <1>9 DEF PollWrite, PollAt
  <2>2. [row[c] EXCEPT !.status = poller[p].status] \in Row
    BY <2>1, RowStatus DEF PollerState
  <2>3. row' \in [Codes -> Row]
    BY <1>9, <2>1, <2>2 DEF PollWrite, TypeInv, TypeOK
  <2>4. wins' \in [Cards -> Nat]
    <3>1. CASE row[c].card \in Cards
      BY <1>9, <2>1, <3>1, Increment DEF PollWrite, TypeInv, TypeOK
    <3>2. CASE row[c].card \notin Cards
      BY <1>9, <2>1, <3>2, Update DEF PollWrite, TypeInv, TypeOK
    <3>3. QED
      BY <3>1, <3>2
  <2>5. PICK state \in PollerState : state = [IdlePoller EXCEPT !.pc = "decline", !.code = c]
    BY PollerAt DEF Statuses
  <2>6. state.code = c
    BY <2>5 DEF IdlePoller
  <2>7. PollReturn(p) \/ PollGoto(p, state)
    BY <1>9, <2>1, <2>5 DEF PollWrite, PollReturn, PollGoto
  <2>8. poller' \in [Pollers -> PollerState] /\ Snapshots'
    BY <1>1, <1>2, <1>9, <2>6, <2>7 DEF PollWrite
  <2>9. QED
    BY <1>9, <2>3, <2>4, <2>8 DEF PollWrite, TypeInv, TypeOK
<1>10. ASSUME NEW p \in Pollers, PollWriteFails(p) PROVE TypeInv'
  <2>1. poller' \in [Pollers -> PollerState] /\ Snapshots'
    BY <1>2, <1>10 DEF PollWriteFails
  <2>2. QED
    BY <1>10, <2>1 DEF PollWriteFails, TypeInv, TypeOK
<1>11. ASSUME NEW p \in Pollers, PollDecline(p) PROVE TypeInv'
  <2>1. poller[p].code \in Codes
    BY <1>3, <1>11 DEF PollDecline, PollAt
  <2>2. declined' \subseteq Codes
    BY <1>11, <2>1 DEF PollDecline, TypeInv, TypeOK
  <2>3. lifecycle' \in [Cards -> RetireStates]
    BY <1>11 DEF PollDecline, TypeInv, TypeOK, RetireStates
  <2>4. poller' \in [Pollers -> PollerState] /\ Snapshots'
    BY <1>2, <1>11 DEF PollDecline
  <2>5. QED
    BY <1>11, <2>2, <2>3, <2>4 DEF PollDecline, TypeInv, TypeOK
<1>12. QED
  BY <1>4, <1>5, <1>6, <1>7, <1>8, <1>9, <1>10, <1>11 DEF SyncNext


LEMMA KeeperKeepsType == TypeInv /\ KeeperNext => TypeInv'
<1> SUFFICES ASSUME TypeInv, KeeperNext PROVE TypeInv'
  OBVIOUS
<1> USE DEF codeVars, configVars, cardVars, upVars, procVars, keeperSame
<1>1. ASSUME keeper' \in KeeperState, keeper'.pc # "idle" => keeper'.card \in Cards,
             UNCHANGED <<handler, poller>>
      PROVE  Snapshots'
  BY <1>1 DEF TypeInv, Snapshots
<1>2. ASSUME KeeperReturn, UNCHANGED <<handler, poller>>
      PROVE  keeper' \in KeeperState /\ Snapshots'
  BY <1>1, <1>2, IdleTypes DEF KeeperReturn, IdleKeeper
<1>3. ASSUME NEW k, WithoutCard(settings, k) = settings' PROVE settings' \in Settings
  BY <1>3 DEF WithoutCard, TypeInv, TypeOK, Settings
<1>4. ASSUME NEW k \in Cards, TopupChoose(k) PROVE TypeInv'
  <2>1. keeper' \in KeeperState /\ keeper'.card = k
    BY <1>4 DEF TopupChoose, TypeInv, TypeOK, KeeperState
  <2>2. QED
    BY <1>1, <1>4, <2>1 DEF TopupChoose, TypeInv, TypeOK
<1>5. ASSUME NEW k \in Cards, RetireChoose(k) PROVE TypeInv'
  <2>1. keeper' \in KeeperState /\ keeper'.card = k
    BY <1>5 DEF RetireChoose, TypeInv, TypeOK, KeeperState
  <2>2. QED
    BY <1>1, <1>5, <2>1 DEF RetireChoose, TypeInv, TypeOK
<1>6. ASSUME NEW k \in Cards, MoneyResolved(k) \/ OperatorDeletes(k) PROVE TypeInv'
  <2>1. Snapshots'
    BY <1>6 DEF MoneyResolved, OperatorDeletes, TypeInv, Snapshots
  <2>2. QED
    BY <1>6, <2>1 DEF MoneyResolved, OperatorDeletes, TypeInv, TypeOK
<1>7. ASSUME NEW k \in Cards, ReconcileRetired(k) PROVE TypeInv'
  <2>1. Snapshots'
    BY <1>7 DEF ReconcileRetired, TypeInv, Snapshots
  <2>2. settings' \in Settings
    BY <1>3, <1>7 DEF ReconcileRetired, TypeInv, TypeOK
  <2>3. lifecycle' \in [Cards -> RetireStates]
    BY <1>7 DEF ReconcileRetired, TypeInv, TypeOK, RetireStates
  <2>4. QED
    BY <1>7, <2>1, <2>2, <2>3 DEF ReconcileRetired, TypeInv, TypeOK
<1>8. ASSUME TopupReserve PROVE TypeInv'
  <2>1. keeper.card \in Cards
    BY <1>8 DEF TopupReserve, KeeperAt, TypeInv, Snapshots
  <2>2. QED
    BY <1>2, <1>8, <2>1 DEF TopupReserve, TypeInv, TypeOK
<1>9. ASSUME RetireClaim PROVE TypeInv'
  <2>1. keeper.card \in Cards /\ keeper \in KeeperState
    BY <1>9 DEF RetireClaim, KeeperAt, TypeInv, TypeOK, Snapshots
  <2>2. keeper' \in KeeperState /\ keeper'.card = keeper.card
    BY <1>9, <2>1 DEF RetireClaim, KeeperState
  <2>3. lifecycle' \in [Cards -> RetireStates]
    BY <1>9 DEF RetireClaim, TypeInv, TypeOK, RetireStates
  <2>4. QED
    BY <1>1, <1>9, <2>1, <2>2, <2>3 DEF RetireClaim, TypeInv, TypeOK
<1>10. ASSUME PlatformDeletes PROVE TypeInv'
  <2>1. keeper.card \in Cards /\ Snapshots'
    BY <1>10 DEF PlatformDeletes, KeeperAt, TypeInv, Snapshots
  <2>2. QED
    BY <1>10, <2>1 DEF PlatformDeletes, TypeInv, TypeOK
<1>11. ASSUME RetireClosed PROVE TypeInv'
  <2>1. keeper.card \in Cards /\ keeper \in KeeperState
    BY <1>11 DEF RetireClosed, KeeperAt, TypeInv, TypeOK, Snapshots
  <2>2. keeper' \in KeeperState /\ keeper'.card = keeper.card
    BY <1>11, <2>1 DEF RetireClosed, KeeperState
  <2>3. lifecycle' \in [Cards -> RetireStates]
    BY <1>11, <2>1 DEF RetireClosed, TypeInv, TypeOK, RetireStates
  <2>4. QED
    BY <1>1, <1>11, <2>1, <2>2, <2>3 DEF RetireClosed, TypeInv, TypeOK
<1>12. ASSUME RetireUnknown PROVE TypeInv'
  <2>1. lifecycle' \in [Cards -> RetireStates]
    BY <1>12 DEF RetireUnknown, KeeperAt, TypeInv, TypeOK, Snapshots, RetireStates
  <2>2. QED
    BY <1>2, <1>12, <2>1 DEF RetireUnknown, TypeInv, TypeOK
<1>13. ASSUME RetireForget PROVE TypeInv'
  BY <1>2, <1>3, <1>13 DEF RetireForget, TypeInv, TypeOK
<1>14. ASSUME KeeperGivesUp PROVE TypeInv'
  BY <1>2, <1>14 DEF KeeperGivesUp, TypeInv, TypeOK
<1>15. ASSUME Restart PROVE TypeInv'
  <2>1. /\ handler' \in [Handlers -> HandlerState]
        /\ poller' \in [Pollers -> PollerState]
        /\ keeper' \in KeeperState
    BY <1>15, IdleTypes DEF Restart, KeeperReturn
  <2>2. Snapshots'
    BY <1>15 DEF Restart, KeeperReturn, Snapshots, HandlerSnapshot,
                 IdleHandler, IdlePoller, IdleKeeper
  <2>3. lifecycle' \in [Cards -> RetireStates]
    BY <1>15 DEF Restart, TypeInv, TypeOK, RetireStates
  <2>4. QED
    BY <1>15, <2>1, <2>2, <2>3 DEF Restart, TypeInv, TypeOK
<1>16. QED
  BY <1>4, <1>5, <1>6, <1>7, <1>8, <1>9, <1>10, <1>11, <1>12, <1>13, <1>14, <1>15
  DEF KeeperNext

LEMMA TypeStep == TypeInv /\ [Next]_vars => TypeInv'
<1> SUFFICES ASSUME TypeInv, [Next]_vars PROVE TypeInv'
  OBVIOUS
<1>1. CASE RedeemNext
  BY <1>1, PreviewKeepsType, PreflightKeepsType, RedeemKeepsType, AdminKeepsType
  DEF RedeemNext
<1>2. CASE SyncNext
  BY <1>2, SyncKeepsType
<1>3. CASE KeeperNext
  BY <1>3, KeeperKeepsType
<1>4. CASE UNCHANGED vars
  <2>1. Snapshots'
    BY <1>4 DEF vars, procVars, TypeInv, Snapshots
  <2>2. QED
    BY <1>4, <2>1
    DEF vars, codeVars, configVars, cardVars, upVars, procVars, TypeInv, TypeOK
<1>5. QED
  BY <1>1, <1>2, <1>3, <1>4 DEF Next

\* Every value the tables and the goroutines hold is one their columns and local
\* variables can hold, for any number of codes, cards and goroutines.
THEOREM TypeCorrect == Spec => []TypeOK
<1>1. TypeInv => TypeOK
  BY DEF TypeInv
<1>2. QED
  BY TypeInit, TypeStep, <1>1, PTL DEF Spec


------------------------------------------------------------------------------
\* The steps that matter to rows and orders.

\* Nothing a holder or a card's owner could notice happens to code c.
Kept(c) == /\ row'[c].status = row[c].status
           /\ row'[c].request = row[c].request
           /\ row[c].status # "unused" => row'[c].card = row[c].card

\* No handler enters the section between the reservation and the answer.
NoEntry == \A h \in Handlers : \/ handler'[h] = handler[h]
                               \/ handler'[h].pc \notin {"reserved", "calling"}

Quiet == /\ \A c \in Codes : Kept(c)
         /\ NoEntry
         /\ UNCHANGED <<order, calls, wins>>

Moving == \/ \E h \in Handlers : RedeemReserve(h) \/ RedeemCall(h) \/ RedeemUnclear(h)
          \/ \E c \in Codes : LocalCDKDisable(c)
          \/ \E c \in Codes : PlatformAccepts(c) \/ RequestLost(c) \/ OrderMoves(c)
          \/ \E p \in Pollers : PollWrite(p)

LEMMA RowUpdate ==
  ASSUME TypeOK, NEW d \in Codes, NEW r, row' = [row EXCEPT ![d] = r],
         r.status = row[d].status, r.request = row[d].request,
         row[d].status # "unused" => r.card = row[d].card
  PROVE  \A c \in Codes : Kept(c)
  BY DEF TypeOK, Kept

LEMMA HandlerUpdate ==
  ASSUME TypeOK, NEW h \in Handlers, NEW state, Goto(h, state),
         state.pc \notin {"reserved", "calling"}
  PROVE  NoEntry
  BY DEF TypeOK, NoEntry, Goto

LEMMA RedeemMoves ==
  ASSUME TypeInv, RedeemNext
  PROVE  Quiet \/ Moving
<1> USE DEF codeVars, configVars, cardVars, upVars, procVars
<1>t. TypeOK
  BY DEF TypeInv
<1>1. ASSUME UNCHANGED row PROVE \A c \in Codes : Kept(c)
  BY <1>1 DEF Kept
<1>2. ASSUME UNCHANGED handler PROVE NoEntry
  BY <1>2 DEF NoEntry
<1>3. ASSUME NEW h \in Handlers, Return(h) PROVE NoEntry
  BY <1>3, <1>t, HandlerUpdate DEF Return, IdleHandler
<1>4. ASSUME NEW h \in Handlers, NEW c \in Codes,
             PreviewLoad(h, c) \/ PreflightCheck(h, c) \/ RedeemCheck(h, c)
      PROVE  Quiet
  <2>1. NoEntry
    <3>1. ASSUME PreviewLoad(h, c) PROVE NoEntry
      BY <1>t, <3>1, HandlerUpdate DEF PreviewLoad, IdleHandler
    <3>2. ASSUME PreflightCheck(h, c) PROVE NoEntry
      BY <1>t, <3>2, HandlerUpdate DEF PreflightCheck, IdleHandler
    <3>3. ASSUME RedeemCheck(h, c) PROVE NoEntry
      BY <1>t, <3>3, HandlerUpdate DEF RedeemCheck, IdleHandler
    <3>4. QED
      BY <1>4, <3>1, <3>2, <3>3
  <2>2. QED
    BY <1>1, <1>4, <2>1 DEF PreviewLoad, PreflightCheck, RedeemCheck, Quiet
<1>5. ASSUME NEW h \in Handlers, PreviewStore(h) PROVE Quiet
  <2>1. PICK c \in Codes : c = handler[h].code /\ row[c] \in Row
    BY <1>5, HandlerCode DEF PreviewStore, At
  <2>2. PICK r : r = [row[c] EXCEPT !.token = issued[c] + 1, !.pf = 0, !.cred = NoSettings]
    OBVIOUS
  <2>3. r.status = row[c].status /\ r.request = row[c].request /\ r.card = row[c].card
    BY <2>1, <2>2 DEF Row
  <2>4. row' = [row EXCEPT ![c] = r]
    BY <1>5, <2>1, <2>2 DEF PreviewStore
  <2>5. \A d \in Codes : Kept(d)
    BY <1>t, <2>3, <2>4, RowUpdate
  <2>6. QED
    BY <1>3, <1>5, <2>5 DEF PreviewStore, Quiet
<1>6. ASSUME NEW h \in Handlers, PreflightStore(h) PROVE Quiet
  <2>1. PICK c \in Codes : c = handler[h].code /\ row[c] \in Row
    BY <1>6, HandlerCode DEF PreflightStore, At
  <2>2. PICK k : row' = [row EXCEPT ![c] = [row[c] EXCEPT
                           !.pf = issued[c] + 1, !.cred = handler[h].cred, !.card = k]]
    BY <1>6, <2>1 DEF PreflightStore
  <2>3. PICK r : r = [row[c] EXCEPT !.pf = issued[c] + 1, !.cred = handler[h].cred, !.card = k]
    OBVIOUS
  <2>4. r.status = row[c].status /\ r.request = row[c].request /\ row[c].status = "unused"
    BY <1>6, <2>1, <2>3 DEF PreflightStore, Row
  <2>5. \A d \in Codes : Kept(d)
    BY <1>t, <2>2, <2>3, <2>4, RowUpdate
  <2>6. QED
    BY <1>3, <1>6, <2>5 DEF PreflightStore, Quiet
<1>7. ASSUME NEW h \in Handlers, RedeemList(h) PROVE Quiet
  <2>1. handler[h] \in HandlerState
    BY <1>t, <1>7 DEF TypeOK
  <2>2. PICK state : state = [handler[h] EXCEPT !.pc = "listed", !.offer = Available(settings)]
    OBVIOUS
  <2>3. state.pc = "listed"
    BY <2>1, <2>2 DEF HandlerState
  <2>4. NoEntry
    BY <1>t, <1>7, <2>2, <2>3, HandlerUpdate DEF RedeemList
  <2>5. QED
    BY <1>1, <1>7, <2>4 DEF RedeemList, Quiet
<1>8. ASSUME NEW h \in Handlers, RedeemBound(h) PROVE Quiet
  <2>1. PICK c \in Codes : c = handler[h].code /\ row[c] \in Row
    BY <1>8, HandlerCode DEF RedeemBound, At
  <2>2. PICK r : r = [row[c] EXCEPT !.upstream = TRUE]
    OBVIOUS
  <2>3. r.status = row[c].status /\ r.request = row[c].request /\ r.card = row[c].card
    BY <2>1, <2>2 DEF Row
  <2>4. row' = [row EXCEPT ![c] = r] \/ row' = row
    BY <1>8, <2>1, <2>2 DEF RedeemBound
  <2>5. \A d \in Codes : Kept(d)
    BY <1>1, <1>t, <2>3, <2>4, RowUpdate
  <2>6. QED
    BY <1>3, <1>8, <2>5 DEF RedeemBound, Quiet
<1>9. ASSUME NEW h \in Handlers, Refuse(h) PROVE Quiet
  BY <1>1, <1>3, <1>9 DEF Refuse, Quiet
<1>10. ASSUME NEW c \in Codes, PreflightExpires(c) PROVE Quiet
  <2>1. row[c] \in Row
    BY <1>t DEF TypeOK
  <2>2. PICK r : r = [row[c] EXCEPT !.pf = 0]
    OBVIOUS
  <2>3. r.status = row[c].status /\ r.request = row[c].request /\ r.card = row[c].card
    BY <2>1, <2>2 DEF Row
  <2>4. row' = [row EXCEPT ![c] = r]
    BY <1>10, <2>2 DEF PreflightExpires
  <2>5. \A d \in Codes : Kept(d)
    BY <1>t, <2>3, <2>4, RowUpdate
  <2>6. QED
    BY <1>2, <1>10, <2>5 DEF PreflightExpires, Quiet
<1>11. ASSUME NEW c \in Codes, CodeExpires(c) PROVE Quiet
  BY <1>1, <1>2, <1>11 DEF CodeExpires, Quiet
<1>12. ASSUME \/ \E s \in SettingsChoices : LocalCDKPutSettings(s)
              \/ \E paused \in BOOLEAN : AdminAutomationSave(paused)
              \/ AdminAutomationPause
              \/ \E plan \in Plans : AdminProduct(plan)
       PROVE  Quiet
  BY <1>1, <1>2, <1>12
  DEF LocalCDKPutSettings, AdminAutomationSave, AdminAutomationPause, AdminProduct, Quiet
<1>13. QED
  BY <1>4, <1>5, <1>6, <1>7, <1>8, <1>9, <1>10, <1>11, <1>12 DEF RedeemNext, Moving

LEMMA Moves ==
  ASSUME TypeInv, [Next]_vars
  PROVE  Quiet \/ Moving
<1> USE DEF codeVars, configVars, cardVars, upVars, procVars
<1>t. TypeOK
  BY DEF TypeInv
<1>1. ASSUME UNCHANGED row PROVE \A c \in Codes : Kept(c)
  BY <1>1 DEF Kept
<1>2. ASSUME UNCHANGED handler PROVE NoEntry
  BY <1>2 DEF NoEntry
<1>3. CASE RedeemNext
  BY <1>3, RedeemMoves
<1>4. CASE SyncNext
  <2> USE DEF othersSame
  <2>1. ASSUME NEW p \in Pollers, ReconcileBind(p) \/ WatchFind(p) PROVE Quiet
    <3>1. poller[p].pc # "idle"
      BY <2>1 DEF ReconcileBind, WatchFind, PollAt
    <3>2. PICK c \in Codes : c = poller[p].code /\ row[c] \in Row
      BY <1>t, <3>1 DEF TypeInv, Snapshots, TypeOK
    <3>3. PICK r : r = [row[c] EXCEPT !.upstream = TRUE]
      OBVIOUS
    <3>4. r.status = row[c].status /\ r.request = row[c].request /\ r.card = row[c].card
      BY <3>2, <3>3 DEF Row
    <3>5. row' = [row EXCEPT ![c] = r]
      BY <2>1, <3>2, <3>3 DEF ReconcileBind, WatchFind
    <3>6. \A d \in Codes : Kept(d)
      BY <1>t, <3>4, <3>5, RowUpdate
    <3>7. QED
      BY <1>2, <2>1, <3>6 DEF ReconcileBind, WatchFind, Quiet
  <2>2. ASSUME NEW p \in Pollers, NEW c \in Codes,
               WatchLoad(p, c) \/ ResultLoad(p, c) \/ ReconcileLoad(p, c)
        PROVE  Quiet
    BY <1>1, <1>2, <2>2 DEF WatchLoad, ResultLoad, ReconcileLoad, Load, Quiet
  <2>3. ASSUME NEW p \in Pollers,
               PollGivesUp(p) \/ PollRead(p) \/ PollWriteFails(p) \/ PollDecline(p)
        PROVE  Quiet
    BY <1>1, <1>2, <2>3 DEF PollGivesUp, PollRead, PollWriteFails, PollDecline, Quiet
  <2>4. QED
    BY <1>4, <2>1, <2>2, <2>3 DEF SyncNext, Moving
<1>5. CASE KeeperNext
  <2>1. NoEntry
    <3>1. CASE Restart
      BY <3>1 DEF Restart, NoEntry, IdleHandler
    <3>2. CASE ~ Restart
      BY <1>2, <1>5, <3>2
      DEF KeeperNext, keeperSame, TopupChoose, MoneyResolved, RetireChoose, OperatorDeletes,
          ReconcileRetired, TopupReserve, RetireClaim, PlatformDeletes, RetireClosed,
          RetireUnknown, RetireForget, KeeperGivesUp
    <3>3. QED
      BY <3>1, <3>2
  <2>2. UNCHANGED <<row, order, calls, wins>>
    BY <1>5
    DEF KeeperNext, keeperSame, TopupChoose, MoneyResolved, RetireChoose, OperatorDeletes,
        ReconcileRetired, TopupReserve, RetireClaim, PlatformDeletes, RetireClosed,
        RetireUnknown, RetireForget, KeeperGivesUp, Restart
  <2>3. QED
    BY <1>1, <2>1, <2>2 DEF Quiet
<1>6. CASE UNCHANGED vars
  BY <1>1, <1>2, <1>6 DEF vars, Quiet
<1>7. QED
  BY <1>3, <1>4, <1>5, <1>6 DEF Next

------------------------------------------------------------------------------
\* What the moving steps write.

\* Only code c changes, and of what matters only its status, to s.
OnlyStatus(c, s) == /\ row'[c].status = s
                    /\ row'[c].request = row[c].request
                    /\ row'[c].card = row[c].card
                    /\ \A d \in Codes \ {c} : row'[d] = row[d]

LEMMA ReserveWrites ==
  ASSUME TypeInv, NEW h \in Handlers, RedeemReserve(h)
  PROVE  \E c \in Codes, k \in Cards :
           /\ MayReserve(h, c, k)
           /\ row'[c].status = "reserved" /\ row'[c].request = h /\ row'[c].card = k
           /\ \A d \in Codes \ {c} : row'[d] = row[d]
           /\ handler'[h].pc = "reserved" /\ handler'[h].code = c
           /\ \A g \in Handlers \ {h} : handler'[g] = handler[g]
<1>1. PICK c \in Codes : c = handler[h].code /\ handler[h] \in HandlerState /\ row[c] \in Row
  BY HandlerCode DEF RedeemReserve, At
<1>2. PICK k \in Cards :
        /\ MayReserve(h, c, k)
        /\ row' = [row EXCEPT ![c] = [@ EXCEPT !.status = "reserved", !.card = k, !.request = h]]
  BY <1>1 DEF RedeemReserve, HandlerState
<1>3. PICK r : r = [row[c] EXCEPT !.status = "reserved", !.card = k, !.request = h]
  OBVIOUS
<1>4. r.status = "reserved" /\ r.request = h /\ r.card = k
  BY <1>1, <1>3 DEF Row
<1>5. row' = [row EXCEPT ![c] = r]
  BY <1>2, <1>3
<1>6. row'[c] = r /\ \A d \in Codes \ {c} : row'[d] = row[d]
  BY <1>5 DEF TypeInv, TypeOK
<1>7. PICK state : state = [IdleHandler EXCEPT !.pc = "reserved", !.code = c]
  OBVIOUS
<1>8. state.pc = "reserved" /\ state.code = c
  BY <1>7 DEF IdleHandler
<1>9. handler' = [handler EXCEPT ![h] = state]
  BY <1>1, <1>7 DEF RedeemReserve, Goto
<1>10. handler'[h] = state /\ \A g \in Handlers \ {h} : handler'[g] = handler[g]
  BY <1>9 DEF TypeInv, TypeOK
<1>11. QED
  BY <1>2, <1>4, <1>6, <1>8, <1>10

LEMMA CallWrites ==
  ASSUME TypeInv, NEW h \in Handlers, RedeemCall(h)
  PROVE  \E c \in Codes :
           /\ c = handler[h].code /\ handler[h].pc = "reserved"
           /\ order'[c] = IF order[c] = "none" THEN "sent" ELSE order[c]
           /\ calls'[c] = calls[c] + 1
           /\ \A d \in Codes \ {c} : order'[d] = order[d] /\ calls'[d] = calls[d]
           /\ handler'[h].pc = "calling" /\ handler'[h].code = c
           /\ \A g \in Handlers \ {h} : handler'[g] = handler[g]
           /\ row' = row
<1>1. PICK c \in Codes : c = handler[h].code /\ handler[h] \in HandlerState
  BY HandlerCode DEF RedeemCall, At
<1>2. PICK state : state = [handler[h] EXCEPT !.pc = "calling"]
  OBVIOUS
<1>3. state.pc = "calling" /\ state.code = c
  BY <1>1, <1>2 DEF HandlerState
<1>4. handler' = [handler EXCEPT ![h] = state]
  BY <1>2 DEF RedeemCall, Goto
<1>5. handler'[h] = state /\ \A g \in Handlers \ {h} : handler'[g] = handler[g]
  BY <1>4 DEF TypeInv, TypeOK
<1>6. /\ order' = [order EXCEPT ![c] = IF order[c] = "none" THEN "sent" ELSE order[c]]
      /\ calls' = [calls EXCEPT ![c] = calls[c] + 1]
      /\ handler[h].pc = "reserved" /\ row' = row
  BY <1>1 DEF RedeemCall, At, codeVars
<1>7. order'[c] = IF order[c] = "none" THEN "sent" ELSE order[c]
  BY <1>6 DEF TypeInv, TypeOK
<1>8. calls'[c] = calls[c] + 1
  BY <1>6 DEF TypeInv, TypeOK
<1>9. \A d \in Codes \ {c} : order'[d] = order[d] /\ calls'[d] = calls[d]
  BY <1>6 DEF TypeInv, TypeOK
<1>10. QED
  BY <1>1, <1>3, <1>5, <1>6, <1>7, <1>8, <1>9

LEMMA StatusWrite ==
  ASSUME TypeOK, NEW c \in Codes, NEW s,
         row' = [row EXCEPT ![c] = [row[c] EXCEPT !.status = s]]
  PROVE  OnlyStatus(c, s)
<1>1. row[c] \in Row
  BY DEF TypeOK
<1>2. PICK r : r = [row[c] EXCEPT !.status = s]
  OBVIOUS
<1>3. r.status = s /\ r.request = row[c].request /\ r.card = row[c].card
  BY <1>1, <1>2 DEF Row
<1>4. row' = [row EXCEPT ![c] = r]
  BY <1>2
<1>5. row'[c] = r /\ \A d \in Codes \ {c} : row'[d] = row[d]
  BY <1>4 DEF TypeOK
<1>6. QED
  BY <1>3, <1>5 DEF OnlyStatus

LEMMA UnclearWrites ==
  ASSUME TypeInv, NEW h \in Handlers, RedeemUnclear(h)
  PROVE  /\ NoEntry
         /\ \E c \in Codes :
              \/ row[c].status = "reserved" /\ OnlyStatus(c, "review")
              \/ row' = row
<1>1. PICK c \in Codes : c = handler[h].code
  BY HandlerCode DEF RedeemUnclear, At
<1>2. NoEntry
  BY HandlerUpdate DEF RedeemUnclear, Return, IdleHandler, TypeInv
<1>3. CASE row[c].status = "reserved"
  <2>1. row' = [row EXCEPT ![c] = [row[c] EXCEPT !.status = "review"]]
    BY <1>1, <1>3 DEF RedeemUnclear
  <2>2. OnlyStatus(c, "review")
    BY <2>1, StatusWrite DEF TypeInv
  <2>3. QED
    BY <1>2, <1>3, <2>2
<1>4. CASE row[c].status # "reserved"
  BY <1>1, <1>2, <1>4 DEF RedeemUnclear
<1>5. QED
  BY <1>3, <1>4

LEMMA DisableWrites ==
  ASSUME TypeInv, NEW c \in Codes, LocalCDKDisable(c)
  PROVE  row[c].status = "unused" /\ row[c].request = NoHandler /\ OnlyStatus(c, "disabled")
<1>1. row[c] \in Row
  BY DEF TypeInv, TypeOK
<1>2. PICK r : r = [row[c] EXCEPT !.status = "disabled", !.token = 0, !.pf = 0]
  OBVIOUS
<1>3. r.status = "disabled" /\ r.request = row[c].request /\ r.card = row[c].card
  BY <1>1, <1>2 DEF Row
<1>4. row' = [row EXCEPT ![c] = r]
  BY <1>2 DEF LocalCDKDisable
<1>5. row'[c] = r /\ \A d \in Codes \ {c} : row'[d] = row[d]
  BY <1>4 DEF TypeInv, TypeOK
<1>6. QED
  BY <1>3, <1>5 DEF OnlyStatus, LocalCDKDisable

LEMMA PollWrites ==
  ASSUME TypeInv, NEW p \in Pollers, PollWrite(p)
  PROVE  \E c \in Codes :
           /\ c = poller[p].code /\ poller[p].pc = "write"
           /\ IF Busy(c) THEN OnlyStatus(c, poller[p].status) ELSE row' = row
<1>1. PICK c \in Codes : c = poller[p].code
  BY DEF PollWrite, PollAt, TypeInv, Snapshots
<1>2. CASE Busy(c)
  <2>1. row' = [row EXCEPT ![c] = [row[c] EXCEPT !.status = poller[p].status]]
    BY <1>1, <1>2 DEF PollWrite
  <2>2. OnlyStatus(c, poller[p].status)
    BY <2>1, StatusWrite DEF TypeInv
  <2>3. QED
    BY <1>1, <1>2, <2>2 DEF PollWrite, PollAt
<1>3. CASE ~ Busy(c)
  BY <1>1, <1>3 DEF PollWrite, PollAt
<1>4. QED
  BY <1>2, <1>3

------------------------------------------------------------------------------
\* The invariants.

Withdrawable == {"unused", "disabled"}
Voided == {"failed_precharge", "cancelled"}

\* A row tells whether a request was made for its code, and only a code with a
\* request can have been ordered.
BookOf(c) == /\ row[c].status \in Withdrawable => row[c].request = NoHandler /\ calls[c] = 0
             /\ row[c].status \notin Withdrawable => row[c].request \in Handlers
                                                     /\ row[c].card \in Cards
             /\ calls[c] <= 1
             /\ calls[c] = 0 => order[c] = "none"

\* A handler past its reservation owns the code; before the call, no call was made.
Entered(h) == /\ handler[h].pc \in {"reserved", "calling"} => row[handler[h].code].request = h
              /\ handler[h].pc = "reserved" => calls[handler[h].code] = 0

Books == (\A c \in Codes : BookOf(c)) /\ (\A h \in Handlers : Entered(h))

\* What a poller loaded or read can be out of date only where the order moves.
ReportOf(p) ==
  poller[p].pc \notin {"idle", "decline"} =>
    /\ row[poller[p].code].request # NoHandler
    /\ poller[p].status \notin Withdrawable
    /\ poller[p].status = "consumed" => order[poller[p].code] = "completed"
    /\ poller[p].status = "failed" => order[poller[p].code] \in Voided

Reports == \A p \in Pollers : ReportOf(p)

Ledger == TypeInv /\ Books /\ Reports /\ OutcomeMatchesOrder

LEMMA LedgerInit == Init => Ledger
<1> SUFFICES ASSUME Init PROVE Ledger
  OBVIOUS
<1>1. TypeInv
  BY TypeInit
<1>2. Books
  BY DEF Init, Books, BookOf, Entered, IdleHandler, Withdrawable
<1>3. Reports
  BY DEF Init, Reports, ReportOf, IdlePoller
<1>4. OutcomeMatchesOrder
  BY DEF Init, OutcomeMatchesOrder
<1>5. QED
  BY <1>1, <1>2, <1>3, <1>4 DEF Ledger

LEMMA BooksStep ==
  ASSUME Ledger, [Next]_vars
  PROVE  Books'
<1>t. /\ TypeInv /\ Books
      /\ \A c \in Codes : BookOf(c) /\ row[c] \in Row /\ calls[c] \in Nat
      /\ \A h \in Handlers : Entered(h) /\ (handler[h].pc # "idle" => handler[h].code \in Codes)
  BY DEF Ledger, Books, TypeInv, TypeOK, Snapshots, HandlerSnapshot
<1>1. CASE Quiet
  <2>1. ASSUME NEW c \in Codes PROVE BookOf(c)'
    BY <1>t, <1>1 DEF Quiet, Kept, BookOf, Withdrawable
  <2>2. ASSUME NEW h \in Handlers PROVE Entered(h)'
    BY <1>t, <1>1 DEF Quiet, Kept, NoEntry, Entered
  <2>3. QED
    BY <2>1, <2>2 DEF Books
<1>2. ASSUME NEW h \in Handlers, RedeemReserve(h) PROVE Books'
  <2>1. PICK c \in Codes, k \in Cards :
          /\ MayReserve(h, c, k)
          /\ row'[c].status = "reserved" /\ row'[c].request = h /\ row'[c].card = k
          /\ \A d \in Codes \ {c} : row'[d] = row[d]
          /\ handler'[h].pc = "reserved" /\ handler'[h].code = c
          /\ \A g \in Handlers \ {h} : handler'[g] = handler[g]
    BY <1>t, <1>2, ReserveWrites
  <2>2. order' = order /\ calls' = calls
    BY <1>2 DEF RedeemReserve, upVars
  <2>3. row[c].status = "unused" /\ calls[c] = 0 /\ row[c].request = NoHandler
    BY <1>t, <2>1 DEF MayReserve, BookOf, Withdrawable
  <2>4. ASSUME NEW d \in Codes PROVE BookOf(d)'
    BY <1>t, <2>1, <2>2, <2>3 DEF BookOf, Withdrawable
  <2>5. Entered(h)'
    BY <2>1, <2>2, <2>3 DEF Entered
  <2>6. ASSUME NEW g \in Handlers \ {h} PROVE Entered(g)'
    BY <1>t, <2>1, <2>2, <2>3, NullsDistinct DEF Entered
  <2>7. QED
    BY <2>4, <2>5, <2>6 DEF Books
<1>3. ASSUME NEW h \in Handlers, RedeemCall(h) PROVE Books'
  <2>1. PICK c \in Codes :
          /\ c = handler[h].code /\ handler[h].pc = "reserved"
          /\ order'[c] = IF order[c] = "none" THEN "sent" ELSE order[c]
          /\ calls'[c] = calls[c] + 1
          /\ \A d \in Codes \ {c} : order'[d] = order[d] /\ calls'[d] = calls[d]
          /\ handler'[h].pc = "calling" /\ handler'[h].code = c
          /\ \A g \in Handlers \ {h} : handler'[g] = handler[g]
          /\ row' = row
    BY <1>t, <1>3, CallWrites
  <2>2. calls[c] = 0 /\ row[c].request = h
    BY <1>t, <2>1 DEF Entered
  <2>3. row[c].status \notin Withdrawable
    BY <1>t, <2>2, NullsDistinct DEF BookOf
  <2>4. ASSUME NEW d \in Codes PROVE BookOf(d)'
    BY <1>t, <2>1, <2>2, <2>3 DEF BookOf
  <2>5. Entered(h)'
    BY <2>1, <2>2 DEF Entered
  <2>6. ASSUME NEW g \in Handlers \ {h} PROVE Entered(g)'
    BY <1>t, <2>1, <2>2 DEF Entered
  <2>7. QED
    BY <2>4, <2>5, <2>6 DEF Books
<1>4. ASSUME NEW c \in Codes, NEW s, OnlyStatus(c, s), NoEntry, UNCHANGED <<order, calls>>,
             (s \in Withdrawable) <=> (row[c].status \in Withdrawable)
      PROVE  Books'
  <2>1. ASSUME NEW d \in Codes PROVE BookOf(d)'
    BY <1>t, <1>4 DEF OnlyStatus, BookOf
  <2>2. ASSUME NEW h \in Handlers PROVE Entered(h)'
    BY <1>t, <1>4 DEF OnlyStatus, NoEntry, Entered
  <2>3. QED
    BY <2>1, <2>2 DEF Books
<1>5. ASSUME row' = row, NoEntry, UNCHANGED <<order, calls>> PROVE Books'
  BY <1>t, <1>5 DEF Books, BookOf, NoEntry, Entered
<1>6. ASSUME NEW h \in Handlers, RedeemUnclear(h) PROVE Books'
  <2>1. UNCHANGED <<order, calls>>
    BY <1>6 DEF RedeemUnclear, upVars
  <2>2. QED
    BY <1>t, <1>4, <1>5, <1>6, <2>1, UnclearWrites DEF Withdrawable
<1>7. ASSUME NEW c \in Codes, LocalCDKDisable(c) PROVE Books'
  <2>1. NoEntry /\ UNCHANGED <<order, calls>>
    BY <1>7 DEF LocalCDKDisable, upVars, procVars, NoEntry
  <2>2. QED
    BY <1>t, <1>4, <1>7, <2>1, DisableWrites DEF Withdrawable
<1>8. ASSUME NEW c \in Codes, PlatformAccepts(c) \/ RequestLost(c) \/ OrderMoves(c)
      PROVE  Books'
  <2>1. /\ row' = row /\ calls' = calls /\ handler' = handler
        /\ order[c] # "none" /\ \A d \in Codes \ {c} : order'[d] = order[d]
    BY <1>8 DEF PlatformAccepts, RequestLost, OrderMoves, codeVars, procVars, Unsettled,
                Ledger, TypeInv, TypeOK
  <2>2. QED
    BY <1>t, <2>1 DEF Books, BookOf, Entered
<1>9. ASSUME NEW p \in Pollers, PollWrite(p) PROVE Books'
  <2>1. NoEntry /\ UNCHANGED <<order, calls>>
    BY <1>9 DEF PollWrite, othersSame, upVars, NoEntry
  <2>2. PICK c \in Codes :
          /\ c = poller[p].code /\ poller[p].pc = "write"
          /\ IF Busy(c) THEN OnlyStatus(c, poller[p].status) ELSE row' = row
    BY <1>t, <1>9, PollWrites
  <2>3. poller[p].status \notin Withdrawable
    BY <2>2 DEF Ledger, Reports, ReportOf
  <2>4. QED
    BY <1>4, <1>5, <2>1, <2>2, <2>3 DEF Busy, BusyStatus, Withdrawable
<1>10. QED
  BY <1>t, <1>1, <1>2, <1>3, <1>6, <1>7, <1>8, <1>9, Moves DEF Moving

\* What a step of CommitmentsStand says of code c.
Stands(c) == /\ row[c].request # NoHandler => /\ row'[c].request = row[c].request
                                              /\ row'[c].card = row[c].card
                                              /\ row'[c].status \notin Withdrawable
             /\ row[c].status \in {"consumed", "failed", "disabled"}
                  => row'[c].status = row[c].status

LEMMA StandsStep ==
  ASSUME Ledger, [Next]_vars, NEW c \in Codes
  PROVE  Stands(c)
<1>t. TypeInv /\ BookOf(c) /\ row[c] \in Row
  BY DEF Ledger, Books, TypeInv, TypeOK
<1>1. row[c].request # NoHandler => row[c].status \notin Withdrawable
  BY <1>t DEF BookOf
<1>2. ASSUME row'[c] = row[c] PROVE Stands(c)
  BY <1>1, <1>2 DEF Stands
<1>3. ASSUME NEW d \in Codes, NEW s, OnlyStatus(d, s), s \notin Withdrawable, Busy(d)
      PROVE  Stands(c)
  <2>1. CASE c = d
    BY <1>3, <2>1 DEF OnlyStatus, Busy, BusyStatus, Stands
  <2>2. CASE c # d
    BY <1>2, <1>3, <2>2 DEF OnlyStatus
  <2>3. QED
    BY <2>1, <2>2
<1>4. CASE Quiet
  BY <1>1, <1>4 DEF Quiet, Kept, Stands, Withdrawable
<1>5. ASSUME NEW h \in Handlers, RedeemReserve(h) PROVE Stands(c)
  <2>1. PICK d \in Codes, k \in Cards :
          MayReserve(h, d, k) /\ \A e \in Codes \ {d} : row'[e] = row[e]
    BY <1>t, <1>5, ReserveWrites
  <2>2. CASE c = d
    BY <1>t, <2>1, <2>2 DEF MayReserve, BookOf, Withdrawable, Stands
  <2>3. CASE c # d
    BY <1>2, <2>1, <2>3
  <2>4. QED
    BY <2>2, <2>3
<1>6. ASSUME NEW h \in Handlers, RedeemCall(h) PROVE Stands(c)
  BY <1>2, <1>6 DEF RedeemCall, codeVars
<1>7. ASSUME NEW h \in Handlers, RedeemUnclear(h) PROVE Stands(c)
  <2>1. PICK d \in Codes : \/ row[d].status = "reserved" /\ OnlyStatus(d, "review")
                           \/ row' = row
    BY <1>t, <1>7, UnclearWrites
  <2>2. QED
    BY <1>2, <1>3, <2>1 DEF Busy, BusyStatus, Withdrawable
<1>8. ASSUME NEW d \in Codes, LocalCDKDisable(d) PROVE Stands(c)
  <2>1. row[d].status = "unused" /\ row[d].request = NoHandler /\ OnlyStatus(d, "disabled")
    BY <1>t, <1>8, DisableWrites
  <2>2. CASE c = d
    BY <2>1, <2>2 DEF Stands
  <2>3. CASE c # d
    BY <1>2, <2>1, <2>3 DEF OnlyStatus
  <2>4. QED
    BY <2>2, <2>3
<1>9. ASSUME NEW d \in Codes, PlatformAccepts(d) \/ RequestLost(d) \/ OrderMoves(d)
      PROVE  Stands(c)
  BY <1>2, <1>9 DEF PlatformAccepts, RequestLost, OrderMoves, codeVars
<1>10. ASSUME NEW p \in Pollers, PollWrite(p) PROVE Stands(c)
  <2>1. PICK d \in Codes :
          /\ d = poller[p].code /\ poller[p].pc = "write"
          /\ IF Busy(d) THEN OnlyStatus(d, poller[p].status) ELSE row' = row
    BY <1>t, <1>10, PollWrites
  <2>2. poller[p].status \notin Withdrawable
    BY <2>1 DEF Ledger, Reports, ReportOf
  <2>3. QED
    BY <1>2, <1>3, <2>1, <2>2
<1>11. QED
  BY <1>t, <1>4, <1>5, <1>6, <1>7, <1>8, <1>9, <1>10, Moves DEF Moving

\* The platform leaves a settled order alone, and so does the shop.
LEMMA SettledStays ==
  ASSUME Ledger, [Next]_vars, NEW c \in Codes, order[c] \in Settled
  PROVE  order'[c] = order[c]
<1>t. TypeInv /\ order \in [Codes -> Orders]
  BY DEF Ledger, TypeInv, TypeOK
<1>1. ASSUME NEW d \in Codes, PlatformAccepts(d) \/ RequestLost(d) \/ OrderMoves(d)
      PROVE  order'[c] = order[c]
  BY <1>t, <1>1 DEF PlatformAccepts, RequestLost, OrderMoves, Settled, Unsettled
<1>2. ASSUME NEW h \in Handlers, RedeemCall(h) PROVE order'[c] = order[c]
  BY <1>t, <1>2, CallWrites DEF Settled
<1>3. ASSUME NEW h \in Handlers, RedeemReserve(h) \/ RedeemUnclear(h)
      PROVE  order'[c] = order[c]
  BY <1>3 DEF RedeemReserve, RedeemUnclear, upVars
<1>4. ASSUME \/ \E d \in Codes : LocalCDKDisable(d)
             \/ \E p \in Pollers : PollWrite(p)
      PROVE  order'[c] = order[c]
  BY <1>4 DEF LocalCDKDisable, PollWrite, othersSame, upVars
<1>5. CASE Quiet
  BY <1>5 DEF Quiet
<1>6. QED
  BY <1>t, <1>1, <1>2, <1>3, <1>4, <1>5, Moves DEF Moving

LEMMA OutcomeStep ==
  ASSUME Ledger, [Next]_vars
  PROVE  OutcomeMatchesOrder'
<1>1. SUFFICES ASSUME NEW c \in Codes
      PROVE /\ row'[c].status = "consumed" => order'[c] = "completed"
            /\ row'[c].status = "failed" => order'[c] \in Voided
  BY DEF OutcomeMatchesOrder, Voided
<1>t. TypeInv /\ row[c] \in Row
  BY DEF Ledger, TypeInv, TypeOK
<1>2. Voided \subseteq Settled /\ "completed" \in Settled
  BY DEF Voided, Settled
<1>3. CASE row'[c].status \notin {"consumed", "failed"}
  BY <1>3
<1>4. ASSUME row'[c].status = row[c].status
      PROVE  /\ row'[c].status = "consumed" => order'[c] = "completed"
             /\ row'[c].status = "failed" => order'[c] \in Voided
  BY <1>2, <1>4, SettledStays DEF Ledger, OutcomeMatchesOrder, Voided
<1>5. CASE Quiet
  BY <1>4, <1>5 DEF Quiet, Kept
<1>6. ASSUME NEW h \in Handlers, RedeemReserve(h)
      PROVE  row'[c].status \in {"reserved", row[c].status}
  BY <1>t, <1>6, ReserveWrites
<1>7. ASSUME NEW h \in Handlers, RedeemCall(h) PROVE row'[c].status = row[c].status
  BY <1>7 DEF RedeemCall, codeVars
<1>8. ASSUME NEW h \in Handlers, RedeemUnclear(h)
      PROVE  row'[c].status \in {"review", row[c].status}
  BY <1>t, <1>8, UnclearWrites DEF OnlyStatus
<1>9. ASSUME NEW d \in Codes, LocalCDKDisable(d)
      PROVE  row'[c].status \in {"disabled", row[c].status}
  BY <1>t, <1>9, DisableWrites DEF OnlyStatus
<1>10. ASSUME NEW d \in Codes, PlatformAccepts(d) \/ RequestLost(d) \/ OrderMoves(d)
       PROVE  row'[c].status = row[c].status
  BY <1>10 DEF PlatformAccepts, RequestLost, OrderMoves, codeVars
<1>11. ASSUME NEW p \in Pollers, PollWrite(p)
       PROVE  /\ row'[c].status = "consumed" => order'[c] = "completed"
              /\ row'[c].status = "failed" => order'[c] \in Voided
  <2>1. PICK d \in Codes :
          /\ d = poller[p].code /\ poller[p].pc = "write"
          /\ IF Busy(d) THEN OnlyStatus(d, poller[p].status) ELSE row' = row
    BY <1>t, <1>11, PollWrites
  <2>2. order' = order
    BY <1>11 DEF PollWrite, othersSame, upVars
  <2>3. ReportOf(p)
    BY DEF Ledger, Reports
  <2>4. CASE c = d /\ Busy(d)
    BY <2>1, <2>2, <2>3, <2>4 DEF OnlyStatus, ReportOf
  <2>5. CASE c # d \/ ~ Busy(d)
    BY <1>4, <2>1, <2>5 DEF OnlyStatus
  <2>6. QED
    BY <2>4, <2>5
<1>12. QED
  BY <1>t, <1>3, <1>4, <1>5, <1>6, <1>7, <1>8, <1>9, <1>10, <1>11, Moves DEF Moving

LEMMA ReportsStep ==
  ASSUME Ledger, [Next]_vars
  PROVE  Reports'
<1>t. /\ TypeInv /\ Books /\ Reports /\ OutcomeMatchesOrder /\ Reports
      /\ \A c \in Codes : row[c] \in Row
      /\ \A p \in Pollers : /\ ReportOf(p) /\ poller[p] \in PollerState
                            /\ poller[p].pc # "idle" => poller[p].code \in Codes
  BY DEF Ledger, Reports, TypeInv, TypeOK, Snapshots
\* A report stays true while its poller does nothing.
<1>1. ASSUME NEW p \in Pollers, poller'[p] = poller[p] PROVE ReportOf(p)'
  <2>1. CASE poller[p].pc \in {"idle", "decline"}
    BY <1>1, <2>1 DEF ReportOf
  <2>2. CASE poller[p].pc \notin {"idle", "decline"}
    <3>1. PICK c \in Codes : c = poller[p].code
      BY <1>t, <2>2
    <3>2. row'[c].request # NoHandler
      BY <1>t, <2>2, <3>1, StandsStep DEF Stands, ReportOf
    <3>3. order[c] \in Settled => order'[c] = order[c]
      BY SettledStays
    <3>4. QED
      BY <1>1, <1>t, <2>2, <3>1, <3>2, <3>3 DEF ReportOf, Voided, Settled
  <2>3. QED
    BY <2>1, <2>2
<1>2. ASSUME NEW p \in Pollers, NEW state, PollGoto(p, state),
             /\ state.pc \notin {"idle", "decline"}
             => /\ row'[state.code].request # NoHandler
                /\ state.status \notin Withdrawable
                /\ state.status = "consumed" => order'[state.code] = "completed"
                /\ state.status = "failed" => order'[state.code] \in Voided
      PROVE  Reports'
  <2>1. poller'[p] = state /\ \A q \in Pollers \ {p} : poller'[q] = poller[q]
    BY <1>2, <1>t DEF PollGoto, TypeInv, TypeOK
  <2>2. ReportOf(p)'
    BY <1>2, <2>1 DEF ReportOf
  <2>3. QED
    BY <1>1, <2>1, <2>2 DEF Reports
<1>3. ASSUME NEW p \in Pollers, PollReturn(p) PROVE Reports'
  BY <1>2, <1>3 DEF PollReturn, IdlePoller
<1>4. CASE poller' = poller
  BY <1>1, <1>4 DEF Reports
<1>5. CASE RedeemNext
  BY <1>4, <1>5
  DEF RedeemNext, PreviewLoad, PreflightCheck, RedeemCheck, PreviewStore, PreflightStore,
      RedeemList, RedeemReserve, RedeemCall, RedeemBound, RedeemUnclear, Refuse,
      PreflightExpires, CodeExpires, LocalCDKDisable, LocalCDKPutSettings,
      AdminAutomationSave, AdminAutomationPause, AdminProduct, procVars
<1>6. CASE SyncNext
  <2> USE DEF othersSame, upVars
  <2>1. ASSUME NEW c \in Codes, PlatformAccepts(c) \/ RequestLost(c) \/ OrderMoves(c)
        PROVE  Reports'
    BY <1>4, <2>1 DEF PlatformAccepts, RequestLost, OrderMoves, procVars
  <2>2. ASSUME NEW p \in Pollers, NEW c \in Codes,
               WatchLoad(p, c) \/ ResultLoad(p, c) \/ ReconcileLoad(p, c)
        PROVE  Reports'
    <3>1. BookOf(c)
      BY <1>t DEF Books
    <3>2. row[c].request # NoHandler
      BY <2>2, <3>1, NullsDistinct
      DEF WatchLoad, ResultLoad, ReconcileLoad, BookOf, Busy, BusyStatus, Withdrawable
    <3>3. row[c].status \notin Withdrawable
      BY <3>1, <3>2 DEF BookOf
    <3>4. PICK s, pc : Load(p, c, s, pc) /\ s \in {"reserved", row[c].status}
      BY <2>2 DEF WatchLoad, ResultLoad, ReconcileLoad
    <3>5. /\ s \notin Withdrawable
          /\ s = "consumed" => order[c] = "completed"
          /\ s = "failed" => order[c] \in Voided
      BY <1>t, <3>3, <3>4 DEF Withdrawable, OutcomeMatchesOrder, Voided
    <3>6. PICK state : state = [IdlePoller EXCEPT !.pc = pc, !.code = c, !.status = s]
      OBVIOUS
    <3>7. state.code = c /\ state.status = s
      BY <3>6 DEF IdlePoller
    <3>8. PollGoto(p, state) /\ row' = row /\ order' = order
      BY <3>4, <3>6 DEF Load
    <3>9. QED
      BY <1>2, <3>2, <3>5, <3>7, <3>8
  <2>3. ASSUME NEW p \in Pollers, ReconcileBind(p) \/ WatchFind(p) PROVE Reports'
    <3>1. poller[p].pc \in {"bind", "find"}
      BY <2>3 DEF ReconcileBind, WatchFind, PollAt
    <3>2. PICK state : state = [poller[p] EXCEPT !.pc = "read"]
      OBVIOUS
    <3>3. state.code = poller[p].code /\ state.status = poller[p].status
      BY <1>t, <3>2 DEF PollerState
    <3>4. PollGoto(p, state) /\ order' = order
      BY <2>3, <3>2 DEF ReconcileBind, WatchFind
    <3>5. PICK c \in Codes : c = poller[p].code
      BY <1>t, <3>1
    <3>6. row'[c].request # NoHandler
      BY <1>t, <3>1, <3>5, StandsStep DEF Stands, ReportOf
    <3>7. QED
      BY <1>2, <1>t, <3>1, <3>3, <3>4, <3>5, <3>6 DEF ReportOf
  <2>4. ASSUME NEW p \in Pollers, PollRead(p) PROVE Reports'
    <3>1. PICK c \in Codes : c = poller[p].code
      BY <1>t, <2>4 DEF PollRead, PollAt
    <3>2. /\ row[c].request # NoHandler
          /\ poller[p].status \notin Withdrawable
          /\ poller[p].status = "consumed" => order[c] = "completed"
          /\ poller[p].status = "failed" => order[c] \in Voided
      BY <1>t, <2>4, <3>1 DEF PollRead, PollAt, ReportOf
    <3>3. PICK v : v = Verdict(order[c], poller[p].status)
      OBVIOUS
    <3>4. /\ v \notin Withdrawable
          /\ v = "consumed" => order[c] = "completed"
          /\ v = "failed" => order[c] \in Voided
      BY <3>2, <3>3 DEF Verdict, Withdrawable, Voided
    <3>5. PICK state :
            state = [poller[p] EXCEPT !.pc = "write", !.status = v,
                                      !.decline = order[c] \in {"declined", "failed_precharge"}]
      OBVIOUS
    <3>6. state.code = c /\ state.status = v
      BY <1>t, <3>1, <3>5 DEF PollerState
    <3>7. PollGoto(p, state) \/ PollReturn(p)
      BY <2>4, <3>1, <3>3, <3>5 DEF PollRead, PollGoto, PollReturn
    <3>8. row' = row /\ order' = order
      BY <2>4 DEF PollRead
    <3>9. QED
      BY <1>2, <1>3, <3>2, <3>4, <3>6, <3>7, <3>8
  <2>5. ASSUME NEW p \in Pollers, PollWrite(p) PROVE Reports'
    <3>1. PICK state : state = [IdlePoller EXCEPT !.pc = "decline", !.code = poller[p].code]
      OBVIOUS
    <3>2. state.pc = "decline"
      BY <3>1 DEF IdlePoller
    <3>3. PollGoto(p, state) \/ PollReturn(p)
      BY <2>5, <3>1 DEF PollWrite, PollGoto, PollReturn
    <3>4. QED
      BY <1>2, <1>3, <3>2, <3>3
  <2>6. ASSUME NEW p \in Pollers, PollGivesUp(p) \/ PollWriteFails(p) \/ PollDecline(p)
        PROVE  Reports'
    BY <1>3, <2>6 DEF PollGivesUp, PollWriteFails, PollDecline
  <2>7. QED
    BY <1>6, <2>1, <2>2, <2>3, <2>4, <2>5, <2>6 DEF SyncNext
<1>7. CASE KeeperNext
  <2>1. CASE Restart
    BY <2>1 DEF Restart, Reports, ReportOf, IdlePoller
  <2>2. CASE ~ Restart
    BY <1>4, <1>7, <2>2
    DEF KeeperNext, keeperSame, TopupChoose, MoneyResolved, RetireChoose, OperatorDeletes,
        ReconcileRetired, TopupReserve, RetireClaim, PlatformDeletes, RetireClosed,
        RetireUnknown, RetireForget, KeeperGivesUp
  <2>3. QED
    BY <2>1, <2>2
<1>8. CASE UNCHANGED vars
  BY <1>4, <1>8 DEF vars, procVars
<1>9. QED
  BY <1>5, <1>6, <1>7, <1>8 DEF Next

LEMMA LedgerStep == Ledger /\ [Next]_vars => Ledger'
  BY BooksStep, ReportsStep, OutcomeStep, TypeStep DEF Ledger

LEMMA LedgerHolds == Spec => []Ledger
  BY LedgerInit, LedgerStep, PTL DEF Spec

\* The final status of a code agrees with its order, for any number of pollers:
\* the proof is Reports, what an old report is still good for.
THEOREM OutcomeIsTrue == Spec => []OutcomeMatchesOrder
<1>1. Ledger => OutcomeMatchesOrder
  BY DEF Ledger
<1>2. QED
  BY LedgerHolds, <1>1, PTL

\* No interleaving of submissions, errors, polls and crashes calls for payment twice.
THEOREM CalledOnce == Spec => []OneCallPerCode
<1>1. Ledger => OneCallPerCode
  BY DEF Ledger, Books, BookOf, OneCallPerCode
<1>2. QED
  BY LedgerHolds, <1>1, PTL

\* A code that may have been ordered cannot be redeemed again or withdrawn.
THEOREM OrderedStaysLocked == Spec => []OrderKeepsCodeLocked
<1>1. Ledger => OrderKeepsCodeLocked
  BY DEF Ledger, Books, BookOf, OrderKeepsCodeLocked, Withdrawable
<1>2. QED
  BY LedgerHolds, <1>1, PTL

\* A reservation and a final status are never taken back.
THEOREM CommitmentsAreKept == Spec => CommitmentsStand
<1>1. Ledger /\ [Next]_vars =>
        [\A c \in Codes :
           /\ row[c].request # NoHandler => /\ row'[c].request = row[c].request
                                            /\ row'[c].card = row[c].card
                                            /\ row'[c].status \notin {"unused", "disabled"}
           /\ row[c].status \in {"consumed", "failed", "disabled"}
                => row'[c].status = row[c].status]_vars
  BY StandsStep DEF Stands, Withdrawable
<1>2. QED
  BY LedgerHolds, <1>1, PTL DEF Spec, CommitmentsStand

------------------------------------------------------------------------------
\* Who may use a card.

\* Only a code with a recorded decline may still charge card k, and nothing new
\* may begin to.
RetiringCard(k) == lifecycle[k] # "active" /\ NoPendingCharge(k) /\ k \notin held

DeletionUnderWay(k) == lifecycle[k] \in {"inflight", "unknown"}

Retirement == /\ \A k \in Cards : DeletionUnderWay(k) => RetiringCard(k)
              /\ keeper.pc = "retire" => RetiringCard(keeper.card)

Exclusion == OneBusyCodePerCard /\ HeldCardIsIdle /\ Retirement

LEMMA ExclusionInit == Init => Exclusion
  BY DEF Init, Exclusion, OneBusyCodePerCard, HeldCardIsIdle, Retirement, DeletionUnderWay, Busy,
         BusyStatus, IdleKeeper

\* A code becomes busy by a reservation only.
LEMMA BusyStep ==
  ASSUME Ledger, [Next]_vars, ~ \E h \in Handlers : RedeemReserve(h), NEW c \in Codes, Busy(c)'
  PROVE  Busy(c) /\ row'[c].card = row[c].card
<1>t. TypeInv
  BY DEF Ledger
<1>1. CASE row'[c] = row[c]
  BY <1>1 DEF Busy
<1>2. CASE Quiet
  BY <1>2 DEF Quiet, Kept, Busy, BusyStatus
<1>3. ASSUME NEW d \in Codes, NEW s, OnlyStatus(d, s), Busy(d) \/ ~ BusyStatus(s)
      PROVE  Busy(c) /\ row'[c].card = row[c].card
  BY <1>1, <1>3 DEF OnlyStatus, Busy
<1>4. ASSUME NEW h \in Handlers, RedeemCall(h) PROVE row'[c] = row[c]
  BY <1>4 DEF RedeemCall, codeVars
<1>5. ASSUME NEW h \in Handlers, RedeemUnclear(h)
      PROVE  Busy(c) /\ row'[c].card = row[c].card
  BY <1>t, <1>1, <1>3, <1>5, UnclearWrites DEF Busy, BusyStatus
<1>6. ASSUME NEW d \in Codes, LocalCDKDisable(d)
      PROVE  Busy(c) /\ row'[c].card = row[c].card
  BY <1>t, <1>3, <1>6, DisableWrites DEF BusyStatus
<1>7. ASSUME NEW d \in Codes, PlatformAccepts(d) \/ RequestLost(d) \/ OrderMoves(d)
      PROVE  row'[c] = row[c]
  BY <1>7 DEF PlatformAccepts, RequestLost, OrderMoves, codeVars
<1>8. ASSUME NEW p \in Pollers, PollWrite(p)
      PROVE  Busy(c) /\ row'[c].card = row[c].card
  BY <1>t, <1>1, <1>3, <1>8, PollWrites
<1>9. QED
  BY <1>t, <1>1, <1>2, <1>4, <1>5, <1>6, <1>7, <1>8, Moves DEF Moving

\* What a reservation does to a card, and that it happens to an idle, active one.
LEMMA ReserveStep ==
  ASSUME Ledger, NEW h \in Handlers, RedeemReserve(h)
  PROVE  /\ UNCHANGED <<held, lifecycle, declined, keeper>>
         /\ \E c \in Codes, k \in Cards :
              /\ ~ CardBusy(k) /\ k \notin held /\ lifecycle[k] = "active"
              /\ row'[c].card = k
              /\ \A d \in Codes \ {c} : row'[d] = row[d]
<1>1. UNCHANGED <<held, lifecycle, declined, keeper>>
  BY DEF RedeemReserve, cardVars
<1>2. PICK c \in Codes, k \in Cards :
        /\ MayReserve(h, c, k)
        /\ row'[c].card = k
        /\ \A d \in Codes \ {c} : row'[d] = row[d]
  BY ReserveWrites DEF Ledger
<1>3. ~ CardBusy(k) /\ k \notin held /\ lifecycle[k] = "active"
  BY <1>2 DEF MayReserve
<1>4. QED
  BY <1>1, <1>2, <1>3

LEMMA OneBusyStep ==
  ASSUME Ledger, OneBusyCodePerCard, [Next]_vars
  PROVE  OneBusyCodePerCard'
<1>1. ASSUME NEW h \in Handlers, RedeemReserve(h) PROVE OneBusyCodePerCard'
  <2>1. PICK c \in Codes, k \in Cards :
          /\ ~ CardBusy(k) /\ row'[c].card = k
          /\ \A d \in Codes \ {c} : row'[d] = row[d]
    BY <1>1, ReserveStep
  <2>2. ASSUME NEW d \in Codes \ {c}, Busy(d)' PROVE Busy(d) /\ row'[d].card # k
    BY <2>1, <2>2 DEF Busy, CardBusy
  <2>3. QED
    BY <2>1, <2>2 DEF OneBusyCodePerCard
<1>2. CASE ~ \E h \in Handlers : RedeemReserve(h)
  BY <1>2, BusyStep DEF OneBusyCodePerCard
<1>3. QED
  BY <1>1, <1>2

\* Only these steps touch what is recorded of cards.
LEMMA CardMoves ==
  ASSUME [Next]_vars
  PROVE  \/ UNCHANGED <<held, lifecycle, declined, keeper>>
         \/ \E p \in Pollers : PollDecline(p)
         \/ KeeperNext /\ UNCHANGED <<row, declined>>
<1> USE DEF codeVars, configVars, cardVars, upVars, procVars, othersSame, keeperSame
<1>1. CASE RedeemNext
  <2>1. ASSUME NEW h \in Handlers, NEW c \in Codes,
               PreviewLoad(h, c) \/ PreflightCheck(h, c) \/ RedeemCheck(h, c)
        PROVE  UNCHANGED <<held, lifecycle, declined, keeper>>
    BY <2>1 DEF PreviewLoad, PreflightCheck, RedeemCheck
  <2>2. ASSUME NEW h \in Handlers,
               \/ PreviewStore(h) \/ PreflightStore(h) \/ RedeemList(h) \/ RedeemReserve(h)
               \/ RedeemCall(h) \/ RedeemBound(h) \/ RedeemUnclear(h) \/ Refuse(h)
        PROVE  UNCHANGED <<held, lifecycle, declined, keeper>>
    BY <2>2 DEF PreviewStore, PreflightStore, RedeemList, RedeemReserve, RedeemCall,
                RedeemBound, RedeemUnclear, Refuse
  <2>3. ASSUME NEW c \in Codes, PreflightExpires(c) \/ CodeExpires(c) \/ LocalCDKDisable(c)
        PROVE  UNCHANGED <<held, lifecycle, declined, keeper>>
    BY <2>3 DEF PreflightExpires, CodeExpires, LocalCDKDisable
  <2>4. ASSUME \/ \E s \in SettingsChoices : LocalCDKPutSettings(s)
               \/ \E paused \in BOOLEAN : AdminAutomationSave(paused)
               \/ AdminAutomationPause
               \/ \E plan \in Plans : AdminProduct(plan)
        PROVE  UNCHANGED <<held, lifecycle, declined, keeper>>
    BY <2>4 DEF LocalCDKPutSettings, AdminAutomationSave, AdminAutomationPause, AdminProduct
  <2>5. QED
    BY <1>1, <2>1, <2>2, <2>3, <2>4 DEF RedeemNext
<1>2. CASE SyncNext
  <2>1. ASSUME NEW c \in Codes, PlatformAccepts(c) \/ RequestLost(c) \/ OrderMoves(c)
        PROVE  UNCHANGED <<held, lifecycle, declined, keeper>>
    BY <2>1 DEF PlatformAccepts, RequestLost, OrderMoves
  <2>2. ASSUME NEW p \in Pollers, NEW c \in Codes,
               WatchLoad(p, c) \/ ResultLoad(p, c) \/ ReconcileLoad(p, c)
        PROVE  UNCHANGED <<held, lifecycle, declined, keeper>>
    BY <2>2 DEF WatchLoad, ResultLoad, ReconcileLoad, Load
  <2>3. ASSUME NEW p \in Pollers, ReconcileBind(p) \/ WatchFind(p) \/ PollGivesUp(p)
        PROVE  UNCHANGED <<held, lifecycle, declined, keeper>>
    BY <2>3 DEF ReconcileBind, WatchFind, PollGivesUp
  <2>4. ASSUME NEW p \in Pollers, PollRead(p) \/ PollWrite(p) \/ PollWriteFails(p)
        PROVE  UNCHANGED <<held, lifecycle, declined, keeper>>
    BY <2>4 DEF PollRead, PollWrite, PollWriteFails
  <2>5. QED
    BY <1>2, <2>1, <2>2, <2>3, <2>4 DEF SyncNext
<1>3. CASE KeeperNext
  BY <1>3
  DEF KeeperNext, TopupChoose, MoneyResolved, RetireChoose, OperatorDeletes,
      ReconcileRetired, TopupReserve, RetireClaim, PlatformDeletes, RetireClosed,
      RetireUnknown, RetireForget, KeeperGivesUp, Restart
<1>4. CASE UNCHANGED vars
  BY <1>4 DEF vars
<1>5. QED
  BY <1>1, <1>2, <1>3, <1>4 DEF Next

LEMMA HeldStep ==
  ASSUME Ledger, HeldCardIsIdle, [Next]_vars
  PROVE  HeldCardIsIdle'
<1>1. ASSUME NEW h \in Handlers, RedeemReserve(h) PROVE HeldCardIsIdle'
  <2>1. PICK c \in Codes, k \in Cards :
          /\ held' = held /\ k \notin held /\ row'[c].card = k
          /\ \A d \in Codes \ {c} : row'[d] = row[d]
    BY <1>1, ReserveStep
  <2>2. QED
    BY <2>1 DEF HeldCardIsIdle, CardBusy, Busy
<1>2. CASE ~ \E h \in Handlers : RedeemReserve(h)
  <2>1. ASSUME NEW k, ~ CardBusy(k) PROVE ~ CardBusy(k)'
    BY <1>2, <2>1, BusyStep DEF CardBusy
  <2>2. ASSUME NEW k \in held' PROVE k \in held \/ ~ CardBusy(k)
    <3>1. CASE KeeperNext
      BY <2>2, <3>1
      DEF KeeperNext, TopupChoose, MoneyResolved, RetireChoose, OperatorDeletes,
          ReconcileRetired, TopupReserve, RetireClaim, PlatformDeletes, RetireClosed,
          RetireUnknown, RetireForget, KeeperGivesUp, Restart
    <3>2. ASSUME NEW p \in Pollers, PollDecline(p) PROVE held' = held
      BY <3>2 DEF PollDecline
    <3>3. QED
      BY <2>2, <3>1, <3>2, CardMoves
  <2>3. QED
    BY <2>1, <2>2 DEF HeldCardIsIdle
<1>3. QED
  BY <1>1, <1>2

LEMMA RetiringStays ==
  ASSUME Ledger, [Next]_vars, NEW k \in Cards, RetiringCard(k)
  PROVE  RetiringCard(k)'
<1>t. /\ lifecycle \in [Cards -> RetireStates]
      /\ keeper.pc # "idle" => keeper.card \in Cards
  BY DEF Ledger, TypeInv, TypeOK, Snapshots
<1>1. lifecycle'[k] # "active" /\ k \notin held' /\ declined \subseteq declined'
  <2>1. CASE UNCHANGED <<held, lifecycle, declined, keeper>>
    BY <2>1 DEF RetiringCard
  <2>2. ASSUME NEW p \in Pollers, PollDecline(p)
        PROVE  lifecycle'[k] # "active" /\ k \notin held' /\ declined \subseteq declined'
    BY <1>t, <2>2 DEF PollDecline, RetiringCard
  <2>3. CASE KeeperNext /\ UNCHANGED <<row, declined>>
    <3>1. ASSUME NEW d \in Cards,
                 \/ TopupChoose(d) \/ MoneyResolved(d) \/ RetireChoose(d)
                 \/ OperatorDeletes(d) \/ ReconcileRetired(d)
          PROVE  lifecycle'[k] # "active" /\ k \notin held'
      BY <1>t, <3>1
      DEF TopupChoose, MoneyResolved, RetireChoose, OperatorDeletes, ReconcileRetired,
          RetiringCard
    <3>2. ASSUME \/ TopupReserve \/ RetireClaim \/ PlatformDeletes \/ RetireClosed
                 \/ RetireUnknown \/ RetireForget \/ KeeperGivesUp
          PROVE  lifecycle'[k] # "active" /\ k \notin held'
      BY <1>t, <3>2
      DEF TopupReserve, RetireClaim, PlatformDeletes, RetireClosed, RetireUnknown,
          RetireForget, KeeperGivesUp, RetiringCard
    <3>3. ASSUME Restart PROVE lifecycle'[k] # "active" /\ k \notin held'
      BY <1>t, <3>3 DEF Restart, RetiringCard
    <3>4. QED
      BY <2>3, <3>1, <3>2, <3>3 DEF KeeperNext
  <2>4. QED
    BY <2>1, <2>2, <2>3, CardMoves
<1>2. NoPendingCharge(k)'
  <2>1. SUFFICES ASSUME NEW c \in Codes, Busy(c)', row'[c].card = k PROVE c \in declined'
    BY DEF NoPendingCharge
  <2>2. Busy(c) /\ row[c].card = k
    <3>1. ASSUME NEW h \in Handlers, RedeemReserve(h) PROVE Busy(c) /\ row[c].card = k
      <4>1. PICK d \in Codes, j \in Cards :
              /\ lifecycle[j] = "active" /\ row'[d].card = j
              /\ \A e \in Codes \ {d} : row'[e] = row[e]
        BY <3>1, ReserveStep
      <4>2. c # d
        BY <2>1, <4>1 DEF RetiringCard
      <4>3. QED
        BY <2>1, <4>1, <4>2 DEF Busy
    <3>2. QED
      BY <2>1, <3>1, BusyStep
  <2>3. QED
    BY <1>1, <2>2 DEF RetiringCard, NoPendingCharge
<1>3. QED
  BY <1>1, <1>2 DEF RetiringCard

LEMMA RetirementStep ==
  ASSUME Ledger, Retirement, [Next]_vars
  PROVE  Retirement'
<1> USE DEF DeletionUnderWay
<1>t. /\ lifecycle \in [Cards -> RetireStates]
      /\ keeper \in KeeperState
      /\ keeper.pc # "idle" => keeper.card \in Cards
  BY DEF Ledger, TypeInv, TypeOK, Snapshots
\* Only RetireClaim, of the card chosen, starts a deletion, and only RetireChoose chooses.
<1>1. ASSUME NEW k \in Cards, DeletionUnderWay(k)' PROVE RetiringCard(k)
  <2>1. DeletionUnderWay(k) \/ (keeper.pc = "retire" /\ keeper.card = k)
    <3>1. ASSUME NEW p \in Pollers, PollDecline(p) PROVE DeletionUnderWay(k)
      BY <1>1, <1>t, <3>1 DEF PollDecline
    <3>2. CASE KeeperNext
      <4>1. ASSUME NEW d \in Cards,
                   \/ TopupChoose(d) \/ MoneyResolved(d) \/ RetireChoose(d)
                   \/ OperatorDeletes(d) \/ ReconcileRetired(d)
            PROVE  DeletionUnderWay(k)
        BY <1>1, <1>t, <4>1
        DEF TopupChoose, MoneyResolved, RetireChoose, OperatorDeletes, ReconcileRetired
      <4>2. ASSUME \/ TopupReserve \/ PlatformDeletes \/ RetireClosed
                   \/ RetireUnknown \/ RetireForget \/ KeeperGivesUp
            PROVE  DeletionUnderWay(k)
        BY <1>1, <1>t, <4>2
        DEF TopupReserve, PlatformDeletes, RetireClosed, RetireUnknown, RetireForget,
            KeeperGivesUp
      <4>3. ASSUME Restart PROVE DeletionUnderWay(k)
        BY <1>1, <1>t, <4>3 DEF Restart
      <4>4. ASSUME RetireClaim
            PROVE  DeletionUnderWay(k) \/ (keeper.pc = "retire" /\ keeper.card = k)
        BY <1>1, <1>t, <4>4 DEF RetireClaim, KeeperAt
      <4>5. QED
        BY <3>2, <4>1, <4>2, <4>3, <4>4 DEF KeeperNext
    <3>3. QED
      BY <1>1, <3>1, <3>2, CardMoves
  <2>2. QED
    BY <2>1 DEF Retirement
<1>2. ASSUME keeper'.pc = "retire"
      PROVE  keeper'.card \in Cards /\ RetiringCard(keeper'.card)
  <2>1. CASE keeper' = keeper
    BY <1>2, <1>t, <2>1 DEF Retirement
  <2>2. ASSUME NEW p \in Pollers, PollDecline(p) PROVE keeper' = keeper
    BY <2>2 DEF PollDecline, othersSame
  <2>3. ASSUME NEW k \in Cards, RetireChoose(k)
        PROVE  keeper'.card \in Cards /\ RetiringCard(keeper'.card)
    BY <2>3 DEF RetireChoose, RetiringCard
  <2>4. ASSUME NEW k \in Cards,
               TopupChoose(k) \/ MoneyResolved(k) \/ OperatorDeletes(k) \/ ReconcileRetired(k)
        PROVE  keeper' = keeper
    BY <1>2, <2>4 DEF TopupChoose, MoneyResolved, OperatorDeletes, ReconcileRetired
  <2>5. ASSUME \/ TopupReserve \/ RetireClaim \/ PlatformDeletes \/ RetireClosed
               \/ RetireUnknown \/ RetireForget \/ KeeperGivesUp \/ Restart
        PROVE  keeper' = keeper
    BY <1>2, <1>t, <2>5
    DEF TopupReserve, RetireClaim, PlatformDeletes, RetireClosed, RetireUnknown,
        RetireForget, KeeperGivesUp, Restart, KeeperReturn, IdleKeeper, KeeperState
  <2>6. QED
    BY <2>1, <2>2, <2>3, <2>4, <2>5, CardMoves DEF KeeperNext
<1>3. QED
  BY <1>1, <1>2, RetiringStays DEF Retirement

LEMMA SafeStep == Ledger /\ Exclusion /\ [Next]_vars => (Ledger /\ Exclusion)'
  BY LedgerStep, OneBusyStep, HeldStep, RetirementStep DEF Exclusion

LEMMA SafeHolds == Spec => [](Ledger /\ Exclusion)
  BY LedgerInit, ExclusionInit, SafeStep, PTL DEF Spec

\* However many handlers, old offers and crashes there are, a card has one open code.
THEOREM CardsAreExclusive == Spec => []OneBusyCodePerCard
<1>1. Exclusion => OneBusyCodePerCard
  BY DEF Exclusion
<1>2. QED
  BY SafeHolds, <1>1, PTL

LEMMA OpenOrderIsBusy ==
  ASSUME Ledger, NEW c \in Codes, order[c] \in Unsettled \cup {"sent"}
  PROVE  Busy(c)
<1>1. BookOf(c) /\ row[c].status \in Statuses
  BY DEF Ledger, Books, TypeInv, TypeOK, Row
<1>2. row[c].status \notin Withdrawable
  BY <1>1 DEF BookOf, Unsettled
<1>3. row[c].status \notin {"consumed", "failed"}
  BY DEF Ledger, OutcomeMatchesOrder, Unsettled
<1> QED
  BY <1>1, <1>2, <1>3 DEF Statuses, Withdrawable, Busy, BusyStatus

\* So the platform, too, has one unsettled order for a card: an order that can still
\* charge the card keeps its code busy.
THEOREM OrdersAreExclusive == Spec => []OneOpenOrderPerCard
<1>1. Ledger /\ Exclusion => OneOpenOrderPerCard
  BY OpenOrderIsBusy DEF Exclusion, OneBusyCodePerCard, OneOpenOrderPerCard
<1>2. QED
  BY SafeHolds, <1>1, PTL

\* A card is not charged while its balance is being changed.
THEOREM HeldCardsAreIdle == Spec => []HeldCardIsIdle
<1>1. Exclusion => HeldCardIsIdle
  BY DEF Exclusion
<1>2. QED
  BY SafeHolds, <1>1, PTL

\* While a card is being deleted, or its deletion is unclear, nothing new begins on
\* it: only orders of codes with a recorded decline may still charge it.  Retirement
\* carries the conditions from the choice of the card to its claim.
THEOREM RetiringCardsTakeNothingNew == Spec => []RetiringCardTakesNothingNew
<1>1. Ledger /\ Exclusion => RetiringCardTakesNothingNew
  BY OpenOrderIsBusy
  DEF Exclusion, Retirement, DeletionUnderWay, RetiringCard, NoPendingCharge,
      RetiringCardTakesNothingNew
<1>2. QED
  BY SafeHolds, <1>1, PTL

------------------------------------------------------------------------------
\* The switches.

\* The pause switch, the products' switches and a hold stop a reservation also in a
\* handler that looked at them before: the swap looks again.
THEOREM SwitchesWork == Spec => SwitchesStopReservations
<1>1. ASSUME Ledger, [Next]_vars, NEW c \in Codes,
             row[c].status = "unused", row'[c].status = "reserved"
      PROVE  ~policy.paused /\ OnSale(c) /\ row'[c].card \notin held
  <2>1. Busy(c)' /\ ~ Busy(c)
    BY <1>1 DEF Busy, BusyStatus
  <2>2. PICK h \in Handlers : RedeemReserve(h)
    BY <1>1, <2>1, BusyStep
  <2>3. PICK d \in Codes, k \in Cards :
          MayReserve(h, d, k) /\ row'[d].card = k /\ \A e \in Codes \ {d} : row'[e] = row[e]
    BY <1>1, <2>2, ReserveWrites DEF Ledger
  <2>4. c = d
    BY <1>1, <2>3
  <2>5. QED
    BY <2>3, <2>4 DEF MayReserve
<1>2. Ledger /\ [Next]_vars =>
        [\A c \in Codes : row[c].status = "unused" /\ row'[c].status = "reserved"
           => ~policy.paused /\ OnSale(c) /\ row'[c].card \notin held]_vars
  BY <1>1
<1>3. QED
  BY LedgerHolds, <1>2, PTL DEF Spec, SwitchesStopReservations

------------------------------------------------------------------------------
\* The uses of a card.

Delivered(k) == {c \in Codes : /\ row[c].status = "consumed"
                               /\ PlanOf[c] = "plus"
                               /\ row[c].card = k}

LEMMA DeliveredFinite ==
  ASSUME NEW k
  PROVE  IsFiniteSet(Delivered(k))
  BY CodesFinite, FS_Subset DEF Delivered

\* A code becomes consumed by PollWrite only, and only by the verdict of its poller.
LEMMA ConsumedStep ==
  ASSUME Ledger, [Next]_vars, NEW c \in Codes, row'[c].status = "consumed",
         row[c].status # "consumed"
  PROVE  \E p \in Pollers : /\ PollWrite(p) /\ Busy(c)
                            /\ c = poller[p].code /\ poller[p].status = "consumed"
<1>t. TypeInv
  BY DEF Ledger
<1>1. ~ Quiet
  BY DEF Quiet, Kept
<1>2. ASSUME NEW h \in Handlers PROVE ~ RedeemReserve(h)
  BY <1>t, ReserveWrites
<1>3. ASSUME NEW h \in Handlers PROVE ~ RedeemCall(h)
  BY DEF RedeemCall, codeVars
<1>4. ASSUME NEW h \in Handlers PROVE ~ RedeemUnclear(h)
  BY <1>t, UnclearWrites DEF OnlyStatus
<1>5. ASSUME NEW d \in Codes PROVE ~ LocalCDKDisable(d)
  BY <1>t, DisableWrites DEF OnlyStatus
<1>6. ASSUME NEW d \in Codes PROVE ~ (PlatformAccepts(d) \/ RequestLost(d) \/ OrderMoves(d))
  BY DEF PlatformAccepts, RequestLost, OrderMoves, codeVars
<1>7. PICK p \in Pollers : PollWrite(p)
  BY <1>t, <1>1, <1>2, <1>3, <1>4, <1>5, <1>6, Moves DEF Moving
<1>8. PICK d \in Codes :
        /\ d = poller[p].code
        /\ IF Busy(d) THEN OnlyStatus(d, poller[p].status) ELSE row' = row
  BY <1>t, <1>7, PollWrites
<1>9. c = d /\ Busy(d) /\ poller[p].status = "consumed"
  BY <1>8 DEF OnlyStatus
<1>10. QED
  BY <1>7, <1>8, <1>9

\* A delivered code stays on its card.
LEMMA DeliveredStays ==
  ASSUME Ledger, [Next]_vars, NEW c \in Codes, row[c].status = "consumed"
  PROVE  row'[c].status = "consumed" /\ row'[c].card = row[c].card
<1>1. BookOf(c)
  BY DEF Ledger, Books
<1>2. row[c].request # NoHandler
  BY <1>1, NullsDistinct DEF BookOf, Withdrawable
<1>3. QED
  BY <1>2, StandsStep DEF Stands

LEMMA UsesStep ==
  ASSUME Ledger, UsesAreCounted, [Next]_vars
  PROVE  UsesAreCounted'
<1>t. wins \in [Cards -> Nat] /\ TypeInv
  BY DEF Ledger, TypeInv, TypeOK
<1>u. \A k \in Cards : wins[k] = Cardinality(Delivered(k))
  BY DEF UsesAreCounted, Delivered
<1>g. SUFFICES ASSUME NEW k \in Cards PROVE wins'[k] = Cardinality(Delivered(k)')
  BY DEF UsesAreCounted, Delivered
<1>1. CASE \E p \in Pollers : PollWrite(p) /\ Counts(poller[p].code, poller[p].status)
  <2>1. PICK p \in Pollers : PollWrite(p) /\ Counts(poller[p].code, poller[p].status)
    BY <1>1
  <2>2. PICK c \in Codes :
          /\ c = poller[p].code
          /\ IF Busy(c) THEN OnlyStatus(c, poller[p].status) ELSE row' = row
    BY <1>t, <2>1, PollWrites
  <2>3. Busy(c) /\ OnlyStatus(c, "consumed") /\ PlanOf[c] = "plus"
    BY <2>1, <2>2 DEF Counts
  <2>4. wins' = [wins EXCEPT ![row[c].card] = wins[row[c].card] + 1]
    BY <2>1, <2>2 DEF PollWrite
  <2>5. row[c].status # "consumed" /\ row'[c].card = row[c].card
    BY <2>3 DEF Busy, BusyStatus, OnlyStatus
  <2>6. CASE row[c].card = k
    <3>1. Delivered(k)' = Delivered(k) \cup {c}
      BY <2>3, <2>5, <2>6 DEF Delivered, OnlyStatus
    <3>2. c \notin Delivered(k)
      BY <2>5 DEF Delivered
    <3>3. Cardinality(Delivered(k)') = Cardinality(Delivered(k)) + 1
      BY <3>1, <3>2, DeliveredFinite, FS_AddElement
    <3>4. wins'[k] = wins[k] + 1
      BY <1>t, <2>4, <2>6
    <3>5. QED
      BY <1>u, <3>3, <3>4
  <2>7. CASE row[c].card # k
    <3>1. Delivered(k)' = Delivered(k)
      BY <2>3, <2>5, <2>7 DEF Delivered, OnlyStatus
    <3>2. wins'[k] = wins[k]
      BY <1>t, <2>4, <2>7
    <3>3. QED
      BY <1>u, <3>1, <3>2
  <2>8. QED
    BY <2>6, <2>7
<1>2. CASE ~ \E p \in Pollers : PollWrite(p) /\ Counts(poller[p].code, poller[p].status)
  <2>1. ASSUME NEW c \in Codes, row'[c].status = "consumed", PlanOf[c] = "plus"
        PROVE  row[c].status = "consumed"
    BY <1>2, <2>1, ConsumedStep DEF Counts
  <2>2. Delivered(k)' = Delivered(k)
    BY <2>1, DeliveredStays DEF Delivered
  <2>3. wins' = wins
    <3>1. ASSUME NEW p \in Pollers, PollWrite(p) PROVE wins' = wins
      BY <1>2, <3>1 DEF PollWrite
    <3>2. ASSUME NEW h \in Handlers, RedeemReserve(h) \/ RedeemCall(h) \/ RedeemUnclear(h)
          PROVE  wins' = wins
      BY <3>2 DEF RedeemReserve, RedeemCall, RedeemUnclear, cardVars
    <3>3. ASSUME NEW c \in Codes,
                 \/ LocalCDKDisable(c) \/ PlatformAccepts(c) \/ RequestLost(c)
                 \/ OrderMoves(c)
          PROVE  wins' = wins
      BY <3>3 DEF LocalCDKDisable, PlatformAccepts, RequestLost, OrderMoves, cardVars
    <3>4. QED
      BY <1>t, <3>1, <3>2, <3>3, Moves DEF Moving, Quiet
  <2>4. QED
    BY <1>u, <2>2, <2>3
<1>3. QED
  BY <1>1, <1>2

LEMMA UsesInit == Init => UsesAreCounted
<1> SUFFICES ASSUME Init, NEW k \in Cards PROVE wins[k] = Cardinality(Delivered(k))
  BY DEF UsesAreCounted, Delivered
<1>1. Delivered(k) = {} /\ wins[k] = 0
  BY DEF Init, Delivered
<1>2. QED
  BY <1>1, FS_EmptySet

\* The uses booked on a card are the plus codes delivered with it, however often an
\* outcome was read.
THEOREM UsesAreExact == Spec => []UsesAreCounted
  BY LedgerHolds, UsesInit, UsesStep, PTL DEF Spec

------------------------------------------------------------------------------
\* LocalShop implements CodePromise: under the mapping CP every step of the shop
\* is one step of the promise, or none.  The four steps that are not stuttering
\* are the reservation, the disabling and the two verdicts that end a commitment.

\* The mapped variables.
promised == [c \in Codes |-> Promise(row[c].status)]
committedTo == [c \in Codes |-> IF row[c].request = NoHandler THEN NoCard ELSE row[c].card]

LEMMA PromiseOf ==
  /\ Promise("unused") = "offered" /\ Promise("disabled") = "withdrawn"
  /\ Promise("reserved") = "committed" /\ Promise("review") = "committed"
  /\ Promise("consumed") = "delivered" /\ Promise("failed") = "void"
  BY DEF Promise, BusyStatus

LEMMA PromiseInit == Init => CP!Init
<1> SUFFICES ASSUME Init PROVE CP!Init
  OBVIOUS
<1>1. \A c \in Codes : Promise(row[c].status) = "offered" /\ row[c].request = NoHandler
  BY PromiseOf DEF Init
<1>2. wins = [k \in Cards |-> 0]
  BY DEF Init
<1>3. QED
  BY <1>1, <1>2 DEF CP!Init

\* Nothing the promise speaks of changes.
LEMMA Stutter ==
  ASSUME \A c \in Codes : /\ Promise(row'[c].status) = Promise(row[c].status)
                          /\ row'[c].request = row[c].request
                          /\ row[c].request # NoHandler => row'[c].card = row[c].card,
         wins' = wins
  PROVE  UNCHANGED CP!vars
<1>1. promised' = promised
  BY DEF promised
<1>2. committedTo' = committedTo
  BY DEF committedTo
<1>3. QED
  BY <1>1, <1>2 DEF promised, committedTo, CP!vars

\* One code's promise changes.
LEMMA PromiseUpdate ==
  ASSUME NEW c \in Codes,
         \A d \in Codes \ {c} : Promise(row'[d].status) = Promise(row[d].status)
  PROVE  promised' = [promised EXCEPT ![c] = Promise(row'[c].status)]
  BY DEF promised

LEMMA CommittedUpdate ==
  ASSUME NEW c \in Codes,
         \A d \in Codes \ {c} : row'[d].request = row[d].request /\ row'[d].card = row[d].card
  PROVE  committedTo' =
           [committedTo EXCEPT ![c] = IF row'[c].request = NoHandler
                                        THEN NoCard ELSE row'[c].card]
  BY DEF committedTo

LEMMA ReserveCommits ==
  ASSUME Ledger, NEW h \in Handlers, RedeemReserve(h)
  PROVE  CP!Next
<1>1. PICK c \in Codes, k \in Cards :
        /\ MayReserve(h, c, k)
        /\ row'[c].status = "reserved" /\ row'[c].request = h /\ row'[c].card = k
        /\ \A d \in Codes \ {c} : row'[d] = row[d]
  BY ReserveWrites DEF Ledger
<1>2. wins' = wins
  BY DEF RedeemReserve, cardVars
<1>3. promised' = [promised EXCEPT ![c] = "committed"]
  BY <1>1, PromiseUpdate DEF Promise, BusyStatus
<1>4. committedTo' = [committedTo EXCEPT ![c] = k]
  BY <1>1, CommittedUpdate, NullsDistinct
<1>5. promised[c] = "offered"
  BY <1>1, PromiseOf DEF MayReserve, promised
<1>6. ASSUME NEW d \in Codes, promised[d] = "committed" PROVE committedTo[d] # k
  <2>1. BookOf(d)
    BY DEF Ledger, Books
  <2>2. Busy(d)
    <3>1. row[d].status \in Statuses
      BY DEF Ledger, TypeInv, TypeOK, Row
    <3>2. QED
      BY <1>6, <3>1, PromiseOf DEF promised, Statuses, Busy, BusyStatus
  <2>3. row[d].request # NoHandler
    BY <2>1, <2>2, NullsDistinct DEF BookOf, Busy, BusyStatus, Withdrawable
  <2>4. row[d].card # k
    BY <1>1, <2>2 DEF MayReserve, CardBusy
  <2>5. QED
    BY <2>3, <2>4 DEF committedTo
<1>7. CP!Commit(c, k)
  BY <1>2, <1>3, <1>4, <1>5, <1>6 DEF CP!Commit, promised, committedTo
<1>8. QED
  BY <1>7 DEF CP!Next

LEMMA DisableWithdraws ==
  ASSUME Ledger, NEW c \in Codes, LocalCDKDisable(c)
  PROVE  CP!Next
<1>1. row[c].status = "unused" /\ OnlyStatus(c, "disabled")
  BY DisableWrites DEF Ledger
<1>2. wins' = wins
  BY DEF LocalCDKDisable, cardVars
<1>3. promised' = [promised EXCEPT ![c] = "withdrawn"]
  BY <1>1, PromiseUpdate DEF OnlyStatus, Promise, BusyStatus
<1>4. committedTo' = committedTo
  BY <1>1 DEF OnlyStatus, committedTo
<1>5. promised[c] = "offered"
  BY <1>1, PromiseOf DEF promised
<1>6. CP!Withdraw(c)
  BY <1>2, <1>3, <1>4, <1>5 DEF CP!Withdraw, promised, committedTo
<1>7. QED
  BY <1>6 DEF CP!Next

\* A verdict on a busy code delivers it, voids it, or leaves it committed.
LEMMA WriteSettles ==
  ASSUME Ledger, NEW p \in Pollers, PollWrite(p)
  PROVE  CP!Next \/ UNCHANGED CP!vars
<1>1. PICK c \in Codes :
        /\ c = poller[p].code /\ poller[p].pc = "write"
        /\ IF Busy(c) THEN OnlyStatus(c, poller[p].status) ELSE row' = row
  BY PollWrites DEF Ledger
<1>2. BookOf(c) /\ ReportOf(p) /\ poller[p].status \in Statuses
  BY DEF Ledger, Books, Reports, TypeInv, TypeOK, PollerState
<1>3. PICK s : s = poller[p].status /\ s \in {"reserved", "review", "consumed", "failed"}
  BY <1>1, <1>2 DEF ReportOf, Statuses, Withdrawable
<1>4. wins' = IF Counts(c, s) THEN [wins EXCEPT ![row[c].card] = wins[row[c].card] + 1]
              ELSE wins
  BY <1>1, <1>3 DEF PollWrite
<1>5. CASE ~ Busy(c)
  BY <1>1, <1>4, <1>5, Stutter DEF Counts
<1>6. CASE Busy(c)
  <2>1. OnlyStatus(c, s)
    BY <1>1, <1>3, <1>6
  <2>2. promised' = [promised EXCEPT ![c] = Promise(s)]
    BY <2>1, PromiseUpdate DEF OnlyStatus
  <2>3. committedTo' = committedTo
    BY <2>1 DEF OnlyStatus, committedTo
  <2>4. promised[c] = "committed"
    BY <1>6 DEF Busy, BusyStatus, promised, Promise
  <2>5. committedTo[c] = row[c].card
    BY <1>2, <1>6, NullsDistinct
    DEF BookOf, Busy, BusyStatus, Withdrawable, committedTo
  <2>6. CASE BusyStatus(s)
    <3>1. wins' = wins
      BY <1>4, <2>6 DEF Counts, BusyStatus
    <3>2. \A d \in Codes : /\ Promise(row'[d].status) = Promise(row[d].status)
                           /\ row'[d].request = row[d].request /\ row'[d].card = row[d].card
      BY <1>6, <2>1, <2>6 DEF OnlyStatus, Busy, BusyStatus, Promise
    <3>3. QED
      BY <3>1, <3>2, Stutter
  <2>7. CASE s = "consumed"
    <3>1. promised' = [promised EXCEPT ![c] = "delivered"]
      BY <2>2, <2>7 DEF Promise, BusyStatus
    <3>2. wins' = IF c \in {d \in Codes : PlanOf[d] = "plus"}
                    THEN [wins EXCEPT ![committedTo[c]] = wins[committedTo[c]] + 1]
                    ELSE wins
      BY <1>4, <1>6, <2>5, <2>7 DEF Counts
    <3>3. CP!Deliver(c)
      BY <2>3, <2>4, <3>1, <3>2 DEF CP!Deliver, promised, committedTo
    <3>4. QED
      BY <3>3 DEF CP!Next
  <2>8. CASE s = "failed"
    <3>1. promised' = [promised EXCEPT ![c] = "void"]
      BY <2>2, <2>8 DEF Promise, BusyStatus
    <3>2. wins' = wins
      BY <1>4, <2>8 DEF Counts
    <3>3. CP!Void(c)
      BY <2>3, <2>4, <3>1, <3>2 DEF CP!Void, promised, committedTo
    <3>4. QED
      BY <3>3 DEF CP!Next
  <2>9. QED
    BY <1>3, <2>6, <2>7, <2>8 DEF BusyStatus
<1>7. QED
  BY <1>5, <1>6

LEMMA PromiseStep ==
  ASSUME Ledger, [Next]_vars
  PROVE  CP!Next \/ UNCHANGED CP!vars
<1>1. ASSUME UNCHANGED <<row, wins>> PROVE UNCHANGED CP!vars
  BY <1>1, Stutter
<1>2. CASE Quiet
  <2>1. ASSUME NEW c \in Codes, row[c].request # NoHandler PROVE row[c].status # "unused"
    BY <2>1 DEF Ledger, Books, BookOf, Withdrawable
  <2>2. QED
    BY <1>2, <2>1, Stutter DEF Quiet, Kept
<1>3. ASSUME NEW h \in Handlers, RedeemCall(h) PROVE UNCHANGED CP!vars
  BY <1>1, <1>3 DEF RedeemCall, codeVars, cardVars
<1>4. ASSUME NEW c \in Codes, PlatformAccepts(c) \/ RequestLost(c) \/ OrderMoves(c)
      PROVE  UNCHANGED CP!vars
  BY <1>1, <1>4 DEF PlatformAccepts, RequestLost, OrderMoves, codeVars, cardVars
<1>5. ASSUME NEW h \in Handlers, RedeemUnclear(h) PROVE UNCHANGED CP!vars
  <2>1. wins' = wins
    BY <1>5 DEF RedeemUnclear, cardVars
  <2>2. PICK c \in Codes : \/ row[c].status = "reserved" /\ OnlyStatus(c, "review")
                           \/ row' = row
    BY <1>5, UnclearWrites DEF Ledger
  <2>3. CASE row' = row
    BY <1>1, <2>1, <2>3
  <2>4. CASE row[c].status = "reserved" /\ OnlyStatus(c, "review")
    <3>1. \A d \in Codes : /\ Promise(row'[d].status) = Promise(row[d].status)
                           /\ row'[d].request = row[d].request /\ row'[d].card = row[d].card
      BY <2>4 DEF OnlyStatus, Promise, BusyStatus
    <3>2. QED
      BY <2>1, <3>1, Stutter
  <2>5. QED
    BY <2>2, <2>3, <2>4
<1>6. QED
  BY <1>2, <1>3, <1>4, <1>5, ReserveCommits, DisableWithdraws, WriteSettles, Moves
  DEF Ledger, Moving

\* The shop keeps its promise, with any number of codes, cards, handlers, pollers and
\* restarts.
THEOREM ShopKeepsPromise == Spec => KeepsPromise
<1>1. Ledger /\ [Next]_vars => [CP!Next]_(CP!vars)
  BY PromiseStep
<1>2. QED
  BY PromiseInit, LedgerHolds, <1>1, PTL DEF Spec, KeepsPromise, CP!Spec
=============================================================================
