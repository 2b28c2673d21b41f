----------------------------- MODULE PlatformFeed -----------------------------
(***************************************************************************)
(* The payment platform, the site's stock of its codes and the health of   *)
(* its cards, together.                                                    *)
(***************************************************************************)
EXTENDS CardHealth

PlatformNext == \E o \in Orders : OrderStarts(o) \/ OrderStalls(o) \/ OrderEnds(o)

Next == PlatformNext \/ StockNext \/ HealthNext \/ ServerStops

Spec == Init /\ [][Next]_vars

TypeOK == StockTypeOK /\ HealthTypeOK

------------------------------------------------------------------------------
\* agent_exchange.go, "only codes whose recharge failed and were not charged".
\* A code is exchanged on the word of its latest order when its orders were
\* listed.  When the new code is issued, that order has failed; it may have
\* been charged only if its detail could not be read, and be anything only if
\* what was read was a stalled order, which may have gone on since.  All other
\* orders in the list have failed.  An order that is under way or completed
\* and none of these was started after the exchange had asked for the list.
FailedAsSeen(x, o) ==
  \/ order[o] \in {"declined", "failed"}
  \/ order[o] = "charged" /\ (o = x.order => ~x.sure)
  \/ o = x.order /\ x.state = "stalled"
Deserved(x) ==
  /\ x.order \in x.tried
  /\ Tried(x.code) = x.tried => x.order = last[x.code]
  /\ \A o \in x.tried : FailedAsSeen(x, o)
ExchangeFollowsFailure == [][
  \A c \in Codes : \A new \in replaced'[c] \ replaced[c] : \E e \in Exchangers :
    /\ exchange[e].pc = "issue" /\ exchange[e].code = c
    /\ exchange'[e] = [pc |-> "disable", code |-> c, new |-> new]
    /\ Deserved(exchange[e])]_vars

\* agent_exchange.go:154, "already exchanged, cannot be exchanged again": no
\* code is exchanged for two.
ExchangedOnce == \A c \in Codes : Cardinality(replaced[c]) <= 1

\* Two observations of one card in any order, and of one order twice: when the
\* last one is over, a card that is suspect is blocked, unless an
\* administrator has unblocked it since the last new failure, or an
\* observation was cut short, by an error or with the process, after it had
\* its event, and no other has got as far since.
NoMissedBlock ==
  \A card \in Cards : Suspect(card) /\ ~Watched(card) => card \in blocked \cup pardoned \cup interrupted

\* A card is blocked only after the platform has declined as many orders on
\* it as the policy asks for, however often each was delivered and observed.
BlockIsJustified ==
  \A card \in blocked :
    Cardinality({o \in Orders : CardOf[o] = card /\ order[o] = "declined"}) >= FailThreshold
=============================================================================
