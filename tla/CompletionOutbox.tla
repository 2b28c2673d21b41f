-------------------------- MODULE CompletionOutbox --------------------------
(***************************************************************************)
(* The bridge that tells the marketplace which of its orders led to an     *)
(* activated membership.  The marketplace binds a code to its order at any *)
(* time, also after the code was redeemed; the completion transaction and  *)
(* the late binding write an event into marketplace_completion_outbox; the *)
(* automation cycle claims due events under a lease, posts and marks them. *)
(* The marketplace is external: it may refuse, or accept and not be heard. *)
(***************************************************************************)
EXTENDS Naturals, FiniteSets, Sequences, SequencesExt

CONSTANTS Codes,        \* local redemption codes
          Orders,       \* the marketplace's orders
          Historical,   \* codes consumed before completions were proven
          Refused,      \* codes whose event the marketplace never accepts
          NoOrder,      \* "bound to no order"
          Batch,        \* marketplaceCompletionBatchSize
          MaxDelay,     \* bound on completionRetryDelay, in ticks
          MaxLosses     \* bound on crashes and failed writes

ASSUME CodesAssumption == IsFiniteSet(Codes) /\ Historical \subseteq Codes
ASSUME OrdersAssumption == NoOrder \notin Orders
ASSUME BoundsAssumption == Batch \in Nat \ {0} /\ MaxDelay \in Nat \ {0} /\ MaxLosses \in Nat

VARIABLES paid,      \* the codes whose order at the payment platform is completed
          row,       \* local_cdks and marketplace_local_cdk_bindings
          event,     \* marketplace_completion_outbox
          due,       \* the unsent events that are due, by next_attempt_at
          wait,      \* ticks until a released event is due again
          sender,    \* dispatchMarketplaceCompletionOutbox
          received,  \* the events the marketplace has accepted
          losses     \* crashes and failed writes so far

vars == <<paid, row, event, due, wait, sender, received, losses>>

Rows == [status : {"open", "consumed"},  proven : BOOLEAN,  order : Orders \cup {NoOrder}]

\* "stale" is "sending" with an expired lease.
Events == [state : {"none", "pending", "sending", "stale", "sent"},
           order : Orders \cup {NoOrder}]

Senders == [pc : {"idle"}] \cup [pc : {"ready"}, left : 1..Batch] \cup
           [pc : {"posting"}, code : Codes, left : 1..Batch] \cup
           [pc : {"answered"}, code : Codes, left : 1..Batch, ok : BOOLEAN]
Idle == [pc |-> "idle"]

TypeOK ==
  /\ paid \subseteq Codes
  /\ row \in [Codes -> Rows]
  /\ event \in [Codes -> Events]
  /\ due \in Seq(Codes)
  /\ wait \in [Codes -> 0..MaxDelay]
  /\ sender \in Senders
  /\ received \subseteq Codes \X Orders
  /\ losses \in 0..MaxLosses

Init ==
  /\ paid \in SUBSET Historical
  /\ row = [c \in Codes |-> [status |-> IF c \in Historical THEN "consumed" ELSE "open",
                             proven |-> FALSE, order |-> NoOrder]]
  /\ event = [c \in Codes |-> [state |-> "none", order |-> NoOrder]]
  /\ due = <<>>
  /\ wait = [c \in Codes |-> 0]
  /\ sender = Idle
  /\ received = {}
  /\ losses = 0

Sending(c) == sender.pc \in {"posting", "answered"} /\ sender.code = c

------------------------------------------------------------------------------
\* Bindings and completions.

PlatformCompletes(c) == /\ c \notin paid
                        /\ paid' = paid \cup {c}
                        /\ UNCHANGED <<row, event, due, wait, sender, received, losses>>

\* enqueueMarketplaceCompletionTx: due at once; the same event again is nothing
\* new, another order for it rolls the transaction back.
Enqueue(c, o) ==
  \/ /\ event[c].state = "none"
     /\ event' = [event EXCEPT ![c] = [state |-> "pending", order |-> o]]
     /\ due' = Append(due, c)
  \/ /\ event[c].state # "none" /\ event[c].order = o
     /\ UNCHANGED <<event, due>>

\* recordAuthoritativeLocalCompletion, by the watcher or a customer's query, once
\* or more often.
Complete(c) ==
  /\ c \in paid
  /\ row' = [row EXCEPT ![c].status = "consumed", ![c].proven = TRUE]
  /\ IF row[c].order = NoOrder THEN UNCHANGED <<event, due>> ELSE Enqueue(c, row[c].order)
  /\ UNCHANGED <<paid, wait, sender, received, losses>>

\* Mutant: the proof of the completion is not asked for.
MayBindUnproven(c, o) == /\ row[c].order \in {NoOrder, o}
                         /\ \A d \in Codes : row[d].order = o => d = c

\* A binding is for good, an order has one code, and a code consumed without a
\* proof is refused.
MayBind(c, o) == /\ row[c].order \in {NoOrder, o}
                 /\ \A d \in Codes : row[d].order = o => d = c
                 /\ row[c].status = "consumed" => row[c].proven

\* Mutant: the completion transaction alone creates events.
BindEarly(c, o) ==
  /\ MayBind(c, o)
  /\ row' = [row EXCEPT ![c].order = o]
  /\ UNCHANGED <<paid, event, due, wait, sender, received, losses>>

\* bindMarketplaceLocalCDK: a completion that came first is caught up with.
Bind(c, o) ==
  /\ MayBind(c, o)
  /\ row' = [row EXCEPT ![c].order = o]
  /\ IF row[c].status = "consumed" THEN Enqueue(c, o) ELSE UNCHANGED <<event, due>>
  /\ UNCHANGED <<paid, wait, sender, received, losses>>

------------------------------------------------------------------------------
\* The dispatcher.  A cycle sends up to Batch events and ends at a failure.

Cycle == /\ sender = Idle
         /\ sender' = [pc |-> "ready", left |-> Batch]
         /\ UNCHANGED <<paid, row, event, due, wait, received, losses>>

\* Mutant: an expired lease is not taken over.
ClaimablePending(c) == event[c].state = "pending"
Claimable(c) == event[c].state \in {"pending", "stale"}

\* claimMarketplaceCompletionOutbox: the first row by next_attempt_at.
Claim == /\ sender.pc = "ready"
         /\ \E i \in 1..Len(due) :
              /\ Claimable(due[i]) /\ \A j \in 1..(i - 1) : ~Claimable(due[j])
              /\ event' = [event EXCEPT ![due[i]].state = "sending"]
              /\ sender' = [pc |-> "posting", code |-> due[i], left |-> sender.left]
         /\ UNCHANGED <<paid, row, due, wait, received, losses>>

NothingDue == /\ sender.pc = "ready"
              /\ \A i \in 1..Len(due) : ~Claimable(due[i])
              /\ sender' = Idle
              /\ UNCHANGED <<paid, row, event, due, wait, received, losses>>

\* postMarketplaceCompletion: accepted and heard, accepted and lost, or failed.
Post(c, accepted, heard) ==
  /\ sender.pc = "posting" /\ sender.code = c
  /\ accepted => c \notin Refused
  /\ received' = IF accepted THEN received \cup {<<c, event[c].order>>} ELSE received
  /\ sender' = [pc |-> "answered", code |-> c, left |-> sender.left, ok |-> heard]
  /\ UNCHANGED <<paid, row, event, due, wait, losses>>

Delivered(c) == Post(c, TRUE, TRUE)

\* Mutant: any answer is taken for an acceptance.
UndeliveredHeard(c) == Post(c, TRUE, FALSE) \/ Post(c, FALSE, TRUE)
Undelivered(c) == Post(c, TRUE, FALSE) \/ Post(c, FALSE, FALSE)

\* markMarketplaceCompletionDelivered; the cycle goes on.
MarkSent(c) ==
  /\ event' = [event EXCEPT ![c].state = "sent"]
  /\ sender' = IF sender.left > 1 THEN [pc |-> "ready", left |-> sender.left - 1] ELSE Idle
  /\ UNCHANGED wait

\* releaseMarketplaceCompletionOutbox; the cycle ends.
Release(c) ==
  /\ event' = [event EXCEPT ![c].state = "pending"]
  /\ \E d \in 1..MaxDelay : wait' = [wait EXCEPT ![c] = d]
  /\ sender' = Idle

Record(c) == /\ sender.pc = "answered" /\ sender.code = c
             /\ IF sender.ok THEN MarkSent(c) ELSE Release(c)
             /\ \E i \in 1..Len(due) : due[i] = c /\ due' = RemoveAt(due, i)
             /\ UNCHANGED <<paid, row, received, losses>>

\* The server stops, or the outcome cannot be written: the row stays "sending".
Loss == /\ sender # Idle /\ losses < MaxLosses
        /\ losses' = losses + 1
        /\ sender' = Idle
        /\ UNCHANGED <<paid, row, event, due, wait, received>>

\* The lease is longer than the time limit of a post.
LeaseExpires(c) == /\ event[c].state = "sending" /\ ~Sending(c)
                   /\ event' = [event EXCEPT ![c].state = "stale"]
                   /\ UNCHANGED <<paid, row, due, wait, sender, received, losses>>

\* Events that fall due together are ordered by name.
Tick == /\ \E c \in Codes : wait[c] > 0
        /\ wait' = [c \in Codes |-> IF wait[c] > 0 THEN wait[c] - 1 ELSE 0]
        /\ \E s \in SetToSeqs({c \in Codes : wait[c] = 1}) : due' = due \o s
        /\ UNCHANGED <<paid, row, event, sender, received, losses>>

Next ==
  \/ Cycle \/ Claim \/ NothingDue \/ Loss \/ Tick
  \/ \E c \in Codes :
       \/ PlatformCompletes(c) \/ Complete(c) \/ \E o \in Orders : Bind(c, o)
       \/ Delivered(c) \/ Undelivered(c) \/ Record(c) \/ LeaseExpires(c)

Spec == Init /\ [][Next]_vars

(***************************************************************************)
(* Fairness.  The automation cycle runs every 30 s and every post has a    *)
(* time limit; time passes; and a marketplace that does not refuse an      *)
(* event accepts it and is heard at some attempt.                          *)
(***************************************************************************)
Answer(c) == Delivered(c) \/ Undelivered(c)

Fairness ==
  /\ WF_vars(Cycle \/ Claim \/ NothingDue) /\ WF_vars(Tick)
  /\ \A c \in Codes : /\ WF_vars(Answer(c)) /\ WF_vars(Record(c)) /\ WF_vars(LeaseExpires(c))
                      /\ SF_vars(Delivered(c))

FairSpec == Spec /\ Fairness

------------------------------------------------------------------------------
\* Properties.

\* Whichever came first, binding or completion: a bound and proven completion has
\* its event, which names the bound order.
CompletionIsQueued ==
  \A c \in Codes : row[c].order # NoOrder /\ row[c].status = "consumed"
    => event[c].state # "none" /\ event[c].order = row[c].order

\* The marketplace grants invoices on these events: it never hears of a code whose
\* payment the platform has not confirmed, historical ones included, nor of an
\* order the code was not sold by.
OnlyVerifiedCompletions ==
  \A n \in received : n[1] \in paid /\ row[n[1]].proven /\ row[n[1]].order = n[2]

NP == INSTANCE NoticePromise
        WITH owed   <- {n \in Codes \X Orders : event[n[1]].order = n[2]},
             told   <- received,
             closed <- {n \in Codes \X Orders : event[n[1]] = [state |-> "sent", order |-> n[2]]}

\* The outbox is an at-least-once channel: one notice per code and order, nothing
\* closed that was not accepted, whatever is lost between the three writes.
KeepsNoticePromise == NP!Spec

\* A bound completion is notified in the end, in spite of crashes, lost answers and
\* other events that are refused for ever.
CompletionIsNotified ==
  \A c \in Codes \ Refused :
    row[c].order # NoOrder /\ row[c].status = "consumed" ~> event[c].state = "sent"
=============================================================================
