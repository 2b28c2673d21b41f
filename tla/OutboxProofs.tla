---------------------------- MODULE OutboxProofs ----------------------------
(***************************************************************************)
(* Theorems of CompletionOutbox: what the marketplace hears is proven,     *)
(* what is proven is queued, and the outbox is an at-least-once channel.   *)
(***************************************************************************)
EXTENDS CompletionOutbox, FiniteSetTheorems, SequenceTheorems, TLAPS

\* A proof is of a completed payment, and an event is of a proven completion and
\* names the order its code is bound to.
Entry(c) ==
  /\ row[c].proven => c \in paid /\ row[c].status = "consumed"
  /\ event[c].state = "none" => event[c].order = NoOrder
  /\ event[c].state # "none" => /\ row[c].proven /\ row[c].order # NoOrder
                                /\ event[c].order = row[c].order
Books == \A c \in Codes : Entry(c)

BindingsUnique ==
  \A c, d \in Codes : row[c].order # NoOrder /\ row[c].order = row[d].order => c = d

\* The dispatcher owns the row it is posting, and an acceptance it heard was given.
Dispatch ==
  \A c \in Codes : Sending(c) =>
    /\ event[c].state = "sending"
    /\ sender.pc = "answered" /\ sender.ok => <<c, event[c].order>> \in received

\* An acceptance is of an event as it stands.
Heard == \A n \in received : event[n[1]].order = n[2]

ClosedIsHeard == \A c \in Codes : event[c].state = "sent" => <<c, event[c].order>> \in received

IInv == /\ TypeOK /\ Books /\ BindingsUnique /\ CompletionIsQueued
        /\ Dispatch /\ Heard /\ ClosedIsHeard

------------------------------------------------------------------------------
\* Typing.

LEMMA TypeInit == Init => TypeOK
<1> SUFFICES ASSUME Init PROVE TypeOK
  OBVIOUS
<1>1. paid \subseteq Codes
  BY CodesAssumption DEF Init
<1>2. row \in [Codes -> Rows]
  BY DEF Init, Rows
<1>3. event \in [Codes -> Events]
  BY DEF Init, Events
<1>4. wait \in [Codes -> 0..MaxDelay]
  BY BoundsAssumption DEF Init
<1>5. losses \in 0..MaxLosses
  BY BoundsAssumption DEF Init
<1> QED
  BY <1>1, <1>2, <1>3, <1>4, <1>5 DEF Init, TypeOK, Idle, Senders

\* What a sender is at a step at which it has a code.
LEMMA SenderType ==
  ASSUME TypeOK, sender.pc \in {"posting", "answered"}
  PROVE  sender.code \in Codes /\ sender.left \in 1..Batch
  BY DEF TypeOK, Senders

LEMMA EventType ==
  ASSUME TypeOK, NEW c \in Codes, NEW s \in {"none", "pending", "sending", "stale", "sent"}
  PROVE  [event EXCEPT ![c].state = s] \in [Codes -> Events]
  BY DEF TypeOK, Events

LEMMA RemoveType == ASSUME NEW s \in Seq(Codes), NEW i \in 1..Len(s)
                    PROVE  RemoveAt(s, i) \in Seq(Codes)
<1>1. Len(s) \in Nat /\ \A j \in 1..Len(s) : s[j] \in Codes
  BY ElementOfSeq, LenProperties
<1>2. SubSeq(s, 1, i - 1) \in Seq(Codes)
  BY <1>1, SubSeqProperties
<1>3. SubSeq(s, i + 1, Len(s)) \in Seq(Codes)
  BY <1>1, SubSeqProperties
<1> QED
  BY <1>2, <1>3, ConcatProperties DEF RemoveAt

LEMMA OrderingType == ASSUME NEW S \in SUBSET Codes, NEW s \in SetToSeqs(S)
                      PROVE  s \in Seq(Codes)
<1>1. Cardinality(S) \in Nat
  BY CodesAssumption, FS_Subset, FS_CardinalityType
<1>2. s \in [1..Cardinality(S) -> S]
  BY DEF SetToSeqs
<1>3. s \in [1..Cardinality(S) -> Codes]
  BY <1>2
<1> QED
  BY <1>1, <1>3, SeqDef

LEMMA EnqueueType ==
  ASSUME TypeOK, NEW c \in Codes, NEW o \in Orders, Enqueue(c, o)
  PROVE  event' \in [Codes -> Events] /\ due' \in Seq(Codes)
<1>1. CASE event[c].state = "none" /\ event' = [event EXCEPT ![c] = [state |-> "pending", order |-> o]]
           /\ due' = Append(due, c)
  <2>1. [state |-> "pending", order |-> o] \in Events
    BY DEF Events
  <2> QED
    BY <1>1, <2>1, AppendProperties DEF TypeOK
<1>2. CASE UNCHANGED <<event, due>>
  BY <1>2 DEF TypeOK
<1> QED
  BY <1>1, <1>2 DEF Enqueue

\* The event on the wire names an order.
LEMMA Posting == ASSUME TypeOK, Books, Dispatch, NEW c \in Codes, Sending(c)
                 PROVE  event[c].order \in Orders
<1>1. event[c].state = "sending"
  BY DEF Dispatch
<1> QED
  BY <1>1 DEF Books, Entry, TypeOK, Rows

LEMMA TypeNext == IInv /\ [Next]_vars => TypeOK'
<1> SUFFICES ASSUME TypeOK, Books, Dispatch, [Next]_vars PROVE TypeOK'
  BY DEF IInv
<1>1. CASE Cycle
  <2>1. [pc |-> "ready", left |-> Batch] \in Senders
    BY BoundsAssumption DEF Senders
  <2> QED
    BY <1>1, <2>1 DEF Cycle, TypeOK
<1>2. CASE Claim
  <2>1. PICK i \in 1..Len(due) :
          /\ event' = [event EXCEPT ![due[i]].state = "sending"]
          /\ sender' = [pc |-> "posting", code |-> due[i], left |-> sender.left]
    BY <1>2 DEF Claim
  <2>2. due[i] \in Codes
    BY ElementOfSeq DEF TypeOK
  <2>3. sender.left \in 1..Batch
    BY <1>2 DEF Claim, TypeOK, Senders, Idle
  <2>4. sender' \in Senders
    BY <2>1, <2>2, <2>3 DEF Senders
  <2>5. event' \in [Codes -> Events]
    BY <2>1, <2>2, EventType
  <2> QED
    BY <1>2, <2>4, <2>5 DEF Claim, TypeOK
<1>3. CASE NothingDue
  BY <1>3 DEF NothingDue, TypeOK, Idle, Senders
<1>4. CASE Loss
  BY <1>4, BoundsAssumption DEF Loss, TypeOK, Idle, Senders
<1>5. CASE Tick
  <2>1. PICK s \in SetToSeqs({c \in Codes : wait[c] = 1}) : due' = due \o s
    BY <1>5 DEF Tick
  <2>2. s \in Seq(Codes)
    BY OrderingType
  <2>3. due' \in Seq(Codes)
    BY <2>1, <2>2, ConcatProperties DEF TypeOK
  <2>4. wait' \in [Codes -> 0..MaxDelay]
    BY <1>5, BoundsAssumption DEF Tick, TypeOK
  <2> QED
    BY <1>5, <2>3, <2>4 DEF Tick, TypeOK
<1>6. ASSUME NEW c \in Codes, PlatformCompletes(c) PROVE TypeOK'
  BY <1>6 DEF PlatformCompletes, TypeOK
<1>7. ASSUME NEW c \in Codes, Complete(c) PROVE TypeOK'
  <2>1. row' \in [Codes -> Rows]
    BY <1>7 DEF Complete, TypeOK, Rows
  <2>2. event' \in [Codes -> Events] /\ due' \in Seq(Codes)
    <3>1. CASE row[c].order = NoOrder
      BY <1>7, <3>1 DEF Complete, TypeOK
    <3>2. CASE row[c].order # NoOrder
      <4>1. row[c].order \in Orders
        BY <3>2 DEF TypeOK, Rows
      <4> QED
        BY <1>7, <3>2, <4>1, EnqueueType DEF Complete
    <3> QED
      BY <3>1, <3>2
  <2> QED
    BY <1>7, <2>1, <2>2 DEF Complete, TypeOK
<1>8. ASSUME NEW c \in Codes, NEW o \in Orders, Bind(c, o) PROVE TypeOK'
  <2>1. row' \in [Codes -> Rows]
    BY <1>8 DEF Bind, TypeOK, Rows
  <2>2. event' \in [Codes -> Events] /\ due' \in Seq(Codes)
    BY <1>8, EnqueueType DEF Bind, TypeOK
  <2> QED
    BY <1>8, <2>1, <2>2 DEF Bind, TypeOK
<1>9. ASSUME NEW c \in Codes, NEW a \in BOOLEAN, NEW h \in BOOLEAN, Post(c, a, h)
      PROVE  TypeOK'
  <2>1. sender' \in Senders
    BY <1>9, SenderType DEF Post, Senders
  <2>2. received' \subseteq Codes \X Orders
    BY <1>9, Posting DEF Post, TypeOK, Sending
  <2> QED
    BY <1>9, <2>1, <2>2 DEF Post, TypeOK
<1>10. ASSUME NEW c \in Codes, Record(c) PROVE TypeOK'
  <2>1. due' \in Seq(Codes)
    BY <1>10, RemoveType DEF Record, TypeOK
  <2>2. CASE MarkSent(c)
    <3>1. event' \in [Codes -> Events]
      BY <2>2, EventType DEF MarkSent
    <3>2. sender.left \in 1..Batch
      BY <1>10, SenderType DEF Record
    <3>3. sender' \in Senders
      BY <2>2, <3>2, BoundsAssumption DEF MarkSent, Senders, Idle
    <3> QED
      BY <1>10, <2>1, <2>2, <3>1, <3>3 DEF Record, MarkSent, TypeOK
  <2>3. CASE Release(c)
    <3>1. event' \in [Codes -> Events]
      BY <2>3, EventType DEF Release
    <3>2. wait' \in [Codes -> 0..MaxDelay]
      BY <2>3, BoundsAssumption DEF Release, TypeOK
    <3>3. sender' \in Senders
      BY <2>3 DEF Release, Senders, Idle
    <3> QED
      BY <1>10, <2>1, <3>1, <3>2, <3>3 DEF Record, TypeOK
  <2> QED
    BY <1>10, <2>2, <2>3 DEF Record
<1>11. ASSUME NEW c \in Codes, LeaseExpires(c) PROVE TypeOK'
  BY <1>11, EventType DEF LeaseExpires, TypeOK
<1>12. CASE UNCHANGED vars
  BY <1>12 DEF vars, TypeOK
<1> QED
  BY <1>1, <1>2, <1>3, <1>4, <1>5, <1>6, <1>7, <1>8, <1>9, <1>10, <1>11, <1>12
  DEF Next, Delivered, Undelivered

------------------------------------------------------------------------------
\* The inductive invariant.

LEMMA InvInit == Init => IInv
<1> SUFFICES ASSUME Init PROVE IInv
  OBVIOUS
<1>1. Books
  BY DEF Init, Books, Entry
<1>2. BindingsUnique /\ CompletionIsQueued
  BY DEF Init, BindingsUnique, CompletionIsQueued
<1>3. Dispatch /\ Heard /\ ClosedIsHeard
  BY DEF Init, Idle, Dispatch, Sending, Heard, ClosedIsHeard
<1> QED
  BY <1>1, <1>2, <1>3, TypeInit DEF IInv

\* What the customers, the platform and the marketplace leave behind.
Records == Books /\ BindingsUnique /\ CompletionIsQueued

\* What the dispatcher leaves behind.
Notices == Dispatch /\ Heard /\ ClosedIsHeard

\* The dispatcher changes the state of events that exist, and nothing else.
OnlyStates == /\ row' = row /\ paid' = paid
              /\ \A c \in Codes : /\ event'[c].order = event[c].order
                                  /\ event'[c].state = "none" <=> event[c].state = "none"

LEMMA StatesKeepRecords == ASSUME Records, OnlyStates PROVE Records'
<1>1. Books'
  BY DEF Records, OnlyStates, Books, Entry
<1>2. BindingsUnique' /\ CompletionIsQueued'
  BY DEF Records, OnlyStates, BindingsUnique, CompletionIsQueued
<1> QED
  BY <1>1, <1>2 DEF Records

\* One event changes its state.
LEMMA OneState ==
  ASSUME TypeOK, NEW c \in Codes, NEW s, event' = [event EXCEPT ![c].state = s]
  PROVE  /\ event'[c].state = s
         /\ \A d \in Codes : event'[d].order = event[d].order
         /\ \A d \in Codes \ {c} : event'[d] = event[d]
  BY DEF TypeOK, Events

\* A new event is of a code bound to its order that no other code is bound to, and
\* the dispatcher has not seen it.
LEMMA EnqueueIs ==
  ASSUME TypeOK, NEW c \in Codes, NEW o \in Orders, Enqueue(c, o)
  PROVE  /\ event'[c].state # "none" /\ event'[c].order = o
         /\ \A d \in Codes \ {c} : event'[d] = event[d]
         /\ event[c].state # "none" => event' = event
         /\ event[c].state = "none" => event'[c].state = "pending"
  BY DEF Enqueue, TypeOK, Events

LEMMA EnqueueKeepsNotices ==
  ASSUME TypeOK, Books, Notices, NEW c \in Codes, NEW o \in Orders, Enqueue(c, o),
         UNCHANGED <<sender, received>>
  PROVE  Notices'
<1>1. CASE event[c].state # "none"
  <2>1. event' = event
    BY <1>1, EnqueueIs
  <2> QED
    BY <2>1 DEF Notices, Dispatch, Sending, Heard, ClosedIsHeard
<1>2. CASE event[c].state = "none"
  <2>1. event'[c].state = "pending" /\ \A d \in Codes \ {c} : event'[d] = event[d]
    BY <1>2, EnqueueIs
  <2>2. Dispatch'
    BY <1>2, <2>1 DEF Notices, Dispatch, Sending
  <2>3. \A n \in received : n[1] # c
    BY <1>2, OrdersAssumption DEF Notices, Heard, Books, Entry, TypeOK
  <2>4. Heard'
    BY <2>1, <2>3 DEF Notices, Heard, TypeOK
  <2>5. ClosedIsHeard'
    BY <2>1 DEF Notices, ClosedIsHeard
  <2> QED
    BY <2>2, <2>4, <2>5 DEF Notices
<1> QED
  BY <1>1, <1>2

LEMMA QuietKeepsNotices == ASSUME Notices, UNCHANGED <<event, sender, received>> PROVE Notices'
  BY DEF Notices, Dispatch, Sending, Heard, ClosedIsHeard

------------------------------------------------------------------------------
\* One lemma per action that writes what the invariant speaks of.

LEMMA CompleteStep ==
  ASSUME TypeOK, Records, Notices, NEW c \in Codes, Complete(c)
  PROVE  Records' /\ Notices'
<1>1. /\ row'[c].status = "consumed" /\ row'[c].proven /\ row'[c].order = row[c].order
      /\ \A d \in Codes \ {c} : row'[d] = row[d]
      /\ paid' = paid /\ c \in paid
  BY DEF Complete, TypeOK, Rows
<1>2. \A d \in Codes : row'[d].order = row[d].order
  BY <1>1
<1>3. BindingsUnique'
  BY <1>2 DEF Records, BindingsUnique
<1>4. CASE row[c].order = NoOrder
  <2>1. event' = event /\ UNCHANGED <<sender, received>>
    BY <1>4 DEF Complete
  <2>2. Books'
    <3> SUFFICES ASSUME NEW d \in Codes PROVE Entry(d)'
      BY DEF Books
    <3>1. CASE d = c
      BY <1>1, <2>1, <3>1 DEF Records, Books, Entry
    <3>2. CASE d # c
      BY <1>1, <2>1, <3>2 DEF Records, Books, Entry
    <3> QED
      BY <3>1, <3>2
  <2>3. CompletionIsQueued'
    BY <1>1, <1>4, <2>1 DEF Records, CompletionIsQueued
  <2> QED
    BY <1>3, <2>1, <2>2, <2>3, QuietKeepsNotices DEF Records
<1>5. CASE row[c].order # NoOrder
  <2>1. row[c].order \in Orders
    BY <1>5 DEF TypeOK, Rows
  <2>2. Enqueue(c, row[c].order) /\ UNCHANGED <<sender, received>>
    BY <1>5 DEF Complete
  <2>3. /\ event'[c].state # "none" /\ event'[c].order = row[c].order
        /\ \A d \in Codes \ {c} : event'[d] = event[d]
    BY <2>1, <2>2, EnqueueIs
  <2>4. Books'
    <3> SUFFICES ASSUME NEW d \in Codes PROVE Entry(d)'
      BY DEF Books
    <3>1. CASE d = c
      BY <1>1, <1>5, <2>3, <3>1 DEF Entry
    <3>2. CASE d # c
      BY <1>1, <2>3, <3>2 DEF Records, Books, Entry
    <3> QED
      BY <3>1, <3>2
  <2>5. CompletionIsQueued'
    BY <1>1, <2>3 DEF Records, CompletionIsQueued
  <2>6. Notices'
    BY <2>1, <2>2, EnqueueKeepsNotices DEF Records
  <2> QED
    BY <1>3, <2>4, <2>5, <2>6 DEF Records
<1> QED
  BY <1>4, <1>5

LEMMA BindStep ==
  ASSUME TypeOK, Records, Notices, NEW c \in Codes, NEW o \in Orders, Bind(c, o)
  PROVE  Records' /\ Notices'
<1>1. /\ row'[c].status = row[c].status /\ row'[c].proven = row[c].proven
      /\ row'[c].order = o /\ \A d \in Codes \ {c} : row'[d] = row[d]
      /\ paid' = paid /\ o # NoOrder
  BY OrdersAssumption DEF Bind, TypeOK, Rows
<1>2. /\ row[c].order \in {NoOrder, o} /\ \A d \in Codes : row[d].order = o => d = c
      /\ row[c].status = "consumed" => row[c].proven
  BY DEF Bind, MayBind
<1>3. BindingsUnique'
  BY <1>1, <1>2 DEF Records, BindingsUnique
<1>4. CASE row[c].status # "consumed"
  <2>1. event' = event /\ UNCHANGED <<sender, received>>
    BY <1>4 DEF Bind
  <2>2. event[c].state = "none"
    BY <1>4 DEF Records, Books, Entry
  <2>3. Books'
    <3> SUFFICES ASSUME NEW d \in Codes PROVE Entry(d)'
      BY DEF Books
    <3>1. CASE d = c
      BY <1>1, <2>1, <2>2, <3>1 DEF Records, Books, Entry
    <3>2. CASE d # c
      BY <1>1, <2>1, <3>2 DEF Records, Books, Entry
    <3> QED
      BY <3>1, <3>2
  <2>4. CompletionIsQueued'
    BY <1>1, <1>4, <2>1 DEF Records, CompletionIsQueued
  <2> QED
    BY <1>3, <2>1, <2>3, <2>4, QuietKeepsNotices DEF Records
<1>5. CASE row[c].status = "consumed"
  <2>1. Enqueue(c, o) /\ UNCHANGED <<sender, received>>
    BY <1>5 DEF Bind
  <2>2. /\ event'[c].state # "none" /\ event'[c].order = o
        /\ \A d \in Codes \ {c} : event'[d] = event[d]
    BY <2>1, EnqueueIs
  <2>3. Books'
    <3> SUFFICES ASSUME NEW d \in Codes PROVE Entry(d)'
      BY DEF Books
    <3>1. CASE d = c
      BY <1>1, <1>2, <1>5, <2>2, <3>1 DEF Records, Books, Entry
    <3>2. CASE d # c
      BY <1>1, <2>2, <3>2 DEF Records, Books, Entry
    <3> QED
      BY <3>1, <3>2
  <2>4. CompletionIsQueued'
    BY <1>1, <2>2 DEF Records, CompletionIsQueued
  <2>5. Notices'
    BY <2>1, EnqueueKeepsNotices DEF Records
  <2> QED
    BY <1>3, <2>3, <2>4, <2>5 DEF Records
<1> QED
  BY <1>4, <1>5

LEMMA ClaimStep == ASSUME TypeOK, Records, Notices, Claim PROVE Records' /\ Notices'
<1>1. PICK i \in 1..Len(due) :
        /\ Claimable(due[i])
        /\ event' = [event EXCEPT ![due[i]].state = "sending"]
        /\ sender' = [pc |-> "posting", code |-> due[i], left |-> sender.left]
  BY DEF Claim
<1> DEFINE c == due[i]
<1>2. c \in Codes
  BY ElementOfSeq DEF TypeOK
<1> HIDE DEF c
<1>3. Claimable(c) /\ event' = [event EXCEPT ![c].state = "sending"]
      /\ sender'.pc = "posting" /\ sender'.code = c
  BY <1>1 DEF c
<1>4. /\ event'[c].state = "sending" /\ \A d \in Codes : event'[d].order = event[d].order
      /\ \A d \in Codes \ {c} : event'[d] = event[d]
  BY <1>2, <1>3, OneState
<1>5. event[c].state \in {"pending", "stale"}
  BY <1>3 DEF Claimable
<1>6. OnlyStates
  BY <1>4, <1>5 DEF Claim, OnlyStates
<1>7. Dispatch'
  BY <1>3, <1>4 DEF Dispatch, Sending
<1>8. Heard'
  BY <1>4 DEF Claim, Notices, Heard, TypeOK
<1>9. ClosedIsHeard'
  BY <1>4 DEF Claim, Notices, ClosedIsHeard
<1> QED
  BY <1>6, <1>7, <1>8, <1>9, StatesKeepRecords DEF Notices

LEMMA PostStep ==
  ASSUME TypeOK, Records, Notices, NEW c \in Codes, NEW a \in BOOLEAN, NEW h \in BOOLEAN,
         h => a, Post(c, a, h)
  PROVE  Records' /\ Notices'
<1>1. event' = event /\ OnlyStates
  BY DEF Post, OnlyStates
<1>2. event[c].state = "sending"
  BY DEF Post, Notices, Dispatch, Sending
<1>3. received \subseteq received' /\ (a => <<c, event[c].order>> \in received')
  BY DEF Post
<1>4. sender'.pc = "answered" /\ sender'.code = c /\ sender'.ok = h
  BY DEF Post
<1>5. Dispatch'
  BY <1>1, <1>2, <1>3, <1>4 DEF Dispatch, Sending
<1>6. Heard'
  BY <1>1 DEF Post, Notices, Heard
<1>7. ClosedIsHeard'
  BY <1>1, <1>3 DEF Notices, ClosedIsHeard
<1> QED
  BY <1>1, <1>5, <1>6, <1>7, StatesKeepRecords DEF Notices

LEMMA RecordStep == ASSUME TypeOK, Records, Notices, NEW c \in Codes, Record(c)
                    PROVE  Records' /\ Notices'
<1>1. /\ event[c].state = "sending"
      /\ sender.ok => <<c, event[c].order>> \in received
  BY DEF Record, Notices, Dispatch, Sending
<1>2. row' = row /\ paid' = paid /\ received' = received
  BY DEF Record
<1>3. /\ event'[c].state = IF sender.ok THEN "sent" ELSE "pending"
      /\ \A d \in Codes : event'[d].order = event[d].order
      /\ \A d \in Codes \ {c} : event'[d] = event[d]
  <2>1. CASE sender.ok
    <3>1. event' = [event EXCEPT ![c].state = "sent"]
      BY <2>1 DEF Record, MarkSent
    <3> QED
      BY <2>1, <3>1, OneState
  <2>2. CASE ~sender.ok
    <3>1. event' = [event EXCEPT ![c].state = "pending"]
      BY <2>2 DEF Record, Release
    <3> QED
      BY <2>2, <3>1, OneState
  <2> QED
    BY <2>1, <2>2
<1>4. sender'.pc \in {"ready", "idle"}
  BY DEF Record, MarkSent, Release, Idle
<1>5. OnlyStates
  BY <1>1, <1>2, <1>3 DEF OnlyStates
<1>6. Dispatch'
  BY <1>4 DEF Dispatch, Sending
<1>7. Heard'
  BY <1>2, <1>3 DEF Notices, Heard, TypeOK
<1>8. ClosedIsHeard'
  BY <1>1, <1>2, <1>3 DEF Notices, ClosedIsHeard
<1> QED
  BY <1>5, <1>6, <1>7, <1>8, StatesKeepRecords DEF Notices

LEMMA LeaseStep == ASSUME TypeOK, Records, Notices, NEW c \in Codes, LeaseExpires(c)
                   PROVE  Records' /\ Notices'
<1>1. /\ event[c].state = "sending" /\ ~Sending(c)
      /\ UNCHANGED <<row, paid, sender, received>>
  BY DEF LeaseExpires
<1>2. /\ event'[c].state = "stale" /\ \A d \in Codes : event'[d].order = event[d].order
      /\ \A d \in Codes \ {c} : event'[d] = event[d]
  BY OneState DEF LeaseExpires
<1>3. OnlyStates
  BY <1>1, <1>2 DEF OnlyStates
<1>4. Dispatch'
  BY <1>1, <1>2 DEF Notices, Dispatch, Sending
<1>5. Heard'
  BY <1>1, <1>2 DEF Notices, Heard, TypeOK
<1>6. ClosedIsHeard'
  BY <1>1, <1>2 DEF Notices, ClosedIsHeard
<1> QED
  BY <1>3, <1>4, <1>5, <1>6, StatesKeepRecords DEF Notices

\* A step of the dispatcher that writes nothing.
LEMMA SenderOnly ==
  ASSUME Records, Notices, UNCHANGED <<paid, row, event, received>>,
         sender'.pc \in {"idle", "ready"}
  PROVE  Records' /\ Notices'
<1>1. OnlyStates
  BY DEF OnlyStates
<1>2. Dispatch'
  BY DEF Dispatch, Sending
<1>3. Heard' /\ ClosedIsHeard'
  BY DEF Notices, Heard, ClosedIsHeard
<1> QED
  BY <1>1, <1>2, <1>3, StatesKeepRecords DEF Notices

LEMMA InvNext == IInv /\ [Next]_vars => IInv'
<1> SUFFICES ASSUME IInv, [Next]_vars PROVE Records' /\ Notices'
  BY TypeNext DEF IInv, Records, Notices
<1>1. TypeOK /\ Records /\ Notices
  BY DEF IInv, Records, Notices
<1>2. ASSUME NEW c \in Codes, PlatformCompletes(c) PROVE Records' /\ Notices'
  <2>1. row' = row /\ event' = event /\ paid \subseteq paid'
    BY <1>2 DEF PlatformCompletes
  <2>2. Records'
    BY <1>1, <2>1 DEF Records, Books, Entry, BindingsUnique, CompletionIsQueued
  <2> QED
    BY <1>1, <1>2, <2>2, QuietKeepsNotices DEF PlatformCompletes
<1>3. CASE Cycle \/ NothingDue \/ Loss
  BY <1>1, <1>3, SenderOnly DEF Cycle, NothingDue, Loss, Idle
<1>4. CASE Tick \/ UNCHANGED vars
  <2>1. OnlyStates /\ UNCHANGED <<event, sender, received>>
    BY <1>4 DEF Tick, vars, OnlyStates
  <2> QED
    BY <1>1, <2>1, StatesKeepRecords, QuietKeepsNotices
<1>5. ASSUME NEW c \in Codes, Delivered(c) \/ Undelivered(c) PROVE Records' /\ Notices'
  BY <1>1, <1>5, PostStep DEF Delivered, Undelivered
<1> QED
  BY <1>1, <1>2, <1>3, <1>4, <1>5, ClaimStep, CompleteStep, BindStep, RecordStep, LeaseStep
  DEF Next

------------------------------------------------------------------------------
\* The theorems.

LEMMA InvHolds == Spec => []IInv
  BY InvInit, InvNext, PTL DEF Spec

\* Every variable of the outbox keeps its type, for any sets of codes and orders.
THEOREM TypeCorrect == Spec => []TypeOK
<1>1. IInv => TypeOK
  BY DEF IInv
<1> QED
  BY <1>1, InvHolds, PTL

\* A bound and proven completion has its event, whether the binding or the completion
\* came first.
THEOREM Queued == Spec => []CompletionIsQueued
<1>1. IInv => CompletionIsQueued
  BY DEF IInv
<1> QED
  BY <1>1, InvHolds, PTL

\* The marketplace hears only of proven and paid completions of the codes its orders
\* were sold by.
THEOREM Verified == Spec => []OnlyVerifiedCompletions
<1>1. IInv => OnlyVerifiedCompletions
  <2> SUFFICES ASSUME IInv, NEW n \in received
               PROVE  n[1] \in paid /\ row[n[1]].proven /\ row[n[1]].order = n[2]
    BY DEF OnlyVerifiedCompletions
  <2>1. n[1] \in Codes /\ n[2] \in Orders /\ event[n[1]].order = n[2]
    BY DEF IInv, TypeOK, Heard
  <2>2. event[n[1]].state # "none"
    BY <2>1, OrdersAssumption DEF IInv, Books, Entry
  <2> QED
    BY <2>1, <2>2 DEF IInv, Books, Entry
<1> QED
  BY <1>1, InvHolds, PTL

------------------------------------------------------------------------------
\* The outbox implements NoticePromise.

owedNow   == {n \in Codes \X Orders : event[n[1]].order = n[2]}
closedNow == {n \in Codes \X Orders : event[n[1]] = [state |-> "sent", order |-> n[2]]}

LEMMA ClosedAre ==
  ASSUME TypeOK, NEW c \in Codes, NEW o \in Orders
  PROVE  <<c, o>> \in closedNow <=> event[c].state = "sent" /\ event[c].order = o
  BY DEF TypeOK, Events, closedNow

LEMMA NoticeInit == Init => NP!Init
<1> SUFFICES ASSUME Init PROVE NP!Init
  OBVIOUS
<1>1. \A c \in Codes : event[c].state = "none" /\ event[c].order = NoOrder
  BY DEF Init
<1>2. owedNow = {}
  BY <1>1, OrdersAssumption DEF owedNow
<1>3. closedNow = {}
  BY <1>1 DEF closedNow
<1> QED
  BY <1>2, <1>3 DEF NP!Init, owedNow, closedNow, Init

\* The marketplace is not concerned.
LEMMA NoticeStutter ==
  ASSUME TypeOK, TypeOK', received' = received,
         \A c \in Codes : /\ event'[c].order = event[c].order
                          /\ event'[c].state = "sent" <=> event[c].state = "sent"
  PROVE  UNCHANGED NP!vars
<1>1. owedNow' = owedNow
  BY DEF owedNow
<1>2. \A c \in Codes, o \in Orders : <<c, o>> \in closedNow' <=> <<c, o>> \in closedNow
  <2> SUFFICES ASSUME NEW c \in Codes, NEW o \in Orders
               PROVE  <<c, o>> \in closedNow' <=> <<c, o>> \in closedNow
    OBVIOUS
  <2>1. <<c, o>> \in closedNow <=> event[c].state = "sent" /\ event[c].order = o
    BY ClosedAre
  <2>2. <<c, o>> \in closedNow' <=> event'[c].state = "sent" /\ event'[c].order = o
    BY DEF TypeOK, Events, closedNow
  <2> QED
    BY <2>1, <2>2
<1>3. closedNow' = closedNow
  <2>1. closedNow \subseteq Codes \X Orders /\ closedNow' \subseteq Codes \X Orders
    BY DEF closedNow
  <2> QED
    BY <1>2, <2>1
<1> QED
  BY <1>1, <1>3 DEF NP!vars, owedNow, closedNow

\* A new event is a new debt.
LEMMA EnqueueOwes ==
  ASSUME TypeOK, TypeOK', Records, NEW c \in Codes, NEW o \in Orders, Enqueue(c, o),
         \A d \in Codes : row[d].order = o => d = c, received' = received
  PROVE  NP!Next \/ UNCHANGED NP!vars
<1>1. CASE event[c].state # "none"
  BY <1>1, EnqueueIs, NoticeStutter
<1>2. CASE event[c].state = "none"
  <2>1. /\ event'[c].state = "pending" /\ event'[c].order = o
        /\ \A d \in Codes \ {c} : event'[d] = event[d]
    BY <1>2, EnqueueIs
  <2>2. event[c].order = NoOrder
    BY <1>2 DEF Records, Books, Entry
  <2>3. \A n \in owedNow : n[1] # c /\ n[2] # o
    <3> SUFFICES ASSUME NEW n \in owedNow PROVE n[1] # c /\ n[2] # o
      OBVIOUS
    <3>1. n[1] \in Codes /\ n[2] \in Orders /\ event[n[1]].order = n[2]
      BY DEF owedNow
    <3>2. n[1] # c
      BY <2>2, <3>1, OrdersAssumption
    <3>3. row[n[1]].order = n[2]
      BY <3>1, OrdersAssumption DEF Records, Books, Entry
    <3> QED
      BY <3>1, <3>2, <3>3
  <2>4. owedNow' = owedNow \cup {<<c, o>>}
    BY <2>1, <2>2, OrdersAssumption DEF owedNow
  <2>5. closedNow' = closedNow
    BY <1>2, <2>1 DEF closedNow
  <2>6. NP!Owe(c, o)
    BY <2>3, <2>4, <2>5 DEF NP!Owe, owedNow, closedNow
  <2> QED
    BY <2>6 DEF NP!Next
<1> QED
  BY <1>1, <1>2

\* An acceptance is a notice given.
LEMMA PostTells ==
  ASSUME TypeOK, TypeOK', Records, Notices, NEW c \in Codes,
         NEW a \in BOOLEAN, NEW h \in BOOLEAN, Post(c, a, h)
  PROVE  NP!Next \/ UNCHANGED NP!vars
<1>1. CASE a
  <2>1. event[c].order \in Orders
    BY Posting DEF Records, Notices, Post, Sending
  <2>2. <<c, event[c].order>> \in owedNow
    BY <2>1 DEF owedNow
  <2>3. received' = received \cup {<<c, event[c].order>>} /\ event' = event
    BY <1>1 DEF Post
  <2>4. NP!Tell(c, event[c].order)
    BY <2>2, <2>3 DEF NP!Tell, owedNow
  <2> QED
    BY <2>1, <2>4 DEF NP!Next
<1>2. CASE ~a
  BY <1>2, NoticeStutter DEF Post
<1> QED
  BY <1>1, <1>2

\* An event marked as sent is a debt closed.
LEMMA RecordCloses ==
  ASSUME TypeOK, TypeOK', Records, Notices, NEW c \in Codes, Record(c)
  PROVE  NP!Next \/ UNCHANGED NP!vars
<1>1. event[c].state = "sending" /\ received' = received
  BY DEF Record, Notices, Dispatch, Sending
<1>2. CASE sender.ok
  <2>1. event' = [event EXCEPT ![c].state = "sent"]
    BY <1>2 DEF Record, MarkSent
  <2>2. <<c, event[c].order>> \in received
    BY <1>2 DEF Record, Notices, Dispatch, Sending
  <2>3. PICK o \in Orders : event[c].order = o
    BY <2>2 DEF TypeOK
  <2>4. /\ event'[c] = [state |-> "sent", order |-> o]
        /\ \A d \in Codes \ {c} : event'[d] = event[d]
    BY <2>1, <2>3 DEF TypeOK, Events
  <2>5. owedNow' = owedNow
    BY <2>3, <2>4 DEF owedNow
  <2>6. closedNow' = closedNow \cup {<<c, o>>}
    BY <1>1, <2>3, <2>4 DEF closedNow
  <2>7. NP!Close(c, o)
    BY <1>1, <2>2, <2>3, <2>5, <2>6 DEF NP!Close, owedNow, closedNow
  <2> QED
    BY <2>7 DEF NP!Next
<1>3. CASE ~sender.ok
  <2>1. event' = [event EXCEPT ![c].state = "pending"]
    BY <1>3 DEF Record, Release
  <2>2. \A d \in Codes : /\ event'[d].order = event[d].order
                         /\ event'[d].state = "sent" <=> event[d].state = "sent"
    BY <1>1, <2>1, OneState
  <2> QED
    BY <1>1, <2>2, NoticeStutter
<1> QED
  BY <1>2, <1>3

LEMMA NoticeStep == IInv /\ IInv' /\ [Next]_vars => NP!Next \/ UNCHANGED NP!vars
<1> SUFFICES ASSUME IInv, IInv', [Next]_vars PROVE NP!Next \/ UNCHANGED NP!vars
  OBVIOUS
<1>1. TypeOK /\ TypeOK' /\ Records /\ Notices
  BY DEF IInv, Records, Notices
<1>2. ASSUME UNCHANGED <<event, received>> PROVE UNCHANGED NP!vars
  BY <1>1, <1>2, NoticeStutter
<1>3. CASE Cycle \/ NothingDue \/ Loss \/ Tick \/ UNCHANGED vars
  BY <1>2, <1>3 DEF Cycle, NothingDue, Loss, Tick, vars
<1>4. ASSUME NEW c \in Codes, PlatformCompletes(c) PROVE UNCHANGED NP!vars
  BY <1>2, <1>4 DEF PlatformCompletes
<1>5. CASE Claim
  <2>1. PICK i \in 1..Len(due) : /\ Claimable(due[i])
                                 /\ event' = [event EXCEPT ![due[i]].state = "sending"]
    BY <1>5 DEF Claim
  <2>2. due[i] \in Codes
    BY <1>1, ElementOfSeq DEF TypeOK
  <2>3. \A d \in Codes : /\ event'[d].order = event[d].order
                         /\ event'[d].state = "sent" <=> event[d].state = "sent"
    BY <1>1, <2>1, <2>2, OneState DEF Claimable
  <2> QED
    BY <1>1, <1>5, <2>3, NoticeStutter DEF Claim
<1>6. ASSUME NEW c \in Codes, LeaseExpires(c) PROVE UNCHANGED NP!vars
  <2>1. \A d \in Codes : /\ event'[d].order = event[d].order
                         /\ event'[d].state = "sent" <=> event[d].state = "sent"
    BY <1>1, <1>6, OneState DEF LeaseExpires
  <2> QED
    BY <1>1, <1>6, <2>1, NoticeStutter DEF LeaseExpires
<1>7. ASSUME NEW c \in Codes, Complete(c) PROVE NP!Next \/ UNCHANGED NP!vars
  <2>1. CASE row[c].order = NoOrder
    BY <1>2, <1>7, <2>1 DEF Complete
  <2>2. CASE row[c].order # NoOrder
    <3>1. row[c].order \in Orders
      BY <1>1, <2>2 DEF TypeOK, Rows
    <3>2. \A d \in Codes : row[d].order = row[c].order => d = c
      BY <1>1, <2>2 DEF Records, BindingsUnique
    <3> QED
      BY <1>1, <1>7, <2>2, <3>1, <3>2, EnqueueOwes DEF Complete
  <2> QED
    BY <2>1, <2>2
<1>8. ASSUME NEW c \in Codes, NEW o \in Orders, Bind(c, o)
      PROVE  NP!Next \/ UNCHANGED NP!vars
  <2>1. CASE row[c].status = "consumed"
    BY <1>1, <1>8, <2>1, EnqueueOwes DEF Bind, MayBind
  <2>2. CASE row[c].status # "consumed"
    BY <1>2, <1>8, <2>2 DEF Bind
  <2> QED
    BY <2>1, <2>2
<1>9. ASSUME NEW c \in Codes, Delivered(c) \/ Undelivered(c)
      PROVE  NP!Next \/ UNCHANGED NP!vars
  BY <1>1, <1>9, PostTells DEF Delivered, Undelivered
<1> QED
  BY <1>1, <1>3, <1>4, <1>5, <1>6, <1>7, <1>8, <1>9, RecordCloses DEF Next

\* The outbox is an at-least-once channel, with any number of codes, orders, crashes
\* and lost answers.
THEOREM OutboxKeepsPromise == Spec => KeepsNoticePromise
<1>1. IInv /\ IInv' /\ [Next]_vars => [NP!Next]_(NP!vars)
  BY NoticeStep
<1> QED
  BY NoticeInit, InvHolds, <1>1, PTL DEF Spec, KeepsNoticePromise, NP!Spec
=============================================================================
