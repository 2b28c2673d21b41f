---------------------------- MODULE ManagedProofs ----------------------------
(***************************************************************************)
(* Theorems of ManagedActivation: one call per attempt, an attempt offered *)
(* again has no task, and a completed code keeps its date.                 *)
(***************************************************************************)
EXTENDS ManagedActivation, TLAPS

Busy(r) == redeem[r].pc \in {"calling", "answered"}
Untried(r) == \/ redeem[r].pc = "calling"
              \/ redeem[r].pc = "answered" /\ SafeRetry(redeem[r].answer)

\* A request on its way holds the claim of the row, unless the row has passed to
\* another attempt.
ClaimIsHeld == \A r \in Requests : Busy(r) /\ row.attempt = redeem[r].attempt => row.claimed

\* Two requests on their way are of different attempts.
RequestsApart == \A r, s \in Requests :
  Busy(r) /\ Busy(s) /\ r # s => redeem[r].attempt # redeem[s].attempt

\* A request that has created nothing is of an attempt that has created nothing.
UntriedHasNoTask == \A r \in Requests : Untried(r) => task[redeem[r].attempt] = NoTask

\* A token not yet issued has left no trace.
TokensAreFresh == \A a \in Attempts : visit[a] # "begun" =>
  /\ row.attempt # a /\ task[a] = NoTask
  /\ \A r \in Requests : Busy(r) => redeem[r].attempt # a

CompletedHasTime == row.status = "completed" => row.activated > 0

IInv == /\ TypeOK /\ ClaimIsHeld /\ RequestsApart /\ UntriedHasNoTask
        /\ TokensAreFresh /\ NotSubmittedIsTrue /\ CompletedHasTime

------------------------------------------------------------------------------
\* Typing.

USE DEF Nobody, OldPage, NoTask, Owners, TaskStates, Statuses, Answers

LEMMA TypeInit == Init => TypeOK
  BY TimesAssumption
     DEF Init, TypeOK, NoRow, Rows, IdleRequest, Submissions, IdleQuery, Queries

\* The parts of the row that every writer assembles.
LEMMA BeginType == ASSUME TypeOK, NEW a \in Attempts \cup Nobody, Begin(a)
                   PROVE  row' \in Rows
  BY DEF TypeOK, Begin, NoRow, Rows

LEMMA RecordType == ASSUME TypeOK, NEW a, NEW answer, NEW id \in Owners \cup {NoTask}
                    PROVE  Released(a) \in Rows /\ Recorded(a, answer, id) \in Rows
<1>1. Released(a) \in Rows
  BY DEF TypeOK, Released, Rows
<1>2. [row EXCEPT !.task = id, !.status = "review"] \in Rows
  BY DEF TypeOK, Rows
<1>3. [row EXCEPT !.task = id, !.status = "submitted"] \in Rows
  BY DEF TypeOK, Rows
<1> QED
  BY <1>1, <1>2, <1>3 DEF TypeOK, Recorded

LEMMA TypeNext == TypeOK /\ [Next]_vars => TypeOK'
<1> SUFFICES ASSUME TypeOK, [Next]_vars PROVE TypeOK'
  OBVIOUS
<1> USE DEF TypeOK
<1>1. ASSUME UNCHANGED vars PROVE TypeOK'
  BY <1>1 DEF vars
<1>2. ASSUME ProviderSettles PROVE TypeOK'
  BY <1>2 DEF ProviderSettles
<1>3. ASSUME OldPageSubmits PROVE TypeOK'
  BY <1>3 DEF OldPageSubmits, NewTask
<1>4. ASSUME HistoryImport PROVE TypeOK'
  BY <1>4 DEF HistoryImport, ImportedRow, Rows
<1>5. ASSUME Crash PROVE TypeOK'
  BY <1>5 DEF Crash, Submissions, Queries
<1>6. ASSUME NEW a \in Attempts, PreviewVerify(a) PROVE TypeOK'
  BY <1>6 DEF PreviewVerify
<1>7. ASSUME NEW a \in Attempts, PreviewBegin(a) PROVE TypeOK'
  BY <1>7, BeginType DEF PreviewBegin
<1>8. ASSUME NEW a \in Attempts, Preflight(a) PROVE TypeOK'
  BY <1>8 DEF Preflight, Rows
<1>9. ASSUME NEW r \in Requests, CreateTask(r) PROVE TypeOK'
  <2>1. redeem[r] \in [pc : {"calling"}, attempt : Attempts]
    BY <1>9 DEF CreateTask, Submissions, IdleRequest
  <2>2. \A answer \in Answers, id \in Owners \cup {NoTask} :
          Answer(r, answer, id) => redeem' \in [Requests -> Submissions]
    BY <2>1 DEF Answer, Submissions
  <2>3. redeem' \in [Requests -> Submissions]
    BY <1>9, <2>1, <2>2 DEF CreateTask
  <2> QED
    BY <1>9, <2>1, <2>3 DEF CreateTask, NewTask
<1>10. ASSUME NEW r \in Requests, RedeemRecord(r) PROVE TypeOK'
  <2>1. redeem[r] \in [pc : {"answered"}, attempt : Attempts, answer : Answers,
                       task : Owners \cup {NoTask}]
    BY <1>10 DEF RedeemRecord, Submissions, IdleRequest
  <2>2. row' \in Rows
    BY <1>10, <2>1, RecordType DEF RedeemRecord
  <2>3. redeem' \in [Requests -> Submissions]
    BY <1>10 DEF RedeemRecord, Submissions
  <2> QED
    BY <1>10, <2>2, <2>3 DEF RedeemRecord
<1>11. ASSUME NEW r \in Requests, NEW a \in Attempts, RedeemClaim(r, a) PROVE TypeOK'
  BY <1>11 DEF RedeemClaim, Rows, Submissions
<1>12. ASSUME NEW l \in Lookups, QueryRead(l) PROVE TypeOK'
  BY <1>12 DEF QueryRead, Queries
<1>13. ASSUME NEW l \in Lookups, QueryAnswer(l) PROVE TypeOK'
  <2>1. latest \in Owners /\ task[latest] \in TaskStates
    BY <1>13 DEF QueryAnswer
  <2> QED
    BY <1>13, <2>1 DEF QueryAnswer, Queries
<1>14. ASSUME NEW l \in Lookups, QueryEnds(l) PROVE TypeOK'
  BY <1>14 DEF QueryEnds, Queries
<1>15. ASSUME NEW l \in Lookups, QueryImport(l) PROVE TypeOK'
  <2>1. query[l] \in [pc : {"import", "record"}, task : Owners, state : TaskStates]
    BY <1>15 DEF QueryImport, Queries, IdleQuery
  <2>2. query' \in [Lookups -> Queries]
    BY <1>15, <2>1 DEF QueryImport, Queries
  <2> QED
    BY <1>15, <2>2, BeginType DEF QueryImport
<1>16. ASSUME NEW l \in Lookups, QueryRecord(l) PROVE TypeOK'
  <2>1. query[l] \in [pc : {"import", "record"}, task : Owners, state : TaskStates]
    BY <1>16 DEF QueryRecord, Queries, IdleQuery
  <2> QED
    BY <1>16, <2>1 DEF QueryRecord, WithResult, Rows, Queries
<1> QED
  BY <1>1, <1>2, <1>3, <1>4, <1>5, <1>6, <1>7, <1>8, <1>9, <1>10, <1>11, <1>12, <1>13,
     <1>14, <1>15, <1>16 DEF Next


------------------------------------------------------------------------------
\* The inductive invariant.

LEMMA InvInit == Init => IInv
<1> SUFFICES ASSUME Init PROVE IInv
  OBVIOUS
<1>1. TypeOK
  BY TypeInit
<1>2. \A r \in Requests : ~Busy(r) /\ ~Untried(r)
  BY DEF Init, IdleRequest, Busy, Untried
<1>3. TokensAreFresh /\ NotSubmittedIsTrue /\ CompletedHasTime
  BY <1>2, AttemptsAssumption DEF Init, NoRow, TokensAreFresh, NotSubmittedIsTrue, CompletedHasTime
<1> QED
  BY <1>1, <1>2, <1>3 DEF IInv, ClaimIsHeld, RequestsApart, UntriedHasNoTask

\* What a step does to the requests, the tasks and the row decides the invariant:
\* no request gets busy, no attempt gets a task, the row keeps its claim.
LEMMA Undisturbed ==
  ASSUME IInv, TypeOK', CompletedHasTime',
         \A a \in Attempts : visit'[a] # "begun" => visit[a] # "begun",
         \A r \in Requests : Busy(r)' => Busy(r) /\ redeem'[r] = redeem[r],
         \A a \in Attempts : task'[a] = NoTask <=> task[a] = NoTask,
         \A a \in Attempts : row'.attempt = a =>
            row.attempt = a /\ (row.claimed => row'.claimed)
  PROVE  IInv'
<1> USE DEF IInv
<1>1. \A r \in Requests : Busy(r)' => redeem[r].attempt \in Attempts
  BY DEF TypeOK, Busy, Submissions, IdleRequest
<1>2. ClaimIsHeld'
  BY <1>1 DEF ClaimIsHeld
<1>3. RequestsApart'
  BY DEF RequestsApart
<1>4. UntriedHasNoTask'
  <2> SUFFICES ASSUME NEW r \in Requests, Untried(r)' PROVE task'[redeem'[r].attempt] = NoTask
    BY DEF UntriedHasNoTask
  <2>1. Busy(r)'
    BY DEF Untried, Busy
  <2>2. Untried(r)
    BY <2>1 DEF Untried
  <2> QED
    BY <1>1, <2>1, <2>2 DEF UntriedHasNoTask
<1>5. TokensAreFresh'
  <2> SUFFICES ASSUME NEW a \in Attempts, visit'[a] # "begun"
               PROVE  /\ row'.attempt # a /\ task'[a] = NoTask
                      /\ \A r \in Requests : Busy(r)' => redeem'[r].attempt # a
    BY DEF TokensAreFresh
  <2>1. visit[a] # "begun"
    OBVIOUS
  <2> QED
    BY <2>1 DEF TokensAreFresh
<1>6. NotSubmittedIsTrue'
  BY DEF NotSubmittedIsTrue, TypeOK, Rows
<1> QED
  BY <1>2, <1>3, <1>4, <1>5, <1>6

LEMMA TimedNext == TypeOK /\ CompletedHasTime /\ [Next]_vars => CompletedHasTime'
<1> SUFFICES ASSUME TypeOK, CompletedHasTime, [Next]_vars PROVE CompletedHasTime'
  OBVIOUS
<1> USE TimesAssumption DEF CompletedHasTime
<1>1. CASE row' = row
  BY <1>1
<1>2. ASSUME NEW a, Begin(a) PROVE CompletedHasTime'
  BY <1>2 DEF Begin, NoRow
<1>3. CASE HistoryImport
  BY <1>3 DEF HistoryImport, ImportedRow, TypeOK, Rows
<1>4. ASSUME NEW a \in Attempts, Preflight(a) PROVE CompletedHasTime'
  BY <1>4 DEF Preflight, TypeOK, Rows
<1>5. ASSUME NEW r \in Requests, NEW a \in Attempts, RedeemClaim(r, a) PROVE CompletedHasTime'
  BY <1>5 DEF RedeemClaim, TypeOK, Rows
<1>6. ASSUME NEW r \in Requests, RedeemRecord(r) PROVE CompletedHasTime'
  BY <1>6 DEF RedeemRecord, Released, Recorded, TypeOK, Rows
<1>7. ASSUME NEW l \in Lookups, QueryRecord(l) PROVE CompletedHasTime'
  <2>1. PICK t \in Times : row' = WithResult(query[l].task, query[l].state, t)
    BY <1>7 DEF QueryRecord
  <2> QED
    BY <2>1 DEF WithResult, TypeOK, Rows
<1> QED
  BY <1>1, <1>2, <1>3, <1>4, <1>5, <1>6, <1>7
     DEF Next, vars, ProviderSettles, OldPageSubmits, Crash, PreviewVerify, PreviewBegin,
         CreateTask, QueryRead, QueryAnswer, QueryEnds, QueryImport

LEMMA InvNext == IInv /\ [Next]_vars => IInv'
<1> SUFFICES ASSUME IInv, [Next]_vars PROVE IInv'
  OBVIOUS
<1>0. TypeOK' /\ CompletedHasTime'
  BY TypeNext, TimedNext DEF IInv
<1> USE <1>0 DEF IInv
<1>1. ASSUME UNCHANGED vars PROVE IInv'
  BY <1>1, Undisturbed DEF vars, Busy
<1>2. ASSUME ProviderSettles PROVE IInv'
  BY <1>2, Undisturbed DEF ProviderSettles, Busy, TypeOK
<1>3. ASSUME OldPageSubmits PROVE IInv'
  BY <1>3, Undisturbed, AttemptsAssumption DEF OldPageSubmits, NewTask, Busy, TypeOK
<1>4. ASSUME HistoryImport PROVE IInv'
  BY <1>4, Undisturbed, AttemptsAssumption DEF HistoryImport, ImportedRow, Busy
<1>5. ASSUME Crash PROVE IInv'
  <2>1. \A r \in Requests : ~Busy(r)'
    BY <1>5 DEF Crash, Busy, IdleRequest
  <2> QED
    BY <1>5, <2>1, Undisturbed DEF Crash, TypeOK
<1>6. ASSUME NEW a \in Attempts, PreviewVerify(a) PROVE IInv'
  BY <1>6, Undisturbed DEF PreviewVerify, Busy, TypeOK
<1>8. ASSUME NEW a \in Attempts, Preflight(a) PROVE IInv'
  BY <1>8, Undisturbed DEF Preflight, Busy, TypeOK, Rows
<1>12. ASSUME NEW l \in Lookups, QueryRead(l) PROVE IInv'
  BY <1>12, Undisturbed DEF QueryRead, Busy
<1>13. ASSUME NEW l \in Lookups, QueryAnswer(l) PROVE IInv'
  BY <1>13, Undisturbed DEF QueryAnswer, Busy
<1>14. ASSUME NEW l \in Lookups, QueryEnds(l) PROVE IInv'
  BY <1>14, Undisturbed DEF QueryEnds, Busy
<1>15. ASSUME NEW l \in Lookups, QueryImport(l) PROVE IInv'
  <2>1. row' = row \/ row'.attempt = "imported"
    BY <1>15 DEF QueryImport, Begin, NoRow
  <2> QED
    BY <1>15, <2>1, Undisturbed, AttemptsAssumption DEF QueryImport, Busy
<1>16. ASSUME NEW l \in Lookups, QueryRecord(l) PROVE IInv'
  BY <1>16, Undisturbed DEF QueryRecord, WithResult, Busy, TypeOK, Rows
<1>7. ASSUME NEW a \in Attempts, PreviewBegin(a) PROVE IInv'
  <2>1. \A r \in Requests : Busy(r) => redeem[r].attempt # a
    BY <1>7 DEF PreviewBegin, TokensAreFresh
  <2>2. \A r \in Requests : (Busy(r)' <=> Busy(r)) /\ (Untried(r)' <=> Untried(r))
    BY <1>7 DEF PreviewBegin, Busy, Untried, SafeRetry
  <2>3. row' = row \/ row'.attempt = a
    BY <1>7 DEF PreviewBegin, Begin, NoRow
  <2>4. task[a] = NoTask /\ task' = task /\ redeem' = redeem
    BY <1>7 DEF PreviewBegin, TokensAreFresh
  <2>5. ClaimIsHeld' /\ RequestsApart' /\ UntriedHasNoTask'
    BY <2>1, <2>2, <2>3, <2>4 DEF ClaimIsHeld, RequestsApart, UntriedHasNoTask
  <2>6. NotSubmittedIsTrue'
    BY <2>3, <2>4 DEF NotSubmittedIsTrue
  <2>7. TokensAreFresh'
    <3>1. \A b \in Attempts : visit'[b] # "begun" => visit[b] # "begun" /\ b # a
      BY <1>7 DEF PreviewBegin, TypeOK
    <3> QED
      BY <2>2, <2>3, <2>4, <3>1 DEF TokensAreFresh
  <2> QED
    BY <2>5, <2>6, <2>7
<1>9. ASSUME NEW r \in Requests, CreateTask(r) PROVE IInv'
  <2> DEFINE a == redeem[r].attempt
  <2>1. /\ redeem[r].pc = "calling" /\ a \in Attempts
        /\ row' = row /\ visit' = visit
    BY <1>9 DEF CreateTask, TypeOK, Submissions, IdleRequest
  <2>2. \E answer \in Answers, id \in Owners \cup {NoTask} :
          /\ redeem' = [redeem EXCEPT ![r] = [pc |-> "answered", attempt |-> a,
                                             answer |-> answer, task |-> id]]
          /\ \/ task' = task
             \/ task' = [task EXCEPT ![a] = "processing"] /\ ~SafeRetry(answer)
    BY <1>9 DEF CreateTask, Answer, NewTask, SafeRetry, TypeOK
  <2>3. PICK answer \in Answers, id \in Owners \cup {NoTask} :
          /\ redeem' = [redeem EXCEPT ![r] = [pc |-> "answered", attempt |-> a,
                                             answer |-> answer, task |-> id]]
          /\ \/ task' = task
             \/ task' = [task EXCEPT ![a] = "processing"] /\ ~SafeRetry(answer)
    BY <2>2
  <2>4. /\ redeem'[r].attempt = a /\ redeem'[r].answer = answer
        /\ \A s \in Requests \ {r} : redeem'[s] = redeem[s]
    BY <2>3 DEF TypeOK
  <2>5. \A s \in Requests : /\ Busy(s)' <=> Busy(s)
                            /\ redeem'[s].attempt = redeem[s].attempt
                            /\ s # r => (Untried(s)' <=> Untried(s))
    BY <2>1, <2>3, <2>4 DEF Busy, Untried, SafeRetry, TypeOK
  <2>6. Busy(r) /\ Untried(r) /\ (Untried(r)' => SafeRetry(answer))
    BY <2>1, <2>3, <2>4 DEF Busy, Untried, SafeRetry, TypeOK
  <2>7. ClaimIsHeld' /\ RequestsApart'
    BY <2>1, <2>5 DEF ClaimIsHeld, RequestsApart
  <2>8. \A b \in Attempts \ {a} : task'[b] = task[b]
    BY <2>1, <2>3 DEF TypeOK
  <2>9. UntriedHasNoTask'
    <3>1. \A s \in Requests : Untried(s) => Busy(s)
      BY DEF Untried, Busy
    <3>2. ASSUME NEW s \in Requests \ {r}, Untried(s)' PROVE task'[redeem'[s].attempt] = NoTask
      <4>1. redeem[s].attempt \in Attempts \ {a}
        BY <2>5, <2>6, <3>1, <3>2 DEF RequestsApart, TypeOK, Submissions, IdleRequest, Busy
      <4> QED
        BY <2>5, <2>8, <3>2, <4>1 DEF UntriedHasNoTask
    <3>3. ASSUME Untried(r)' PROVE task'[redeem'[r].attempt] = NoTask
      BY <2>3, <2>5, <2>6, <3>3 DEF UntriedHasNoTask
    <3> QED
      BY <3>2, <3>3 DEF UntriedHasNoTask
  <2>10. row.attempt = a => row.claimed
    BY <2>6 DEF ClaimIsHeld
  <2>11. NotSubmittedIsTrue'
    BY <2>1, <2>8, <2>10 DEF NotSubmittedIsTrue
  <2>12. TokensAreFresh'
    <3>1. visit[a] = "begun"
      BY <2>1, <2>6 DEF TokensAreFresh
    <3> QED
      BY <2>1, <2>5, <2>8, <3>1 DEF TokensAreFresh
  <2> QED
    BY <2>7, <2>9, <2>11, <2>12
<1>10. ASSUME NEW r \in Requests, RedeemRecord(r) PROVE IInv'
  <2> DEFINE a == redeem[r].attempt
  <2>1. /\ Busy(r) /\ a \in Attempts /\ task' = task /\ visit' = visit
        /\ redeem' = [redeem EXCEPT ![r] = IdleRequest]
    BY <1>10 DEF RedeemRecord, Busy, TypeOK, Submissions, IdleRequest
  <2>2. /\ row'.attempt = row.attempt
        /\ row.attempt # a => row' = row
        /\ row.claimed # row'.claimed => Untried(r)
    BY <1>10 DEF RedeemRecord, Released, Recorded, Untried, TypeOK, Rows
  <2>3. \A s \in Requests : /\ Busy(s)' => Busy(s) /\ s # r /\ redeem'[s] = redeem[s]
                            /\ Untried(s)' => Untried(s) /\ redeem'[s] = redeem[s]
    BY <2>1 DEF Busy, Untried, SafeRetry, IdleRequest, TypeOK
  <2>4. ClaimIsHeld'
    BY <2>1, <2>2, <2>3 DEF ClaimIsHeld, RequestsApart
  <2>5. RequestsApart'
    BY <2>3 DEF RequestsApart
  <2>6. UntriedHasNoTask'
    BY <2>1, <2>3 DEF UntriedHasNoTask
  <2>7. NotSubmittedIsTrue'
    <3>1. CASE row.attempt = a /\ row.claimed # row'.claimed
      BY <2>1, <2>2, <3>1 DEF UntriedHasNoTask, NotSubmittedIsTrue
    <3>2. CASE row.claimed = row'.claimed
      BY <2>1, <2>2, <3>2 DEF NotSubmittedIsTrue
    <3> QED
      BY <2>2, <3>1, <3>2
  <2>8. TokensAreFresh'
    BY <2>1, <2>2, <2>3 DEF TokensAreFresh
  <2> QED
    BY <2>4, <2>5, <2>6, <2>7, <2>8
<1>11. ASSUME NEW r \in Requests, NEW a \in Attempts, RedeemClaim(r, a) PROVE IInv'
  <2>1. /\ ~Busy(r) /\ row.attempt = a /\ ~row.claimed /\ task[a] = NoTask
        /\ row'.attempt = a /\ row'.claimed /\ task' = task /\ visit' = visit
        /\ redeem' = [redeem EXCEPT ![r] = [pc |-> "calling", attempt |-> a]]
    BY <1>11 DEF RedeemClaim, Busy, IdleRequest, NotSubmittedIsTrue, TypeOK, Rows
  <2>2. \A s \in Requests : Busy(s) => redeem[s].attempt # a
    BY <2>1 DEF ClaimIsHeld
  <2>3. \A s \in Requests \ {r} : /\ redeem'[s] = redeem[s]
                                  /\ Busy(s)' <=> Busy(s)
                                  /\ Untried(s)' <=> Untried(s)
    BY <2>1 DEF Busy, Untried, SafeRetry, TypeOK
  <2>4. redeem'[r].attempt = a
    BY <2>1 DEF TypeOK
  <2>5. ClaimIsHeld' /\ NotSubmittedIsTrue'
    BY <2>1 DEF ClaimIsHeld, NotSubmittedIsTrue
  <2>6. RequestsApart'
    BY <2>2, <2>3, <2>4 DEF RequestsApart
  <2>7. UntriedHasNoTask'
    BY <2>1, <2>3, <2>4 DEF UntriedHasNoTask
  <2>8. TokensAreFresh'
    BY <2>1, <2>3, <2>4 DEF TokensAreFresh
  <2> QED
    BY <2>5, <2>6, <2>7, <2>8
<1> QED
  BY <1>1, <1>2, <1>3, <1>4, <1>5, <1>6, <1>7, <1>8, <1>9, <1>10, <1>11, <1>12, <1>13,
     <1>14, <1>15, <1>16 DEF Next

LEMMA Invariance == Spec => []IInv
  BY InvInit, InvNext, PTL DEF Spec

------------------------------------------------------------------------------
\* Theorems.

\* Type correctness, for any number of visits, requests and queries.
THEOREM TypeCorrect == Spec => []TypeOK
  BY Invariance, PTL DEF IInv

\* ClaimManagedActivation lets one request through: the provider is never asked
\* twice at the same time for one attempt.
THEOREM CalledOnceAtATime == Spec => []OneCallPerAttempt
<1>1. IInv => OneCallPerAttempt
  BY DEF IInv, RequestsApart, Busy, OneCallPerAttempt
<1> QED
  BY <1>1, Invariance, PTL

\* ReleaseManagedActivationClaim frees only attempts that have come to nothing.
THEOREM FreedIsUnsubmitted == Spec => []NotSubmittedIsTrue
  BY Invariance, PTL DEF IInv

\* The renewal date of a code recorded as completed stands.
THEOREM CompletionIsDated == Spec => CompletionKeepsItsTime
<1>1. IInv /\ [Next]_vars =>
        [row.status = "completed" => row.activated > 0 /\ row'.activated = row.activated]_vars
  <2> SUFFICES ASSUME IInv, Next, row.status = "completed"
               PROVE  row.activated > 0 /\ row'.activated = row.activated
    OBVIOUS
  <2>0. row.activated > 0 /\ row.activated \in {0} \cup Times
    BY DEF IInv, CompletedHasTime, TypeOK, Rows
  <2>1. row.activated > 0 /\ row.activated \in Nat
    <3>1. \A t \in Times : t \in Nat
      BY TimesAssumption
    <3> QED
      BY <2>0, <3>1
  <2> USE <2>1 DEF IInv, TypeOK, Rows
  <2>2. ASSUME NEW a, Begin(a) PROVE row'.activated = row.activated
    BY <2>2 DEF Begin, NoRow
  <2>3. CASE HistoryImport
    BY <2>3 DEF HistoryImport, ImportedRow
  <2>4. ASSUME NEW a \in Attempts, Preflight(a) PROVE row'.activated = row.activated
    BY <2>4 DEF Preflight
  <2>5. ASSUME NEW r \in Requests, NEW a \in Attempts, RedeemClaim(r, a)
        PROVE  row'.activated = row.activated
    BY <2>5 DEF RedeemClaim
  <2>6. ASSUME NEW r \in Requests, RedeemRecord(r) PROVE row'.activated = row.activated
    BY <2>6 DEF RedeemRecord, Released, Recorded
  <2>7. ASSUME NEW l \in Lookups, QueryRecord(l) PROVE row'.activated = row.activated
    BY <2>7 DEF QueryRecord, WithResult
  <2> QED
    BY <2>2, <2>3, <2>4, <2>5, <2>6, <2>7
       DEF Next, ProviderSettles, OldPageSubmits, Crash, PreviewVerify, PreviewBegin,
           CreateTask, QueryRead, QueryAnswer, QueryEnds, QueryImport
<1> QED
  BY <1>1, Invariance, PTL DEF Spec, CompletionKeepsItsTime
=============================================================================
