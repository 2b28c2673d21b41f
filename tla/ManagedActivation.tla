-------------------------- MODULE ManagedActivation --------------------------
(***************************************************************************)
(* A code of the second ("managed") provider: tryManagedPreview, Preflight *)
(* and Redeem, the result queries, and the one row that                    *)
(* managed_activation_attempts keeps for the code.  Codes share nothing,   *)
(* so one code is modelled, with all its visitors.                         *)
(*                                                                         *)
(* Each visit gets an attempt token; a new visit overwrites the row.  Every *)
(* handler asks the provider first and writes the row afterwards, guarded  *)
(* only by what its UPDATE says, so answers are written late and in any    *)
(* order.  The provider is external.                                       *)
(***************************************************************************)
EXTENDS Naturals

CONSTANTS Attempts,        \* the tokens handed out by previews
          Requests,        \* concurrent calls of tryManagedRedeem
          Lookups,         \* concurrent result queries
          Times            \* completion times, all positive

Nobody == {"nobody", "imported", "history"}    \* tokens no browser holds
OldPage == "old_page"                          \* a task submitted elsewhere
NoTask == "none"

ASSUME AttemptsAssumption ==
  Attempts \cap (Nobody \cup {OldPage, NoTask}) = {}
ASSUME TimesAssumption == Times \subseteq Nat \ {0}

VARIABLES row,       \* the row of managed_activation_attempts
          visit,     \* [Attempts -> how far the preview of this token is]
          redeem,    \* [Requests -> the submission this request is making]
          query,     \* [Lookups -> what this query has read]
          task,      \* [owners -> the state of the provider's task, or NoTask]
          latest     \* the owner of the provider's latest task, or NoTask

vars == <<row, visit, redeem, query, task, latest>>

Owners == Attempts \cup {OldPage}
TaskStates == {"processing", "completed", "failed"}
Statuses == {"verified", "preflight", "submitted", "not_submitted", "review"} \cup TaskStates
Answers == {"accepted", "conflict", "rejected", "unknown"}

Rows == [attempt : Attempts \cup Nobody,  preflight : BOOLEAN,  status : Statuses,
         task : Owners \cup {NoTask},  claimed : BOOLEAN,  activated : {0} \cup Times]
NoRow == [attempt |-> "nobody", preflight |-> FALSE, status |-> "verified",
          task |-> NoTask, claimed |-> FALSE, activated |-> 0]

IdleRequest == [pc |-> "idle"]
Submissions == {IdleRequest} \cup
               [pc : {"calling"}, attempt : Attempts] \cup
               [pc : {"answered"}, attempt : Attempts, answer : Answers,
                task : Owners \cup {NoTask}]

IdleQuery == [pc |-> "idle"]
Queries == {IdleQuery} \cup
           [pc : {"asking"}, known : BOOLEAN] \cup
           [pc : {"import", "record"}, task : Owners, state : TaskStates]

TypeOK ==
  /\ row \in Rows
  /\ visit \in [Attempts -> {"new", "valid", "begun"}]
  /\ redeem \in [Requests -> Submissions]
  /\ query \in [Lookups -> Queries]
  /\ task \in [Owners -> TaskStates \cup {NoTask}]
  /\ latest \in {NoTask} \cup {o \in Owners : task[o] # NoTask}

Init ==
  /\ row = NoRow
  /\ visit = [a \in Attempts |-> "new"]
  /\ redeem = [r \in Requests |-> IdleRequest]
  /\ query = [l \in Lookups |-> IdleQuery]
  /\ task = [o \in Owners |-> NoTask]
  /\ latest = NoTask

------------------------------------------------------------------------------
\* The provider: it holds one task of the code at a time that is not failed.

ProviderFree == latest # NoTask => task[latest] = "failed"

NewTask(o) == task' = [task EXCEPT ![o] = "processing"] /\ latest' = o

ProviderSettles == /\ latest # NoTask /\ task[latest] = "processing"
                   /\ \E s \in {"completed", "failed"} : task' = [task EXCEPT ![latest] = s]
                   /\ UNCHANGED <<row, visit, redeem, query, latest>>

OldPageSubmits == /\ ProviderFree /\ task[OldPage] = NoTask
                  /\ NewTask(OldPage)
                  /\ UNCHANGED <<row, visit, redeem, query>>

------------------------------------------------------------------------------
\* Previews and preflights.

\* BeginManagedActivation: the row is the new attempt's, unless a claim stands
\* that is not known to have failed.  activated_at is not reset.
MayBegin == row.claimed => row.status \in {"failed", "not_submitted"}
Begin(a) == row' = IF MayBegin THEN [NoRow EXCEPT !.attempt = a, !.activated = row.activated]
                               ELSE row

PreviewVerify(a) == /\ visit[a] = "new" /\ ProviderFree
                    /\ visit' = [visit EXCEPT ![a] = "valid"]
                    /\ UNCHANGED <<row, redeem, query, task, latest>>

PreviewBegin(a) == /\ visit[a] = "valid"
                   /\ visit' = [visit EXCEPT ![a] = "begun"]
                   /\ Begin(a)
                   /\ UNCHANGED <<redeem, query, task, latest>>

\* The account is checked at the provider first; the UPDATE repeats the guards.
Preflight(a) == /\ row.attempt = a /\ ~row.claimed
                /\ row' = [row EXCEPT !.preflight = TRUE, !.status = "preflight"]
                /\ UNCHANGED <<visit, redeem, query, task, latest>>

------------------------------------------------------------------------------
\* tryManagedRedeem: claim, create the task, write down what came of it.

\* Mutant: the claim may be repeated.
RedeemClaimAgain(r, a) ==
  /\ redeem[r] = IdleRequest
  /\ row.attempt = a /\ row.preflight
  /\ row' = [row EXCEPT !.claimed = TRUE, !.status = "submitted"]
  /\ redeem' = [redeem EXCEPT ![r] = [pc |-> "calling", attempt |-> a]]
  /\ UNCHANGED <<visit, query, task, latest>>

RedeemClaim(r, a) ==
  /\ redeem[r] = IdleRequest
  /\ row.attempt = a /\ row.preflight /\ ~row.claimed
  /\ row' = [row EXCEPT !.claimed = TRUE, !.status = "submitted"]
  /\ redeem' = [redeem EXCEPT ![r] = [pc |-> "calling", attempt |-> a]]
  /\ UNCHANGED <<visit, query, task, latest>>

\* A conflict may name the task it conflicts with; an unknown answer (a timeout,
\* a 5xx, a reply without a task id) comes with or without a task.
Answer(r, answer, id) ==
  redeem' = [redeem EXCEPT ![r] = [pc |-> "answered", attempt |-> redeem[r].attempt,
                                   answer |-> answer, task |-> id]]

CreateTask(r) ==
  /\ redeem[r].pc = "calling"
  /\ \/ ProviderFree /\ NewTask(redeem[r].attempt) /\ Answer(r, "accepted", redeem[r].attempt)
     \/ ProviderFree /\ NewTask(redeem[r].attempt) /\ Answer(r, "unknown", NoTask)
     \/ Answer(r, "unknown", NoTask) /\ UNCHANGED <<task, latest>>
     \/ Answer(r, "rejected", NoTask) /\ UNCHANGED <<task, latest>>
     \/ /\ ~ProviderFree /\ UNCHANGED <<task, latest>>
        /\ \E id \in {NoTask, latest} : Answer(r, "conflict", id)
  /\ UNCHANGED <<row, visit, query>>

\* Mutant: a timeout counts as a refusal.
SafeRetryUnknown(answer) == answer \in {"rejected", "unknown"}
\* safeManagedRetry: refusals that come before anything is created.
SafeRetry(answer) == answer = "rejected"

\* ReleaseManagedActivationClaim, whose UPDATE asks for no task id.
Released(a) ==
  IF row.attempt = a /\ row.task = NoTask
    THEN [row EXCEPT !.claimed = FALSE, !.preflight = FALSE, !.status = "not_submitted"]
    ELSE row

\* RecordManagedActivationSubmission: the task id may be overwritten with none.
Recorded(a, answer, id) ==
  IF row.attempt = a /\ row.claimed
    THEN [row EXCEPT !.task = id,
                     !.status = IF answer = "unknown" THEN "review" ELSE "submitted"]
    ELSE row

RedeemRecord(r) ==
  /\ redeem[r].pc = "answered"
  /\ row' = IF SafeRetry(redeem[r].answer)
              THEN Released(redeem[r].attempt)
              ELSE Recorded(redeem[r].attempt, redeem[r].answer, redeem[r].task)
  /\ redeem' = [redeem EXCEPT ![r] = IdleRequest]
  /\ UNCHANGED <<visit, query, task, latest>>

------------------------------------------------------------------------------
\* tryManagedResultByCode and lookupManagedCDK.

QueryRead(l) == /\ query[l] = IdleQuery
                /\ query' = [query EXCEPT ![l] = [pc |-> "asking", known |-> row.attempt # "nobody"]]
                /\ UNCHANGED <<row, visit, redeem, task, latest>>

\* LookupTask answers with the latest task.
QueryAnswer(l) ==
  /\ query[l].pc = "asking" /\ latest # NoTask
  /\ query' = [query EXCEPT ![l] = [pc |-> IF query[l].known THEN "record" ELSE "import",
                                    task |-> latest, state |-> task[latest]]]
  /\ UNCHANGED <<row, visit, redeem, task, latest>>

\* The provider is out of reach, knows no task, or the seven days are over.
QueryEnds(l) == /\ query[l].pc = "asking"
                /\ query' = [query EXCEPT ![l] = IdleQuery]
                /\ UNCHANGED <<row, visit, redeem, task, latest>>

\* A row of our own for a task submitted elsewhere, under a token nobody gets.
QueryImport(l) == /\ query[l].pc = "import"
                  /\ query' = [query EXCEPT ![l].pc = "record"]
                  /\ Begin("imported")
                  /\ UNCHANGED <<visit, redeem, task, latest>>

\* Mutant: every completed answer sets the time.
WithResultLater(id, state, t) ==
  [row EXCEPT !.task = id, !.status = state,
              !.activated = IF state = "completed" THEN t ELSE @]

\* RecordManagedActivationResultDetails: only the first completion sets the time.
\* The time is the provider's, or the clock's when the provider gives none.
WithResult(id, state, t) ==
  [row EXCEPT !.task = id, !.status = state,
              !.activated = IF state = "completed" /\ @ = 0 THEN t ELSE @]

QueryRecord(l) == /\ query[l].pc = "record"
                  /\ \E t \in Times : row' = WithResult(query[l].task, query[l].state, t)
                  /\ query' = [query EXCEPT ![l] = IdleQuery]
                  /\ UNCHANGED <<visit, redeem, task, latest>>

------------------------------------------------------------------------------
\* MarketplaceManagedHistory imports a completion the provider has confirmed.

\* ImportManagedActivationCompletion, inserting or on conflict.
ImportedRow(o, t) ==
  LET kept == row.status = "completed"
  IN [attempt   |-> IF row.attempt = "nobody" THEN "history" ELSE row.attempt,
      preflight |-> row.preflight,  status |-> "completed",  claimed |-> TRUE,
      task      |-> IF kept /\ row.task # NoTask THEN row.task ELSE o,
      activated |-> IF kept /\ row.activated > 0 THEN row.activated ELSE t]

HistoryImport == /\ \E o \in Owners, t \in Times :
                      task[o] = "completed" /\ row' = ImportedRow(o, t)
                 /\ UNCHANGED <<visit, redeem, query, task, latest>>

------------------------------------------------------------------------------
\* A restart forgets every request on its way, not the row.
Crash == /\ visit' = [a \in Attempts |-> IF visit[a] = "valid" THEN "new" ELSE visit[a]]
         /\ redeem' = [r \in Requests |-> IdleRequest]
         /\ query' = [l \in Lookups |-> IdleQuery]
         /\ UNCHANGED <<row, task, latest>>

Next ==
  \/ ProviderSettles \/ OldPageSubmits \/ HistoryImport \/ Crash
  \/ \E a \in Attempts : PreviewVerify(a) \/ PreviewBegin(a) \/ Preflight(a)
  \/ \E r \in Requests : CreateTask(r) \/ RedeemRecord(r) \/ \E a \in Attempts : RedeemClaim(r, a)
  \/ \E l \in Lookups : QueryRead(l) \/ QueryAnswer(l) \/ QueryEnds(l) \/ QueryImport(l) \/ QueryRecord(l)

Spec == Init /\ [][Next]_vars

------------------------------------------------------------------------------
\* Properties.

\* However a customer repeats the request, the provider is never asked twice at
\* the same time for one attempt.
OneCallPerAttempt ==
  \A r, s \in Requests :
    redeem[r].pc = "calling" /\ redeem[s].pc = "calling" /\ r # s
      => redeem[r].attempt # redeem[s].attempt

\* An attempt that may be submitted again ("not-submitted" to the browser) has no
\* task at the provider, whatever was lost or answered late.
NotSubmittedIsTrue ==
  \A a \in Attempts : row.attempt = a /\ ~row.claimed => task[a] = NoTask

\* A code recorded as completed has the date its renewal is reckoned from, and no
\* query or import moves it.
CompletionKeepsItsTime ==
  [][row.status = "completed" => row.activated > 0 /\ row'.activated = row.activated]_vars

------------------------------------------------------------------------------
\* What tests and comments say of the code, and the code does not do.

\* "AllowsRetryOnlyAfterConfirmedFailure" (jz_activation_test.go): a claim gives
\* way to a new attempt only when it came to nothing.
RetryOnlyAfterConfirmedFailure ==
  [][\A a \in Attempts :
       row.attempt = a /\ row.claimed /\ row'.attempt # a
         => /\ task[a] \in {NoTask, "failed"}
            /\ \A r \in Requests : redeem[r] # [pc |-> "calling", attempt |-> a]]_vars
=============================================================================
