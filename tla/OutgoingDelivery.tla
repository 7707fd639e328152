-------------------------- MODULE OutgoingDelivery --------------------------
(***************************************************************************)
(* The outgoing delivery worker of activitypub/outgoing_activities.py and  *)
(* the OutgoingActivity table it drains (activitypub/models.py).           *)
(*                                                                         *)
(* Web requests and the other workers insert rows; one worker process      *)
(* fetches the due rows, commits the attempt, POSTs them (in order for     *)
(* one inbox, concurrently between inboxes) and commits the outcomes.  The *)
(* process can die, and its second commit can fail, after the POSTs.       *)
(*                                                                         *)
(* Time is relative: nextTry[r] is how long r still has to wait, <= 0 when *)
(* it is due, and Tick lets every waiting row come closer.  MaxRows,       *)
(* MaxLosses and MaxLag bound the model and not the code.                  *)
(***************************************************************************)
EXTENDS Integers, FiniteSets

CONSTANTS
  MaxRows,      \* bound: how many rows are ever inserted
  Recipient,    \* the inbox each row is addressed to
  BatchLimit,   \* outgoing_delivery_batch_size
  MaxRetries,   \* _MAX_RETRIES
  ExpBackoff,   \* wait after the n-th attempt, exp_backoff(n)
  Hints,        \* waits a Retry-After header asks for, once they are applied
  NoHint,       \* no Retry-After, or one that cannot be parsed
  Overflowing,  \* inboxes that answer with a Retry-After beyond datetime's range
  MaxLosses,    \* bound: crashes and failed commits
  MaxAborts,    \* bound: batches aborted by an overflowing Retry-After
  MaxLag        \* bound: how long a due row can wait for the worker

Rows == 1..MaxRows

ASSUME SizesAssumption ==
  /\ MaxRows \in Nat
  /\ BatchLimit \in Nat \ {0}
  /\ MaxRetries \in Nat \ {0}
  /\ MaxLosses \in Nat
  /\ MaxAborts \in Nat
  /\ MaxLag \in Nat
ASSUME BackoffAssumption == ExpBackoff \in [1..MaxRetries -> Nat \ {0}]
ASSUME HintsAssumption == Hints \subseteq Int /\ NoHint \notin Int

Inboxes == {Recipient[r] : r \in Rows}

VARIABLES
  lastId,    \* rows 1..lastId are in the table
  sent,      \* is_sent
  errored,   \* is_errored (and next_try is NULL)
  tries,     \* tries
  nextTry,   \* next_try, relative to now
  worker,    \* where the worker process stands
  batch,     \* the rows fetched together
  answer,    \* what became of each row of the batch
  hint,      \* the retry_after each answer carries
  stray,     \* POST tasks left running by an aborted batch
  acks,      \* history: 2xx answers the recipient gave
  losses,    \* history: crashes and failed commits
  aborts     \* history: batches that were aborted

vars == <<lastId, sent, errored, tries, nextTry, worker, batch, answer, hint,
          stray, acks, losses, aborts>>
table == <<lastId, sent, errored, tries, nextTry>>

\* The answers _apply_delivery_outcome tells apart: 2xx; 429 or 503; no
\* answer (TransportError); any other 4xx than 401; and the rest (401, other
\* statuses, a payload that cannot be built, any other exception).
Answers == {"accepted", "throttled", "unreachable", "refused", "failed"}
HostLevel == {"throttled", "unreachable"}

\* mutant: a filter of the fetch query is forgotten
LiveWithSent == 1..lastId \ errored

Live == 1..lastId \ (sent \union errored)
Due == {r \in Live : nextTry[r] <= 0}

\* mutant: ORDER BY next_try, id DESC
BeforeDesc(q, r) == nextTry[q] < nextTry[r] \/ (nextTry[q] = nextTry[r] /\ q > r)

\* ORDER BY next_try, id
Before(q, r) == nextTry[q] < nextTry[r] \/ (nextTry[q] = nextTry[r] /\ q < r)

FirstDue == {r \in Due : Cardinality({q \in Due : Before(q, r)}) < BatchLimit}

NoAnswers == [r \in Rows |-> "pending"]
NoHints == [r \in Rows |-> NoHint]
NoStrays == [r \in Rows |-> 0]

Init ==
  /\ lastId = 0 /\ sent = {} /\ errored = {}
  /\ tries = [r \in Rows |-> 0]
  /\ nextTry = [r \in Rows |-> 0]
  /\ worker = "idle" /\ batch = {}
  /\ answer = NoAnswers /\ hint = NoHints /\ stray = NoStrays
  /\ acks = [r \in Rows |-> 0]
  /\ losses = 0 /\ aborts = 0

-----------------------------------------------------------------------------
(* The writers of the table, and time. *)

\* new_outgoing_activity, committed by its caller: next_try defaults to now.
Enqueue ==
  /\ lastId < MaxRows
  /\ lastId' = lastId + 1
  /\ UNCHANGED <<sent, errored, tries, nextTry, worker, batch, answer, hint,
                 stray, acks, losses, aborts>>

Tick ==
  /\ Live # {}
  /\ \A r \in Live : nextTry[r] > -MaxLag
  /\ nextTry' = [r \in Rows |-> IF r \in Live THEN nextTry[r] - 1 ELSE nextTry[r]]
  /\ UNCHANGED <<lastId, sent, errored, tries, worker, batch, answer, hint,
                 stray, acks, losses, aborts>>

-----------------------------------------------------------------------------
(* The worker. *)

PollEmpty == worker = "idle" /\ Due = {} /\ UNCHANGED vars

\* Fetch a batch, count the attempt, build the payloads (those of `unbuilt'
\* raise), and commit before anything is sent.
Prepare(unbuilt) ==
  /\ worker = "idle" /\ Due # {}
  /\ worker' = "delivering"
  /\ batch' = FirstDue
  /\ tries' = [r \in Rows |-> IF r \in FirstDue THEN tries[r] + 1 ELSE tries[r]]
  /\ answer' = [r \in Rows |-> IF r \in unbuilt THEN "failed" ELSE "pending"]
  /\ UNCHANGED <<lastId, sent, errored, nextTry, hint, stray, acks, losses, aborts>>

Unanswered == {r \in batch : answer[r] = "pending"}
Group(r) == {q \in Unanswered : Recipient[q] = Recipient[r]}
IsNext(r) == r \in Unanswered /\ \A q \in Group(r) \ {r} : Before(r, q)

\* One POST of _deliver_group.  A host-level failure answers for the rest of
\* the group, which is skipped with the same retry_after.
Post(r, a, h) ==
  LET skipped == IF a \in HostLevel THEN Group(r) \ {r} ELSE {}
  IN /\ worker = "delivering" /\ IsNext(r)
     /\ a = "throttled" \/ h = NoHint
     /\ answer' = [q \in Rows |-> IF q = r THEN a
                                  ELSE IF q \in skipped THEN "skipped"
                                  ELSE answer[q]]
     /\ hint' = [q \in Rows |-> IF q \in skipped \union {r} THEN h ELSE hint[q]]
     /\ acks' = [acks EXCEPT ![r] = IF a = "accepted" THEN @ + 1 ELSE @]
     /\ UNCHANGED <<table, worker, batch, stray, losses, aborts>>

\* The batch is over, one way or the other.
Leave(where) ==
  /\ worker' = where
  /\ batch' = {}
  /\ answer' = NoAnswers
  /\ hint' = NoHints

\* parse_retry_after raises in _deliver's own handler, so the error leaves
\* asyncio.gather and the batch: no outcome is applied, and the tasks of the
\* other groups are not cancelled.
Abort(r) ==
  /\ worker = "delivering" /\ IsNext(r) /\ Recipient[r] \in Overflowing
  /\ aborts < MaxAborts
  /\ stray' = [q \in Rows |-> IF q \in Unanswered \ Group(r) THEN stray[q] + 1
                              ELSE stray[q]]
  /\ aborts' = aborts + 1
  /\ Leave("idle")
  /\ UNCHANGED <<table, acks, losses>>

\* A POST of such a left-over task; nobody reads its answer.
StrayPost(r, accepted) ==
  /\ stray[r] > 0
  /\ stray' = [stray EXCEPT ![r] = @ - 1]
  /\ acks' = [acks EXCEPT ![r] = IF accepted THEN @ + 1 ELSE @]
  /\ UNCHANGED <<table, worker, batch, answer, hint, losses, aborts>>

-----------------------------------------------------------------------------
(* Applying the outcomes. *)

GivesUp(r) ==
  \/ answer[r] = "refused"
  \/ answer[r] # "accepted" /\ tries[r] >= MaxRetries

\* set_next_try of a row that has retries left
SetNextTry(r, h) == IF h = NoHint THEN ExpBackoff[tries[r]] ELSE h

\* mutant: no sweep
SweepNothing(r, wait) == wait

\* the defensive sweep over the rows that would still be due
Sweep(r, wait) == IF wait <= 0 THEN SetNextTry(r, NoHint) ELSE wait

\* mutant: a skipped request has no exception, so it counts as a success
AcceptedOrSkipped == {r \in batch : answer[r] \in {"accepted", "skipped"}}

Accepted == {r \in batch : answer[r] = "accepted"}
Refused == {r \in batch : GivesUp(r)}
Retried == batch \ (Accepted \union Refused)

\* mutant: a host-level failure does not use up a retry
ApplyRefunding ==
  /\ worker = "delivering" /\ Unanswered = {}
  /\ sent' = sent \union Accepted
  /\ errored' = errored \union Refused
  /\ tries' = [r \in Rows |-> IF r \in batch /\ answer[r] \in HostLevel
                              THEN tries[r] - 1 ELSE tries[r]]
  /\ nextTry' = [r \in Rows |-> IF r \in Retried THEN 1 ELSE nextTry[r]]
  /\ Leave("idle")
  /\ UNCHANGED <<lastId, stray, acks, losses, aborts>>

\* _apply_delivery_outcome for every row, the sweep, and the second commit
Apply ==
  /\ worker = "delivering" /\ Unanswered = {}
  /\ sent' = sent \union Accepted
  /\ errored' = errored \union Refused
  /\ nextTry' = [r \in Rows |-> IF r \in Retried
                                THEN Sweep(r, SetNextTry(r, hint[r]))
                                ELSE nextTry[r]]
  /\ Leave("idle")
  /\ UNCHANGED <<lastId, tries, stray, acks, losses, aborts>>

\* The second commit fails: rollback, and every outcome is forgotten.
LoseCommit ==
  /\ worker = "delivering" /\ Unanswered = {}
  /\ losses < MaxLosses
  /\ losses' = losses + 1
  /\ Leave("idle")
  /\ UNCHANGED <<table, stray, acks, aborts>>

\* The process dies, or is told to stop and cancels its tasks.
Crash ==
  /\ worker # "down" /\ losses < MaxLosses
  /\ losses' = losses + 1
  /\ stray' = NoStrays
  /\ Leave("down")
  /\ UNCHANGED <<table, acks, aborts>>

Restart ==
  /\ worker = "down"
  /\ worker' = "idle"
  /\ UNCHANGED <<table, batch, answer, hint, stray, acks, losses, aborts>>

-----------------------------------------------------------------------------
Fetch == \E unbuilt \in SUBSET FirstDue : Prepare(unbuilt)
Deliver(r) == \E a \in Answers, h \in Hints \union {NoHint} : Post(r, a, h)
Raise == \E r \in Rows : Abort(r)
Leftover == \E r \in Rows, accepted \in BOOLEAN : StrayPost(r, accepted)

Next ==
  \/ Enqueue
  \/ Tick
  \/ PollEmpty
  \/ Fetch
  \/ \E r \in Rows : Deliver(r)
  \/ Apply
  \/ Raise
  \/ Leftover
  \/ LoseCommit
  \/ Crash
  \/ Restart

\* Time passes, supervisord restarts the process, and the worker's own loop
\* goes on: every POST ends, since the HTTP client has timeouts.
Fairness ==
  /\ WF_vars(Tick)
  /\ WF_vars(Restart)
  /\ WF_vars(Fetch)
  /\ WF_vars(\E r \in Rows : Deliver(r))
  /\ WF_vars(Apply)

Spec == Init /\ [][Next]_vars
FairSpec == Spec /\ Fairness

-----------------------------------------------------------------------------
(* Properties. *)

\* Every variable has its type; a batch holds only rows still to be
\* delivered, and a row is never both sent and errored.
TypeOK ==
  /\ lastId \in 0..MaxRows
  /\ sent \subseteq 1..lastId /\ errored \subseteq 1..lastId
  /\ sent \intersect errored = {}
  /\ tries \in [Rows -> Nat]
  /\ nextTry \in [Rows -> Int]
  /\ worker \in {"idle", "delivering", "down"}
  /\ batch \subseteq Live
  /\ worker # "delivering" => batch = {}
  /\ answer \in [Rows -> Answers \union {"pending", "skipped"}]
  /\ hint \in [Rows -> Hints \union {NoHint}]
  /\ stray \in [Rows -> Nat]
  /\ acks \in [Rows -> Nat]
  /\ losses \in 0..MaxLosses
  /\ aborts \in 0..MaxAborts

\* A row is recorded as sent only when its recipient did accept it: no skip,
\* retry, crash or half-applied batch marks an undelivered row.
SentWasAcked == \A r \in sent : acks[r] > 0

\* A row is recorded as errored although its recipient accepted it only when
\* a batch's outcomes were lost.
AbandonedUnheard == \A r \in errored : acks[r] > 0 => losses + aborts > 0

\* The recipient accepts a row once, and once more at most for each batch
\* whose outcomes were lost (crash, failed commit, aborted batch): nothing
\* else delivers twice.
RedeliveryBounded == \A r \in Rows : acks[r] <= losses + aborts + 1

\* Every POST was counted in the database before it was made, those of the
\* tasks an aborted batch leaves behind included: a crash cannot make the
\* worker forget an attempt.
AttemptsAreDurable == \A r \in Rows : acks[r] + stray[r] <= tries[r]

\* _MAX_RETRIES attempts, exceeded only by the attempts that were lost.
RetryBudget == \A r \in Rows : tries[r] <= MaxRetries + losses + aborts

\* No row gets its first attempt before an older row has had one, whatever
\* the backoff of the rows in between.
FirstAttemptsInOrder ==
  \A q, r \in 1..lastId : q < r /\ tries[r] > 0 => tries[q] > 0

\* A batch that is applied leaves none of its rows due: what the defensive
\* sweep is for, against a Retry-After in the past and a busy loop.
BatchMakesProgress ==
  [][worker = "delivering" /\ worker' = "idle" /\ <<losses, aborts>>' = <<losses, aborts>>
       => \A r \in batch : r \in sent' \union errored' \/ nextTry'[r] > 0]_vars

\* Every row that is inserted ends up sent or errored.
EventuallySettled ==
  \A r \in Rows : r <= lastId ~> r \in sent \union errored

\* The queue keeps the promise of DeliveryPromise.
Promise == INSTANCE DeliveryPromise WITH
  submitted <- 1..lastId,
  acknowledged <- {r \in Rows : acks[r] > 0},
  delivered <- sent,
  abandoned <- errored
KeepsPromise == Promise!PromiseSpec
=============================================================================
