------------------------- MODULE IncomingActivities -------------------------
(***************************************************************************)
(* The inbox worker of activitypub/incoming_activities.py and the          *)
(* IncomingActivity table it drains.                                       *)
(*                                                                         *)
(* POST /inbox inserts a row for every delivery, without a look at what it *)
(* delivers.  One worker process takes the oldest due row, commits the     *)
(* attempt, runs save_to_inbox, which commits the activity with all its    *)
(* effects, and only then commits that the row is processed.  It can die   *)
(* or be interrupted between any two of these commits, and the inbox is    *)
(* looked up for a duplicate first.  What the effects are is left to       *)
(* SocialGraph and to the other modules: here, an activity is applied or   *)
(* not.                                                                    *)
(*                                                                         *)
(* Time is relative, as in OutgoingDelivery: a row is due when nextTry is  *)
(* not positive.  MaxRows, MaxInterruptions and MaxLag bound the model and *)
(* not the code.                                                           *)
(***************************************************************************)
EXTENDS Integers

CONSTANTS
  MaxRows,           \* bound: deliveries
  About,             \* the activity each delivery is about
  Anonymous,         \* the activities without an id that are kept: reports
  MaxRetries,        \* _MAX_RETRIES
  ExpBackoff,        \* wait after the n-th attempt, exp_backoff(n)
  MaxInterruptions,  \* bound: crashes and failed commits
  MaxLag             \* bound: how long a due row can wait for the worker

Rows == 1..MaxRows

ASSUME SizesAssumption ==
  /\ MaxRows \in Nat /\ MaxInterruptions \in Nat /\ MaxLag \in Nat
  /\ MaxRetries \in Nat \ {0}
ASSUME BackoffAssumption == ExpBackoff \in [1..MaxRetries -> Nat \ {0}]

NoRow == 0

VARIABLES
  lastId,       \* rows 1..lastId are in the table
  processed,    \* is_processed
  errored,      \* is_errored (and next_try is NULL)
  tries,        \* tries
  nextTry,      \* next_try, relative to now
  worker,       \* where the worker process stands
  current,      \* the row it works on
  applied,      \* how often a row's activity was committed with its effects
  dropped,      \* history: rows whose activity was ignored
  interrupted,  \* history: how often a row was interrupted after that commit
  losses        \* history: crashes and failed commits

table == <<lastId, processed, errored, tries, nextTry>>
inboxVars == <<table, worker, current, applied, dropped, interrupted, losses>>

Live == 1..lastId \ (processed \union errored)
Due == {r \in Live : nextTry[r] <= 0}

\* ORDER BY next_try, id
Before(q, r) == nextTry[q] < nextTry[r] \/ (nextTry[q] = nextTry[r] /\ q < r)

\* mutant: only a delivery that was processed counts as a duplicate
KnownIfProcessed(r) ==
  /\ About[r] \notin Anonymous
  /\ \E q \in processed : About[q] = About[r] /\ applied[q] > 0

\* An activity with this id is in the inbox.  A report without an id gets a
\* fresh one at every attempt, and is never found.
Known(r) ==
  /\ About[r] \notin Anonymous
  /\ \E q \in Rows : About[q] = About[r] /\ applied[q] > 0

InboxInit ==
  /\ lastId = 0 /\ processed = {} /\ errored = {}
  /\ tries = [r \in Rows |-> 0] /\ nextTry = [r \in Rows |-> 0]
  /\ worker = "idle" /\ current = NoRow
  /\ applied = [r \in Rows |-> 0]
  /\ dropped = {} /\ interrupted = [r \in Rows |-> 0] /\ losses = 0

-----------------------------------------------------------------------------
(* Deliveries, and time. *)

\* new_ap_incoming_activity
Receive ==
  /\ lastId < MaxRows
  /\ lastId' = lastId + 1
  /\ UNCHANGED <<processed, errored, tries, nextTry, worker, current, applied,
                 dropped, interrupted, losses>>

Tick ==
  /\ Live # {}
  /\ \A r \in Live : nextTry[r] > -MaxLag
  /\ nextTry' = [r \in Rows |-> IF r \in Live THEN nextTry[r] - 1 ELSE nextTry[r]]
  /\ UNCHANGED <<lastId, processed, errored, tries, worker, current, applied,
                 dropped, interrupted, losses>>

-----------------------------------------------------------------------------
(* The worker. *)

PollEmpty == worker = "idle" /\ Due = {} /\ UNCHANGED inboxVars

\* fetch_next_incoming_activity, and the commit of the attempt
Take(r) ==
  /\ worker = "idle" /\ r \in Due /\ \A q \in Due \ {r} : Before(r, q)
  /\ worker' = "handling" /\ current' = r
  /\ tries' = [tries EXCEPT ![r] = @ + 1]
  /\ UNCHANGED <<lastId, processed, errored, nextTry, applied, dropped,
                 interrupted, losses>>

\* save_to_inbox inserts the activity and its effects, and commits.
Handle ==
  /\ worker = "handling" /\ ~ Known(current)
  /\ worker' = "committed"
  /\ applied' = [applied EXCEPT ![current] = @ + 1]
  /\ UNCHANGED <<table, current, dropped, interrupted, losses>>

\* save_to_inbox finds the activity in the inbox, and returns.
Duplicate ==
  /\ worker = "handling" /\ Known(current)
  /\ worker' = "returned"
  /\ UNCHANGED <<table, current, applied, dropped, interrupted, losses>>

\* save_to_inbox ignores the activity, and returns: its actor cannot be
\* fetched at the moment, or is blocked, or it has no id.
Ignore ==
  /\ worker = "handling"
  /\ worker' = "returned"
  /\ dropped' = dropped \union {current}
  /\ UNCHANGED <<table, current, applied, interrupted, losses>>

Rest == worker' = "idle" /\ current' = NoRow

\* set_next_try
SetNextTry(r) ==
  IF tries[r] >= MaxRetries
    THEN /\ errored' = errored \union {r}
         /\ UNCHANGED nextTry
    ELSE /\ nextTry' = [nextTry EXCEPT ![r] = ExpBackoff[tries[r]]]
         /\ UNCHANGED errored

\* mutants: a failure does not use up a retry; it counts as a success
FailRefunding ==
  /\ worker = "handling"
  /\ tries' = [tries EXCEPT ![current] = @ - 1]
  /\ nextTry' = [nextTry EXCEPT ![current] = 1]
  /\ Rest
  /\ UNCHANGED <<lastId, processed, errored, applied, dropped, interrupted, losses>>
FailSilently ==
  /\ worker = "handling"
  /\ processed' = processed \union {current}
  /\ Rest
  /\ UNCHANGED <<lastId, errored, tries, nextTry, applied, dropped, interrupted, losses>>

\* save_to_inbox raises, or takes more than 60 seconds: rollback, and retry
\* later.
Fail ==
  /\ worker = "handling"
  /\ SetNextTry(current)
  /\ Rest
  /\ UNCHANGED <<lastId, processed, tries, applied, dropped, interrupted, losses>>

\* The timeout cancels save_to_inbox while it waits for its commit, which is
\* done all the same.
FailLate ==
  /\ worker = "committed"
  /\ SetNextTry(current)
  /\ interrupted' = [interrupted EXCEPT ![current] = @ + 1]
  /\ Rest
  /\ UNCHANGED <<lastId, processed, tries, applied, dropped, losses>>

\* mutant: the row is not marked
FinishUnmarked ==
  /\ worker \in {"committed", "returned"}
  /\ Rest
  /\ UNCHANGED <<table, applied, dropped, interrupted, losses>>

\* the second commit
Finish ==
  /\ worker \in {"committed", "returned"}
  /\ processed' = processed \union {current}
  /\ Rest
  /\ UNCHANGED <<lastId, errored, tries, nextTry, applied, dropped, interrupted, losses>>

\* What the worker did since the last commit is gone.
Lose ==
  /\ losses < MaxInterruptions
  /\ losses' = losses + 1
  /\ current' = NoRow
  /\ interrupted' = [r \in Rows |-> IF worker = "committed" /\ r = current
                                    THEN interrupted[r] + 1 ELSE interrupted[r]]
  /\ UNCHANGED <<table, applied, dropped>>

\* The second commit fails; the main loop rolls back, and the row is still due.
LoseCommit ==
  /\ worker \in {"committed", "returned"}
  /\ Lose
  /\ worker' = "idle"

\* The process dies, or is told to stop and cancels its task.
Crash == worker # "down" /\ Lose /\ worker' = "down"

Restart ==
  /\ worker = "down"
  /\ worker' = "idle"
  /\ UNCHANGED <<table, current, applied, dropped, interrupted, losses>>

-----------------------------------------------------------------------------
Fetch == \E r \in Rows : Take(r)
Process == Handle \/ Duplicate \/ Ignore \/ Fail

InboxNext ==
  \/ Receive \/ Tick
  \/ PollEmpty \/ Fetch \/ Process \/ FailLate \/ Finish
  \/ LoseCommit \/ Crash \/ Restart

\* Time passes, supervisord restarts the process, and save_to_inbox ends
\* within 60 seconds.
Fairness ==
  /\ WF_inboxVars(Tick) /\ WF_inboxVars(Restart) /\ WF_inboxVars(Fetch)
  /\ WF_inboxVars(Process) /\ WF_inboxVars(Finish)

InboxSpec == InboxInit /\ [][InboxNext]_inboxVars
FairSpec == InboxSpec /\ Fairness

-----------------------------------------------------------------------------
(* Properties. *)

\* Every variable has its type; the worker works on a live row, and a row is
\* never both processed and errored.
InboxTypeOK ==
  /\ lastId \in 0..MaxRows
  /\ processed \subseteq 1..lastId /\ errored \subseteq 1..lastId
  /\ processed \intersect errored = {}
  /\ tries \in [Rows -> Nat] /\ nextTry \in [Rows -> Int]
  /\ worker \in {"idle", "handling", "committed", "returned", "down"}
  /\ IF worker \in {"idle", "down"} THEN current = NoRow ELSE current \in Live
  /\ applied \in [Rows -> Nat] /\ dropped \subseteq 1..lastId
  /\ interrupted \in [Rows -> Nat] /\ losses \in 0..MaxInterruptions

\* The effects of an activity that has an id happen once, whatever the number
\* of its deliveries and of the attempts at each: this is what SocialGraph
\* assumes of the peer's activities.
AppliedOnce ==
  \A q, r \in Rows :
    About[q] = About[r] /\ About[r] \notin Anonymous /\ applied[q] > 0 /\ applied[r] > 0
      => q = r /\ applied[r] = 1

\* A report without an id is kept once more for each interruption of its
\* delivery after it was committed, and for nothing else.
RepeatsAreInterruptions == \A r \in Rows : applied[r] <= 1 + interrupted[r]

\* A row is processed only when its activity is in the inbox or was ignored:
\* no failure, timeout or crash lets the worker skip one.
ProcessedWasApplied ==
  \A r \in processed :
    r \in dropped \/ \E q \in Rows : About[q] = About[r] /\ applied[q] > 0

\* A row is given up although its activity was committed only when it was
\* interrupted right after, or the activity came with another delivery.
GivenUpWasNotApplied ==
  \A r \in errored : applied[r] > 0 => interrupted[r] > 0

\* Retries are used up, and no more than that: a row is given up after
\* _MAX_RETRIES attempts, and is attempted more often only because of losses.
RetriesUsedUp ==
  /\ \A r \in errored : tries[r] >= MaxRetries
  /\ \A r \in Rows : tries[r] <= MaxRetries + losses

\* Deliveries get their first attempt in the order they were received: a row
\* that is retried does not let a later one pass an untried one.
FirstAttemptsInOrder ==
  \A q, r \in 1..lastId : q < r /\ tries[r] > 0 => tries[q] > 0

\* Every delivery ends up processed or given up.
EventuallySettled ==
  \A r \in Rows : r <= lastId ~> r \in processed \union errored
=============================================================================
