---------------------------- MODULE Inbox_proofs ----------------------------
(***************************************************************************)
(* Theorems about what other servers send, for every value of the          *)
(* constants: the first part is about IncomingActivities, the queue of all *)
(* that arrives, the second about Quotes.  The two share no constant, no   *)
(* variable and no definition, and a theorem speaks of one of them.        *)
(***************************************************************************)
EXTENDS IncomingActivities, Quotes, FiniteSetTheorems, TLAPS

-----------------------------------------------------------------------------
(* IncomingActivities, for every number of deliveries, retries and losses. *)

InboxTypeInv == InboxTypeOK /\ (current # NoRow => tries[current] > 0)

\* Where each commit of an activity is accounted for: the row is processed,
\* or about to be, or was interrupted.
Marked(r) == IF r \in processed \/ (worker = "committed" /\ current = r) THEN 1 ELSE 0
CommitsInv == \A r \in Rows : applied[r] <= interrupted[r] + Marked(r)

Stored(r) == \E q \in Rows : About[q] = About[r] /\ applied[q] > 0

\* The worker marks a row only when its activity is stored or was ignored.
MarksInv ==
  /\ ProcessedWasApplied
  /\ worker \in {"committed", "returned"} => current \in dropped \/ Stored(current)

\* A row that can still be taken has an attempt left, or one was lost.
BudgetInv ==
  /\ RetriesUsedUp
  /\ \A r \in Rows \ (processed \union errored) :
       r # current => tries[r] < MaxRetries + losses

\* Untried rows are live, and wait in the order of their ids.
OrderInv ==
  /\ FirstAttemptsInOrder
  /\ \A r \in Rows : tries[r] = 0 => r \notin processed \union errored
  /\ \A r \in Rows : r > lastId => tries[r] = 0 /\ nextTry[r] = 0
  /\ \A r \in Rows : tries[r] = 0 => nextTry[r] <= 0
  /\ \A q, r \in Rows : q < r /\ tries[q] = 0 /\ tries[r] = 0 => nextTry[q] <= nextTry[r]

Inv == InboxTypeInv /\ AppliedOnce /\ CommitsInv /\ MarksInv /\ BudgetInv /\ OrderInv

-----------------------------------------------------------------------------
(* The current row, and the wait before its next attempt. *)

\* The row the worker works on is live, and its attempt is counted.
LEMMA CurrentIsLive ==
  ASSUME InboxTypeInv, current # NoRow \/ worker \in {"handling", "committed", "returned"}
  PROVE  /\ worker \in {"handling", "committed", "returned"}
         /\ current # NoRow /\ current \in Rows /\ current \in 1..lastId
         /\ current \notin processed /\ current \notin errored
         /\ tries[current] \in Nat \ {0}
<1>1. current \in Live
  BY DEF InboxTypeInv, InboxTypeOK
<1>2. current \in Rows /\ current # NoRow
  BY <1>1, SizesAssumption DEF Live, InboxTypeInv, InboxTypeOK, Rows, NoRow
<1>. QED BY <1>1, <1>2 DEF Live, InboxTypeInv, InboxTypeOK

\* What set_next_try does to the row of a failed attempt, and only to it.
LEMMA SetNextTryDoes ==
  ASSUME InboxTypeInv, current # NoRow, SetNextTry(current)
  PROVE  /\ current \in Rows /\ current \in 1..lastId
         /\ current \notin processed \union errored
         /\ nextTry' \in [Rows -> Int]
         /\ \A r \in Rows \ {current} : nextTry'[r] = nextTry[r]
         /\ \/ tries[current] >= MaxRetries /\ errored' = errored \union {current}
            \/ tries[current] < MaxRetries /\ errored' = errored
<1>1. current \in Live /\ current \in 1..lastId
  BY DEF InboxTypeInv, InboxTypeOK, Live
<1>2. current \in Rows /\ tries[current] \in Nat \ {0}
  BY CurrentIsLive
<1>3. CASE tries[current] >= MaxRetries
  BY <1>1, <1>2, <1>3 DEF SetNextTry, InboxTypeInv, InboxTypeOK, Live
<1>4. CASE tries[current] < MaxRetries
  <2>1. ExpBackoff[tries[current]] \in Int
    BY <1>2, <1>4, SizesAssumption, BackoffAssumption
  <2>2. nextTry' = [nextTry EXCEPT ![current] = ExpBackoff[tries[current]]]
        /\ errored' = errored
    BY <1>2, <1>4, SizesAssumption DEF SetNextTry
  <2>. QED BY <1>1, <1>2, <1>4, <2>1, <2>2 DEF InboxTypeInv, InboxTypeOK, Live
<1>. QED BY <1>2, <1>3, <1>4, SizesAssumption

\* An empty table is consistent.
LEMMA InvInit == InboxInit => Inv
<1> SUFFICES ASSUME InboxInit
             PROVE  Inv
  OBVIOUS
<1>1. InboxTypeInv
  BY SizesAssumption DEF InboxInit, InboxTypeInv, InboxTypeOK, Rows, NoRow
<1>2. AppliedOnce /\ CommitsInv /\ MarksInv
  BY DEF InboxInit, AppliedOnce, CommitsInv, Marked, MarksInv, ProcessedWasApplied
<1>3. BudgetInv /\ OrderInv
  BY SizesAssumption DEF InboxInit, BudgetInv, RetriesUsedUp, OrderInv, FirstAttemptsInOrder, Rows
<1>. QED BY <1>1, <1>2, <1>3 DEF Inv

-----------------------------------------------------------------------------
(* Types. *)

\* The worker's row is live as long as it works on it.
LEMMA TypeStep == InboxTypeInv /\ [InboxNext]_inboxVars => InboxTypeInv'
<1> SUFFICES ASSUME InboxTypeInv, [InboxNext]_inboxVars
             PROVE  InboxTypeInv'
  OBVIOUS
<1>0. NoRow \notin Rows /\ 1..lastId \subseteq Rows /\ Live \subseteq Rows
  BY SizesAssumption DEF InboxTypeInv, InboxTypeOK, Rows, NoRow, Live
<1>. USE DEF InboxTypeInv, InboxTypeOK
<1>1. CASE Receive
  <2>1. lastId' \in 0..MaxRows /\ 1..lastId \subseteq 1..lastId'
    BY <1>1, SizesAssumption DEF Receive
  <2>. QED BY <1>1, <2>1 DEF Receive, Live
<1>2. CASE Tick
  <2>1. nextTry' \in [Rows -> Int]
    BY <1>2 DEF Tick
  <2>. QED BY <1>2, <2>1 DEF Tick, Live
<1>3. ASSUME NEW r \in Rows, Take(r)
      PROVE  InboxTypeInv'
  <2>1. r \in Live
    BY <1>3 DEF Take, Due
  <2>2. tries' \in [Rows -> Nat] /\ tries'[r] > 0
    BY <1>3 DEF Take
  <2>. QED BY <1>0, <1>3, <2>1, <2>2 DEF Take, Live
<1>4. CASE Handle
  <2>1. applied' \in [Rows -> Nat]
    BY <1>0, <1>4 DEF Handle
  <2>. QED BY <1>0, <1>4, <2>1 DEF Handle, Live, table
<1>5. CASE Duplicate
  BY <1>0, <1>5 DEF Duplicate, Live, table
<1>6. CASE Ignore
  BY <1>0, <1>6 DEF Ignore, Live, table
<1>7. CASE Fail
  <2>1. current # NoRow
    BY <1>0, <1>7 DEF Fail
  <2>. QED BY <1>0, <1>7, <2>1, SetNextTryDoes DEF Fail, Rest, Live
<1>8. CASE FailLate
  <2>1. current # NoRow
    BY <1>0, <1>8 DEF FailLate
  <2>2. interrupted' \in [Rows -> Nat]
    <3>1. interrupted \in [Rows -> Nat]
      OBVIOUS
    <3>2. current \in Rows
      BY <2>1, CurrentIsLive
    <3>3. interrupted' = [interrupted EXCEPT ![current] = interrupted[current] + 1]
      BY <1>8 DEF FailLate
    <3>. HIDE DEF InboxTypeInv, InboxTypeOK
    <3>. QED BY <3>1, <3>2, <3>3
  <2>3. errored' \subseteq 1..lastId /\ processed \intersect errored' = {}
        /\ nextTry' \in [Rows -> Int]
    BY <1>0, <1>8, <2>1, SetNextTryDoes DEF FailLate
  <2>4. worker' = "idle" /\ current' = NoRow
        /\ UNCHANGED <<lastId, processed, tries, applied, dropped, losses>>
    BY <1>8 DEF FailLate, Rest
  <2>. QED BY <2>2, <2>3, <2>4
<1>9. CASE Finish
  BY <1>0, <1>9 DEF Finish, Rest, Live
<1>10. CASE LoseCommit \/ Crash
  <2>0. Lose /\ worker' \in {"idle", "down"}
    BY <1>10 DEF LoseCommit, Crash
  <2>1. interrupted' \in [Rows -> Nat]
    <3>1. interrupted \in [Rows -> Nat]
      OBVIOUS
    <3>2. \A r \in Rows :
            (IF worker = "committed" /\ r = current
               THEN interrupted[r] + 1 ELSE interrupted[r]) \in Nat
      BY <3>1
    <3>. HIDE DEF InboxTypeInv, InboxTypeOK
    <3>. QED BY <2>0, <3>2 DEF Lose
  <2>2. losses' \in 0..MaxInterruptions
    BY <2>0, SizesAssumption DEF Lose
  <2>3. current' = NoRow /\ UNCHANGED <<table, applied, dropped>>
    BY <2>0 DEF Lose
  <2>4. UNCHANGED <<lastId, processed, errored, tries, nextTry, applied, dropped>>
    BY <2>3 DEF table
  <2>. QED BY <2>0, <2>1, <2>2, <2>3, <2>4
<1>11. CASE Restart
  BY <1>11 DEF Restart, table
<1>12. CASE UNCHANGED inboxVars
  BY <1>12 DEF inboxVars, table, Live
<1>. QED BY <1>1, <1>2, <1>3, <1>4, <1>5, <1>6, <1>7, <1>8, <1>9, <1>10, <1>11, <1>12
     DEF InboxNext, PollEmpty, Fetch, Process

-----------------------------------------------------------------------------
(* The effects of an activity. *)

\* Only Handle applies an activity, to the current row.
LEMMA AppliedStep ==
  ASSUME InboxTypeInv, [InboxNext]_inboxVars
  PROVE  \/ UNCHANGED applied
         \/ Handle /\ current \in Rows /\ current \in Live
            /\ \A r \in Rows : applied'[r] = IF r = current THEN applied[r] + 1 ELSE applied[r]
<1>1. CASE Handle
  <2>1. current \in Live /\ Live \subseteq Rows
    BY <1>1, SizesAssumption DEF Handle, InboxTypeInv, InboxTypeOK, Live, Rows
  <2>. QED BY <1>1, <2>1 DEF Handle, InboxTypeInv, InboxTypeOK
<1>2. CASE ~ Handle
  BY <1>2 DEF InboxNext, inboxVars, table, Receive, Tick, PollEmpty, Fetch, Take, Process, Duplicate,
     Ignore, Fail, FailLate, Finish, LoseCommit, Crash, Lose, Restart
<1>. QED BY <1>1, <1>2

\* An activity is only applied when it is not in the inbox.
LEMMA OnceStep == InboxTypeInv /\ AppliedOnce /\ [InboxNext]_inboxVars => AppliedOnce'
<1> SUFFICES ASSUME InboxTypeInv, AppliedOnce, [InboxNext]_inboxVars
             PROVE  AppliedOnce'
  OBVIOUS
<1>1. CASE UNCHANGED applied
  BY <1>1 DEF AppliedOnce
<1>2. CASE Handle /\ current \in Rows
            /\ \A r \in Rows : applied'[r] = IF r = current THEN applied[r] + 1 ELSE applied[r]
  <2>1. About[current] \in Anonymous \/ \A q \in Rows : About[q] = About[current] => applied[q] = 0
    BY <1>2 DEF Handle, Known, InboxTypeInv, InboxTypeOK
  <2>. QED BY <1>2, <2>1 DEF AppliedOnce, InboxTypeInv, InboxTypeOK
<1>. QED BY <1>1, <1>2, AppliedStep

\* Every commit of an activity is marked, or its interruption counted.
LEMMA CommitsStep == InboxTypeInv /\ CommitsInv /\ [InboxNext]_inboxVars => CommitsInv'
<1> SUFFICES ASSUME InboxTypeInv, CommitsInv, [InboxNext]_inboxVars
             PROVE  CommitsInv'
  OBVIOUS
<1>0. applied \in [Rows -> Nat] /\ interrupted \in [Rows -> Nat]
  BY DEF InboxTypeInv, InboxTypeOK
<1>. USE DEF CommitsInv, Marked
<1>1. CASE Receive \/ Tick \/ Restart \/ UNCHANGED inboxVars
  BY <1>1 DEF Receive, Tick, Restart, inboxVars, table, InboxTypeInv, InboxTypeOK
<1>2. ASSUME NEW r \in Rows, Take(r)
      PROVE  CommitsInv'
  <2>1. worker = "idle" /\ worker' = "handling" /\ UNCHANGED <<applied, interrupted, processed>>
    BY <1>2 DEF Take
  <2>. QED BY <1>0, <2>1
<1>3. CASE Handle
  <2>1. /\ current \in Rows /\ current \notin processed
        /\ \A r \in Rows : applied'[r] = IF r = current THEN applied[r] + 1 ELSE applied[r]
    BY <1>0, <1>3, CurrentIsLive DEF Handle
  <2>2. /\ worker = "handling" /\ worker' = "committed"
        /\ UNCHANGED <<interrupted, processed, current>>
    BY <1>3 DEF Handle, table
  <2>. QED BY <1>0, <2>1, <2>2
<1>4. CASE Duplicate \/ Ignore
  BY <1>4 DEF Duplicate, Ignore, table
<1>5. CASE Fail
  BY <1>5 DEF Fail, Rest
<1>6. CASE FailLate
  <2>1. \A r \in Rows : interrupted'[r] = IF r = current THEN interrupted[r] + 1 ELSE interrupted[r]
    BY <1>0, <1>6 DEF FailLate
  <2>2. /\ worker' = "idle"
        /\ UNCHANGED <<applied, processed>>
    BY <1>6 DEF FailLate, Rest
  <2>. QED BY <1>0, <2>1, <2>2
<1>7. CASE Finish
  <2>1. /\ processed' = processed \union {current} /\ worker' = "idle"
        /\ UNCHANGED <<applied, interrupted>>
    BY <1>7 DEF Finish, Rest
  <2>. QED BY <1>0, <2>1
<1>8. CASE LoseCommit \/ Crash
  <2>0. Lose
    BY <1>8 DEF LoseCommit, Crash
  <2>1. \A r \in Rows : interrupted'[r] = IF worker = "committed" /\ r = current
                                           THEN interrupted[r] + 1 ELSE interrupted[r]
    BY <2>0 DEF Lose
  <2>2. /\ worker' # "committed"
        /\ UNCHANGED <<applied, processed>>
    BY <1>8 DEF LoseCommit, Crash, Lose, table
  <2>. QED BY <1>0, <2>1, <2>2
<1>. QED BY <1>1, <1>2, <1>3, <1>4, <1>5, <1>6, <1>7, <1>8
     DEF InboxNext, PollEmpty, Fetch, Process

\* The worker only marks what is stored or was ignored, and neither is undone.
LEMMA MarksStep == InboxTypeInv /\ MarksInv /\ [InboxNext]_inboxVars => MarksInv'
<1> SUFFICES ASSUME InboxTypeInv, MarksInv, [InboxNext]_inboxVars
             PROVE  MarksInv'
  OBVIOUS
<1>1. \A r : Stored(r) => Stored(r)'
  BY AppliedStep DEF Stored, InboxTypeInv, InboxTypeOK
<1>2. dropped \subseteq dropped'
  BY DEF InboxNext, inboxVars, table, Receive, Tick, PollEmpty, Fetch, Take, Process, Handle, Duplicate,
     Ignore, Fail, FailLate, Finish, LoseCommit, Crash, Lose, Restart
<1>3. \A r \in processed : r \in dropped \/ Stored(r)
  BY DEF MarksInv, ProcessedWasApplied, Stored
<1>4. \A r \in processed' : r \in processed \/ (Finish /\ r = current)
  BY DEF InboxNext, inboxVars, table, Receive, Tick, PollEmpty, Fetch, Take, Process, Handle, Duplicate,
     Ignore, Fail, FailLate, Finish, LoseCommit, Crash, Lose, Restart
<1>5. Finish => current \in dropped \/ Stored(current)
  BY DEF Finish, MarksInv
<1>6. ProcessedWasApplied'
  BY <1>1, <1>2, <1>3, <1>4, <1>5 DEF ProcessedWasApplied, Stored
<1>7. ASSUME worker' \in {"committed", "returned"}
      PROVE  (current \in dropped \/ Stored(current))'
  <2>1. CASE Handle
    <3>1. current \in Rows
      BY <2>1, CurrentIsLive DEF Handle
    <3>2. applied'[current] > 0 /\ current' = current
      BY <2>1, <3>1 DEF Handle, InboxTypeInv, InboxTypeOK
    <3>. QED BY <3>1, <3>2 DEF Stored
  <2>2. CASE Duplicate
    <3>1. Stored(current) /\ current' = current
      BY <2>2 DEF Duplicate, Known, Stored
    <3>. QED BY <1>1, <3>1 DEF Stored
  <2>3. CASE Ignore
    BY <2>3 DEF Ignore
  <2>4. CASE Receive \/ Tick \/ UNCHANGED inboxVars
    <3>1. worker \in {"committed", "returned"} /\ current' = current
      BY <1>7, <2>4 DEF Receive, Tick, inboxVars
    <3>. QED BY <1>1, <1>2, <3>1 DEF MarksInv, Stored
  <2>. QED BY <1>7, <2>1, <2>2, <2>3, <2>4
       DEF InboxNext, PollEmpty, Fetch, Take, Process, Fail, FailLate, Finish, Rest, LoseCommit,
           Crash, Restart
<1>. QED BY <1>6, <1>7 DEF MarksInv

-----------------------------------------------------------------------------
(* Retries. *)

\* Only a loss leaves an attempt without an outcome.
LEMMA BudgetStep == InboxTypeInv /\ BudgetInv /\ [InboxNext]_inboxVars => BudgetInv'
<1> SUFFICES ASSUME InboxTypeInv, BudgetInv, [InboxNext]_inboxVars
             PROVE  BudgetInv'
  OBVIOUS
<1>0. /\ tries \in [Rows -> Nat] /\ losses \in Nat
      /\ MaxRetries \in Nat \ {0} /\ NoRow \notin Rows
      /\ processed \subseteq Rows /\ errored \subseteq Rows
  BY SizesAssumption DEF InboxTypeInv, InboxTypeOK, Rows, NoRow
<1>. USE DEF BudgetInv, RetriesUsedUp
<1>1. CASE Receive \/ Tick \/ Restart \/ UNCHANGED inboxVars
  BY <1>1 DEF Receive, Tick, Restart, inboxVars, table
<1>2. ASSUME NEW r \in Rows, Take(r)
      PROVE  BudgetInv'
  <2>1. r \in Live /\ current = NoRow
    BY <1>2 DEF Take, Due, InboxTypeInv, InboxTypeOK
  <2>2. \A q \in Rows : tries'[q] = IF q = r THEN tries[q] + 1 ELSE tries[q]
    BY <1>0, <1>2 DEF Take
  <2>3. current' = r /\ UNCHANGED <<processed, errored, losses>>
    BY <1>2 DEF Take
  <2>4. tries[r] < MaxRetries + losses /\ r \notin errored
    BY <1>0, <2>1 DEF Live
  <2>. QED BY <1>0, <2>1, <2>2, <2>3, <2>4
<1>3. CASE Handle \/ Duplicate \/ Ignore
  BY <1>3 DEF Handle, Duplicate, Ignore, table
<1>4. CASE Fail \/ FailLate
  <2>1. current # NoRow /\ SetNextTry(current)
    BY <1>4, CurrentIsLive DEF Fail, FailLate
  <2>2. UNCHANGED <<tries, processed, losses>>
    BY <1>4 DEF Fail, FailLate
  <2>. QED BY <1>0, <2>1, <2>2, SetNextTryDoes
<1>5. CASE Finish
  BY <1>5 DEF Finish, Rest
<1>6. CASE LoseCommit \/ Crash
  <2>1. losses' = losses + 1 /\ UNCHANGED table
    BY <1>6 DEF LoseCommit, Crash, Lose
  <2>. QED BY <1>0, <2>1 DEF table
<1>. QED BY <1>1, <1>2, <1>3, <1>4, <1>5, <1>6 DEF InboxNext, PollEmpty, Fetch, Process

\* The oldest untried row is taken before any other untried one.
LEMMA OrderStep == InboxTypeInv /\ OrderInv /\ [InboxNext]_inboxVars => OrderInv'
<1> SUFFICES ASSUME InboxTypeInv, OrderInv, [InboxNext]_inboxVars
             PROVE  OrderInv'
  OBVIOUS
<1>0. /\ tries \in [Rows -> Nat] /\ nextTry \in [Rows -> Int]
      /\ lastId \in 0..MaxRows /\ MaxRows \in Nat
      /\ processed \subseteq 1..lastId /\ errored \subseteq 1..lastId
      /\ NoRow \notin Rows
  BY SizesAssumption DEF InboxTypeInv, InboxTypeOK, NoRow, Rows
<1>. USE DEF OrderInv, FirstAttemptsInOrder, Rows
<1>1. CASE Receive
  BY <1>0, <1>1 DEF Receive
<1>2. CASE Tick
  <2>1. \A r \in Rows : nextTry'[r] = IF r \in Live THEN nextTry[r] - 1 ELSE nextTry[r]
    BY <1>2 DEF Tick
  <2>2. \A r \in Rows : tries[r] = 0 => (r \in Live <=> r <= lastId)
    BY <1>0 DEF Live
  <2>3. UNCHANGED <<lastId, tries, processed, errored>>
    BY <1>2 DEF Tick
  <2>4. \A r \in Rows : r > lastId => r \notin Live
    BY <1>0 DEF Live
  <2>. QED BY <1>0, <2>1, <2>2, <2>3, <2>4
<1>3. ASSUME NEW r \in Rows, Take(r)
      PROVE  OrderInv'
  <2>1. r \in Due /\ r \in Live /\ r <= lastId
    BY <1>0, <1>3 DEF Take, Due, Live
  <2>2. \A q \in Rows : tries'[q] = IF q = r THEN tries[q] + 1 ELSE tries[q]
    BY <1>0, <1>3 DEF Take
  <2>3. UNCHANGED <<lastId, processed, errored, nextTry>>
    BY <1>3 DEF Take
  <2>4. \A q \in Rows : q < r /\ tries[q] = 0 => tries[r] > 0
    <3> SUFFICES ASSUME NEW q \in Rows, q < r, tries[q] = 0, tries[r] = 0
                 PROVE  FALSE
      BY <1>0
    <3>1. q \in Due
      BY <1>0, <2>1 DEF Due, Live
    <3>2. Before(r, q)
      BY <1>3, <3>1 DEF Take
    <3>. QED BY <1>0, <3>2 DEF Before
  <2>5. \A q \in Rows : q # r => tries'[q] = tries[q]
    BY <2>2
  <2>6. tries'[r] > 0 /\ r \in 1..lastId
    BY <1>0, <2>1, <2>2
  <2>7. FirstAttemptsInOrder'
    <3> SUFFICES ASSUME NEW q \in 1..lastId, NEW p \in 1..lastId, q < p, tries'[p] > 0
                 PROVE  tries'[q] > 0
      BY <2>3
    <3>0. q \in Rows /\ p \in Rows
      BY <1>0
    <3>1. CASE p = r
      BY <1>0, <2>4, <2>5, <2>6, <3>0, <3>1
    <3>2. CASE p # r
      BY <1>0, <2>2, <2>5, <3>0, <3>2
    <3>. QED BY <3>1, <3>2
  <2>8. \A q \in Rows : tries'[q] = 0 => q # r /\ tries[q] = 0
    BY <2>5, <2>6
  <2>9. \A q \in Rows : q > lastId => q # r
    BY <1>0, <2>6
  <2>. HIDE DEF FirstAttemptsInOrder
  <2>. QED BY <2>3, <2>5, <2>7, <2>8, <2>9
<1>4. CASE Handle \/ Duplicate \/ Ignore \/ LoseCommit \/ Crash \/ Restart
  BY <1>4 DEF Handle, Duplicate, Ignore, LoseCommit, Crash, Lose, Restart, table
<1>5. CASE Fail \/ FailLate
  <2>1. current # NoRow /\ SetNextTry(current) /\ tries[current] \in Nat \ {0}
    BY <1>0, <1>5, CurrentIsLive DEF Fail, FailLate
  <2>2. UNCHANGED <<lastId, tries, processed>>
    BY <1>5 DEF Fail, FailLate
  <2>3. current \in 1..lastId /\ errored' \subseteq errored \union {current}
    BY <2>1, SetNextTryDoes
  <2>4. \A r \in Rows : tries[r] = 0 => nextTry'[r] = nextTry[r]
    BY <1>0, <2>1, SetNextTryDoes
  <2>5. \A r \in Rows : r > lastId => nextTry'[r] = nextTry[r]
    BY <1>0, <2>3, <2>1, SetNextTryDoes
  <2>. QED BY <1>0, <2>1, <2>2, <2>3, <2>4, <2>5
<1>6. CASE Finish
  <2>1. tries[current] # 0
    BY <1>6, CurrentIsLive DEF Finish
  <2>2. processed' = processed \union {current} /\ UNCHANGED <<lastId, tries, errored, nextTry>>
    BY <1>6 DEF Finish
  <2>. QED BY <1>0, <2>1, <2>2
<1>7. CASE UNCHANGED inboxVars
  BY <1>7 DEF inboxVars, table
<1>. QED BY <1>1, <1>2, <1>3, <1>4, <1>5, <1>6, <1>7 DEF InboxNext, PollEmpty, Fetch, Process

-----------------------------------------------------------------------------
(* Theorems. *)

\* The invariant holds in every reachable state.
LEMMA Invariance == InboxSpec => []Inv
<1>1. Inv /\ [InboxNext]_inboxVars => Inv'
  BY TypeStep, OnceStep, CommitsStep, MarksStep, BudgetStep, OrderStep DEF Inv
<1>. QED BY <1>1, InvInit, PTL DEF InboxSpec

\* Every variable has its type, and the worker works on a live row.
THEOREM InboxTypeCorrect == InboxSpec => []InboxTypeOK
<1>1. Inv => InboxTypeOK
  BY DEF Inv, InboxTypeInv
<1>. QED BY <1>1, Invariance, PTL

\* The effects of an activity with an id happen once.
THEOREM EffectsHappenOnce == InboxSpec => []AppliedOnce
<1>1. Inv => AppliedOnce
  BY DEF Inv
<1>. QED BY <1>1, Invariance, PTL

\* A report is kept again only by an interruption.
THEOREM RepeatsAreCounted == InboxSpec => []RepeatsAreInterruptions
<1>1. Inv => RepeatsAreInterruptions
  BY DEF Inv, InboxTypeInv, InboxTypeOK, CommitsInv, Marked, RepeatsAreInterruptions
<1>. QED BY <1>1, Invariance, PTL

\* No delivery is skipped.
THEOREM NoneIsSkipped == InboxSpec => []ProcessedWasApplied
<1>1. Inv => ProcessedWasApplied
  BY DEF Inv, MarksInv
<1>. QED BY <1>1, Invariance, PTL

\* What is given up was not applied, but for an interruption.
THEOREM GivenUpIsUnapplied == InboxSpec => []GivenUpWasNotApplied
<1>1. ASSUME Inv, NEW r \in errored, applied[r] > 0
      PROVE  interrupted[r] > 0
  <2>1. r \in Rows /\ r \notin processed /\ current # r
    BY <1>1, SizesAssumption DEF Inv, InboxTypeInv, InboxTypeOK, Live, Rows, NoRow
  <2>. QED BY <1>1, <2>1 DEF Inv, InboxTypeInv, InboxTypeOK, CommitsInv, Marked
<1>2. Inv => GivenUpWasNotApplied
  BY <1>1 DEF GivenUpWasNotApplied
<1>. QED BY <1>2, Invariance, PTL

\* Retries are used up, and exceeded only by losses.
THEOREM RetriesAreUsedUp == InboxSpec => []RetriesUsedUp
<1>1. Inv => RetriesUsedUp
  BY DEF Inv, BudgetInv
<1>. QED BY <1>1, Invariance, PTL

\* First attempts follow the order of the deliveries.
THEOREM FirstAttemptsAreOrdered == InboxSpec => []FirstAttemptsInOrder
<1>1. Inv => FirstAttemptsInOrder
  BY DEF Inv, OrderInv
<1>. QED BY <1>1, Invariance, PTL

-----------------------------------------------------------------------------
(* Quotes: what it promises of what is shown, counted and announced, for   *)
(* any number of posts, quotes, stamps, requests and repetitions.          *)

-----------------------------------------------------------------------------
(* The inductive invariant. *)

TypeInv ==
  /\ TypeOK /\ Of \in [Quotes -> Posts \cup {None}]
  /\ \A w \in pending : w.of \in Quotes /\ w.stamp \in Stamps \cup {None}
  /\ \A m \in wire : m.type = "QuoteRequest" /\ Local(m.of) => m.of \in Theirs

\* Every message, every row and every request is about a stamp of the quoting
\* post it names; whoever publishes is a peer, whose note has not been seen.
OwnerInv ==
  /\ \A m \in wire : m.stamp # None => m.stamp[1] = m.of
  /\ \A m \in wire : m.type \in {"Create", "Update"} => m.of \in Theirs
  /\ \A x \in Quotes : auth[x] # None => auth[x][1] = x
  /\ \A x \in Theirs : verified[x] => auth[x] # None
  /\ \A w \in pending : w.do = "edit" => w.of \in Ours
  /\ \A w \in pending : w.do = "revoke" =>
       /\ w.of \in Theirs /\ Local(w.of) /\ row[w.of] # "none"
       /\ w.stamp # None /\ w.stamp[1] = w.of

\* A quoting note of a peer is created once.
CreateInv ==
  /\ \A m \in wire : m.type = "Create" => row[m.of] = "none"
  /\ \A m, n \in wire : m.type = "Create" /\ n.type = "Create" /\ m.of = n.of => m = n

\* Of the stamps that are ours to take back, those of our own quotes never are,
\* and those of a peer's only once its note is here.
RevokedInv ==
  /\ \A s \in Stamps : stamp[s] = "revoked" /\ Local(s[1]) =>
       s[1] \in Theirs /\ row[s[1]] # "none"
  /\ \A q \in Ours : state[q] = "pending" => ~Local(q)

\* ShownQuoteStands, of notes that are yet to come as well.
StandsInv == \A x \in Quotes : Authorized(x) /\ row[x] # "deleted" =>
  /\ auth[x] # None
  /\ stamp[auth[x]] = "live" \/ (~Local(x) /\ Msg("Delete", x, auth[x]) \in wire)

\* AcceptedIsAnnounced, with its edits.
NoteInv == AcceptedIsAnnounced

CountInv == \A p \in Posts : count[p] = QuotesCount(p, row, verified) \/ p \in drift

QuoteInv == TypeInv /\ OwnerInv /\ CreateInv /\ RevokedInv /\ StandsInv

-----------------------------------------------------------------------------
(* Stamps. *)

\* A new stamp is one of the note's, and leaves the others as they were.
LEMMA Minting ==
  ASSUME TypeInv, NEW x \in Quotes, Mint(x)
  PROVE  /\ Fresh(x) \in Stamps /\ Fresh(x)[1] = x /\ Fresh(x) # None
         /\ stamp' \in [Stamps -> {"none", "live", "revoked"}]
         /\ stamp'[Fresh(x)] = "live"
         /\ \A s \in Stamps : stamp'[s] = stamp[s] \/ stamp'[s] = "live"
<1>1. IsFiniteSet(Minted(x)) /\ Cardinality(Minted(x)) \in Nat
  <2>1. IsFiniteSet(1..MaxStamps) /\ IsFiniteSet(Quotes)
    BY FS_Interval, QuotesAssumption
  <2>2. IsFiniteSet(Stamps)
    BY <2>1, FS_Product DEF Stamps
  <2>3. Minted(x) \subseteq Stamps
    BY DEF Minted
  <2> QED
    BY <2>2, <2>3, FS_Subset, FS_CardinalityType
<1>2. Cardinality(Minted(x)) + 1 \in 1..MaxStamps
  BY <1>1, QuotesAssumption DEF Mint, CanMint
<1>3. Fresh(x) \in Stamps /\ Fresh(x)[1] = x
  BY <1>2 DEF Fresh, Stamps
<1>4. Fresh(x) # None
  BY <1>3, QuotesAssumption
<1>5. stamp' = [stamp EXCEPT ![Fresh(x)] = "live"] /\ stamp \in [Stamps -> {"none", "live", "revoked"}]
  BY DEF Mint, TypeInv, TypeOK
<1> HIDE DEF Fresh
<1> QED
  BY <1>3, <1>4, <1>5

LEMMA CountType ==
  ASSUME NEW p, NEW R, NEW V
  PROVE  IsFiniteSet({x \in Theirs : Of[x] = p /\ R[x] = "live" /\ V[x]}) /\ QuotesCount(p, R, V) \in Nat
<1>1. IsFiniteSet(Theirs)
  BY QuotesAssumption, FS_Subset DEF Quotes
<1>2. IsFiniteSet({x \in Theirs : Of[x] = p /\ R[x] = "live" /\ V[x]})
  BY <1>1, FS_Subset
<1> QED
  BY <1>2, FS_CardinalityType DEF QuotesCount

-----------------------------------------------------------------------------
(* Types. *)

LEMMA TypeNext ==
  ASSUME TypeInv, [Next]_vars
  PROVE  TypeInv'
<1>1. ASSUME NEW q \in Ours, SendCreate(q) PROVE TypeInv'
  <2>1. q \in Quotes /\ row \in [Posts \cup Quotes -> {"none", "live", "deleted"}]
    BY DEF TypeInv, TypeOK, Quotes
  <2>2. CASE Local(q)
    <3>1. Mint(q)
      BY <1>1, <2>2 DEF SendCreate
    <3>2. Fresh(q) \in Stamps /\ stamp' \in [Stamps -> {"none", "live", "revoked"}]
      BY <2>1, <3>1, Minting
    <3> QED
      BY <1>1, <2>1, <2>2, <3>2 DEF SendCreate, Local, TypeInv, TypeOK, config, quoted
  <2>3. CASE ~Local(q)
    BY <1>1, <2>1, <2>3 DEF SendCreate, Local, TypeInv, TypeOK, config, quoted, Msg
  <2> QED
    BY <2>2, <2>3
<1>2. ASSUME NEW m \in wire, NEW reached \in BOOLEAN, Accept(m, reached) PROVE TypeInv'
  BY <1>2, QuotesAssumption
     DEF Accept, Handled, Local, TypeInv, TypeOK, config, quoting, quoted
<1>3. ASSUME NEW m \in wire, Reject(m) PROVE TypeInv'
  BY <1>3, QuotesAssumption DEF Reject, Handled, Local, TypeInv, TypeOK, config, quoted
<1>4. ASSUME NEW m \in wire, Delete(m) PROVE TypeInv'
  BY <1>4, QuotesAssumption DEF Delete, Handled, Local, TypeInv, TypeOK, config
<1>5. ASSUME NEW q \in Ours, Edit(q) PROVE TypeInv'
  BY <1>5, QuotesAssumption
     DEF Edit, Local, TypeInv, TypeOK, config, quoting, quoted, Quotes
<1>6. ASSUME NEW w \in pending, WriteEdit(w) PROVE TypeInv'
  BY <1>6, QuotesAssumption DEF WriteEdit, Local, TypeInv, TypeOK, config, quoted
<1>7. ASSUME NEW x \in Ours \cup Posts, SendDelete(x) PROVE TypeInv'
  BY <1>7, QuotesAssumption DEF SendDelete, Local, TypeInv, TypeOK, config, quoting, quoted
<1>8. ASSUME NEW m \in wire, Request(m) PROVE TypeInv'
  <2>1. m.of \in Quotes
    BY <1>8 DEF TypeInv, TypeOK
  <2>2. CASE Grant(m.of, m)
    <3>1. Fresh(m.of) \in Stamps /\ stamp' \in [Stamps -> {"none", "live", "revoked"}]
      BY <2>1, <2>2, Minting DEF Grant
    <3>2. wire' = (wire \ {m}) \cup {Msg("Accept", m.of, Fresh(m.of))}
      BY <2>2 DEF Grant, Handled
    <3> QED
      BY <1>8, <2>1, <3>1, <3>2
         DEF Request, Local, TypeInv, TypeOK, config, quoting, quoted, Msg
  <2>3. CASE ~Grant(m.of, m)
    BY <1>8, <2>1, <2>3
       DEF Request, Refuse, Handled, Local, TypeInv, TypeOK, config, quoting, quoted, Msg
  <2> QED
    BY <2>2, <2>3
<1>9. ASSUME NEW x \in Theirs, SendQuoteAccept(x) PROVE TypeInv'
  <2>1. Fresh(x) \in Stamps /\ stamp' \in [Stamps -> {"none", "live", "revoked"}]
    BY <1>9, Minting DEF SendQuoteAccept, Quotes
  <2> QED
    BY <1>9, <2>1
       DEF SendQuoteAccept, Local, TypeInv, TypeOK, config, quoting, quoted, Msg, Quotes
<1>10. ASSUME NEW x \in Theirs, SendQuoteReject(x) PROVE TypeInv'
  BY <1>10, QuotesAssumption
     DEF SendQuoteReject, Local, TypeInv, TypeOK, config, quoting, quoted, Msg, Quotes
<1>11. ASSUME NEW m \in wire, NEW reached \in BOOLEAN, Create(m, reached) PROVE TypeInv'
  <2>1. \A p, R, V : QuotesCount(p, R, V) \in Nat
    BY CountType
  <2>2. count' \in [Posts -> Int]
    BY <1>11, <2>1 DEF Create, Recount, TypeInv, TypeOK
  <2>3. Verified(m.stamp, reached) \in BOOLEAN
    BY DEF Verified
  <2> QED
    BY <1>11, <2>2, <2>3 DEF Create, Handled, Local, TypeInv, TypeOK, config
<1>12. ASSUME NEW m \in wire, Update(m) PROVE TypeInv'
  BY <1>12, QuotesAssumption
     DEF Update, Handled, Local, TypeInv, TypeOK, config, quoting, quoted
<1>13. ASSUME NEW x \in Theirs, DeleteNote(x) PROVE TypeInv'
  <2>1. \A p, R, V : QuotesCount(p, R, V) \in Nat
    BY CountType
  <2>2. count' \in [Posts -> Int]
    BY <1>13, <2>1 DEF DeleteNote, Revert, Local, TypeInv, TypeOK, Quotes
  <2> QED
    BY <1>13, <2>2 DEF DeleteNote, Local, TypeInv, TypeOK, config, quoting
<1>14. ASSUME NEW x \in Theirs, Revoke(x) PROVE TypeInv'
  BY <1>14, QuotesAssumption
     DEF Revoke, Local, TypeInv, TypeOK, config, quoting, quoted, Quotes
<1>15. ASSUME NEW w \in pending, WriteRevoke(w) PROVE TypeInv'
  <2>1. \A p, R, V : QuotesCount(p, R, V) \in Nat
    BY CountType
  <2>2. count' \in [Posts -> Int]
    BY <1>15, <2>1 DEF WriteRevoke, Recount, TypeInv, TypeOK
  <2>3. /\ stamp' \in [Stamps -> {"none", "live", "revoked"}] /\ verified' \in [Theirs -> BOOLEAN]
        /\ w.of \in Quotes /\ w.stamp \in Stamps \cup {None}
        /\ UNCHANGED <<Of, row, state, auth, note, asked>>
    BY <1>15 DEF WriteRevoke, config, quoting, TypeInv, TypeOK
  <2>4. wire' = wire \cup {[type |-> "Delete", of |-> w.of, stamp |-> w.stamp]} /\ pending' \subseteq pending
    BY <1>15 DEF WriteRevoke, Msg
  <2>5. TypeOK'
    BY <2>2, <2>3, <2>4 DEF TypeInv, TypeOK
  <2> QED
    BY <2>3, <2>4, <2>5 DEF TypeInv, Local
<1>16. ASSUME NEW m \in wire, PeerGrants(m) PROVE TypeInv'
  <2>1. m.of \in Quotes
    BY <1>16 DEF TypeInv, TypeOK
  <2>2. CASE Grant(m.of, m)
    <3>1. Fresh(m.of) \in Stamps /\ stamp' \in [Stamps -> {"none", "live", "revoked"}]
      BY <2>1, <2>2, Minting DEF Grant
    <3>2. wire' = (wire \ {m}) \cup {Msg("Accept", m.of, Fresh(m.of))}
      BY <2>2 DEF Grant, Handled
    <3> QED
      BY <1>16, <2>1, <3>1, <3>2
         DEF PeerGrants, Local, TypeInv, TypeOK, config, quoting, quoted, Msg
  <2>3. CASE ~Grant(m.of, m)
    BY <1>16, <2>1, <2>3
       DEF PeerGrants, Refuse, Handled, Local, TypeInv, TypeOK, config, quoting, quoted, Msg
  <2> QED
    BY <2>2, <2>3
<1>17. ASSUME NEW s \in Stamps, PeerRevokes(s) PROVE TypeInv'
  <2>1. s[1] \in Quotes
    BY DEF Stamps
  <2> QED
    BY <1>17, <2>1 DEF PeerRevokes, Local, TypeInv, TypeOK, config, quoting, quoted, Msg
<1>18. ASSUME NEW x \in Theirs, PeerAsks(x) PROVE TypeInv'
  BY <1>18, QuotesAssumption
     DEF PeerAsks, Local, TypeInv, TypeOK, config, quoting, quoted, Msg, Quotes
<1>19. ASSUME NEW x \in Theirs, PeerPublishes(x) PROVE TypeInv'
  <2>1. PICK s \in Told(x) \cup {None} : wire' = wire \cup {Msg("Create", x, s)}
    BY <1>19 DEF PeerPublishes
  <2>2. s \in Stamps \cup {None}
    BY <2>1 DEF Told, TypeInv, TypeOK
  <2> QED
    BY <1>19, <2>1, <2>2
       DEF PeerPublishes, Local, TypeInv, TypeOK, config, quoting, quoted, Msg, Quotes
<1>20. ASSUME NEW m \in wire, PeerUpdates(m) PROVE TypeInv'
  BY <1>20, QuotesAssumption
     DEF PeerUpdates, Handled, Local, TypeInv, TypeOK, config, quoting, quoted, Msg
<1>21. ASSUME UNCHANGED vars PROVE TypeInv'
  BY <1>21 DEF vars, Local, TypeInv, TypeOK, config, quoting, quoted, bounds, Msg, Quotes
<1> QED
  BY <1>1, <1>2, <1>3, <1>4, <1>5, <1>6, <1>7, <1>8, <1>9, <1>10, <1>11, <1>12, <1>13,
       <1>14, <1>15, <1>16, <1>17, <1>18, <1>19, <1>20, <1>21
     DEF Next, Incoming, Owner, Peer

-----------------------------------------------------------------------------
(* Stamps and their posts. *)

LEMMA OwnerNext ==
  ASSUME TypeInv, OwnerInv, [Next]_vars
  PROVE  OwnerInv'
<1>1. ASSUME NEW q \in Ours, SendCreate(q) PROVE OwnerInv'
  <2>1. q \in Quotes
    BY DEF Quotes
  <2>2. CASE Local(q)
    <3>1. Fresh(q)[1] = q
      BY <1>1, <2>1, <2>2, Minting DEF SendCreate
    <3> QED
      BY <1>1, <2>1, <2>2, <3>1, QuotesAssumption
         DEF SendCreate, Local, TypeInv, TypeOK, config, quoted, Quotes, OwnerInv
  <2>3. CASE ~Local(q)
    BY <1>1, <2>1, <2>3, QuotesAssumption
       DEF SendCreate, Local, config, quoted, Msg, OwnerInv
  <2> QED
    BY <2>2, <2>3
<1>2. ASSUME NEW m \in wire, NEW reached \in BOOLEAN, Accept(m, reached) PROVE OwnerInv'
  BY <1>2, QuotesAssumption
     DEF Accept, Handled, Local, TypeInv, TypeOK, config, quoting, quoted, Quotes, OwnerInv
<1>3. ASSUME NEW m \in wire, Reject(m) PROVE OwnerInv'
  BY <1>3, QuotesAssumption DEF Reject, Handled, Local, config, quoted, OwnerInv
<1>4. ASSUME NEW m \in wire, Delete(m) PROVE OwnerInv'
  BY <1>4, QuotesAssumption DEF Delete, Handled, Local, config, OwnerInv
<1>5. ASSUME NEW q \in Ours, Edit(q) PROVE OwnerInv'
  BY <1>5, QuotesAssumption DEF Edit, Local, config, quoting, quoted, OwnerInv
<1>6. ASSUME NEW w \in pending, WriteEdit(w) PROVE OwnerInv'
  BY <1>6, QuotesAssumption DEF WriteEdit, Local, config, quoted, OwnerInv
<1>7. ASSUME NEW x \in Ours \cup Posts, SendDelete(x) PROVE OwnerInv'
  BY <1>7, QuotesAssumption DEF SendDelete, Local, config, quoting, quoted, OwnerInv
<1>8. ASSUME NEW m \in wire, Request(m) PROVE OwnerInv'
  <2>1. m.of \in Quotes
    BY <1>8 DEF TypeInv, TypeOK
  <2>2. CASE Grant(m.of, m)
    <3>1. Fresh(m.of)[1] = m.of
      BY <2>1, <2>2, Minting DEF Grant
    <3>2. wire' = (wire \ {m}) \cup {Msg("Accept", m.of, Fresh(m.of))}
      BY <2>2 DEF Grant, Handled
    <3> QED
      BY <1>8, <2>1, <3>1, <3>2 DEF Request, Local, config, quoting, quoted, Msg, OwnerInv
  <2>3. CASE ~Grant(m.of, m)
    BY <1>8, <2>1, <2>3
       DEF Request, Refuse, Handled, Local, config, quoting, quoted, Msg, OwnerInv
  <2> QED
    BY <2>2, <2>3
<1>9. ASSUME NEW x \in Theirs, SendQuoteAccept(x) PROVE OwnerInv'
  <2>1. Fresh(x)[1] = x
    BY <1>9, Minting DEF SendQuoteAccept, Quotes
  <2> QED
    BY <1>9, <2>1 DEF SendQuoteAccept, Local, config, quoting, quoted, Msg, OwnerInv
<1>10. ASSUME NEW x \in Theirs, SendQuoteReject(x) PROVE OwnerInv'
  BY <1>10, QuotesAssumption
     DEF SendQuoteReject, Local, config, quoting, quoted, Msg, OwnerInv
<1>11. ASSUME NEW m \in wire, NEW reached \in BOOLEAN, Create(m, reached) PROVE OwnerInv'
  <2>1. Verified(m.stamp, reached) => m.stamp # None
    BY DEF Verified
  <2>2. Verified(m.stamp, reached) \in BOOLEAN
    BY DEF Verified
  <2> QED
    BY <1>11, <2>1, <2>2, QuotesAssumption
       DEF Create, Handled, Local, TypeInv, TypeOK, config, OwnerInv
<1>12. ASSUME NEW m \in wire, Update(m) PROVE OwnerInv'
  BY <1>12, QuotesAssumption DEF Update, Handled, Local, config, quoting, quoted, OwnerInv
<1>13. ASSUME NEW x \in Theirs, DeleteNote(x) PROVE OwnerInv'
  BY <1>13, QuotesAssumption DEF DeleteNote, Local, config, quoting, OwnerInv
<1>14. ASSUME NEW x \in Theirs, Revoke(x) PROVE OwnerInv'
  <2>1. auth[x] # None /\ auth[x][1] = x
    BY <1>14 DEF OwnerInv, Quotes, Revoke
  <2> QED
    BY <1>14, <2>1 DEF Revoke, Local, config, quoting, quoted, OwnerInv
<1>15. ASSUME NEW w \in pending, WriteRevoke(w) PROVE OwnerInv'
  BY <1>15, QuotesAssumption DEF WriteRevoke, Local, config, quoting, Msg, OwnerInv
<1>16. ASSUME NEW m \in wire, PeerGrants(m) PROVE OwnerInv'
  <2>1. m.of \in Quotes
    BY <1>16 DEF TypeInv, TypeOK
  <2>2. CASE Grant(m.of, m)
    <3>1. Fresh(m.of)[1] = m.of
      BY <2>1, <2>2, Minting DEF Grant
    <3>2. wire' = (wire \ {m}) \cup {Msg("Accept", m.of, Fresh(m.of))}
      BY <2>2 DEF Grant, Handled
    <3> QED
      BY <1>16, <2>1, <3>1, <3>2
         DEF PeerGrants, Local, config, quoting, quoted, Msg, OwnerInv
  <2>3. CASE ~Grant(m.of, m)
    BY <1>16, <2>1, <2>3
       DEF PeerGrants, Refuse, Handled, Local, config, quoting, quoted, Msg, OwnerInv
  <2> QED
    BY <2>2, <2>3
<1>17. ASSUME NEW s \in Stamps, PeerRevokes(s) PROVE OwnerInv'
  BY <1>17, QuotesAssumption DEF PeerRevokes, Local, config, quoting, quoted, Msg, OwnerInv
<1>18. ASSUME NEW x \in Theirs, PeerAsks(x) PROVE OwnerInv'
  BY <1>18, QuotesAssumption DEF PeerAsks, Local, config, quoting, quoted, Msg, OwnerInv
<1>19. ASSUME NEW x \in Theirs, PeerPublishes(x) PROVE OwnerInv'
  <2>1. PICK s \in Told(x) \cup {None} : wire' = wire \cup {Msg("Create", x, s)}
    BY <1>19 DEF PeerPublishes
  <2>2. s # None => s[1] = x
    BY <2>1 DEF Told, OwnerInv
  <2> QED
    BY <1>19, <2>1, <2>2 DEF PeerPublishes, Local, config, quoting, quoted, Msg, OwnerInv
<1>20. ASSUME NEW m \in wire, PeerUpdates(m) PROVE OwnerInv'
  BY <1>20, QuotesAssumption
     DEF PeerUpdates, Handled, Local, config, quoting, quoted, Msg, OwnerInv
<1>21. ASSUME UNCHANGED vars PROVE OwnerInv'
  BY <1>21 DEF vars, Local, TypeInv, TypeOK, config, quoting, quoted, bounds, Msg, Quotes,
       OwnerInv
<1> QED
  BY <1>1, <1>2, <1>3, <1>4, <1>5, <1>6, <1>7, <1>8, <1>9, <1>10, <1>11, <1>12, <1>13,
       <1>14, <1>15, <1>16, <1>17, <1>18, <1>19, <1>20, <1>21
     DEF Next, Incoming, Owner, Peer
LEMMA CreateNext ==
  ASSUME TypeInv, OwnerInv, CreateInv, [Next]_vars
  PROVE  CreateInv'
<1>1. ASSUME NEW q \in Ours, SendCreate(q) PROVE CreateInv'
  BY <1>1, QuotesAssumption DEF SendCreate, Msg, OwnerInv, CreateInv
<1>2. ASSUME NEW m \in wire, NEW reached \in BOOLEAN, Accept(m, reached) PROVE CreateInv'
  BY <1>2, QuotesAssumption DEF Accept, Handled, Handled, CreateInv
<1>3. ASSUME NEW m \in wire, Reject(m) PROVE CreateInv'
  BY <1>3, QuotesAssumption DEF Reject, Handled, Handled, CreateInv
<1>4. ASSUME NEW m \in wire, Delete(m) PROVE CreateInv'
  BY <1>4, QuotesAssumption DEF Delete, Handled, Handled, CreateInv
<1>5. ASSUME NEW q \in Ours, Edit(q) PROVE CreateInv'
  BY <1>5, QuotesAssumption DEF Edit, CreateInv
<1>6. ASSUME NEW w \in pending, WriteEdit(w) PROVE CreateInv'
  BY <1>6, QuotesAssumption DEF WriteEdit, CreateInv
<1>7. ASSUME NEW x \in Ours \cup Posts, SendDelete(x) PROVE CreateInv'
  BY <1>7, QuotesAssumption DEF SendDelete, CreateInv
<1>8. ASSUME NEW m \in wire, Request(m) PROVE CreateInv'
  BY <1>8, QuotesAssumption DEF Request, Msg, Grant, Refuse, Handled, CreateInv
<1>9. ASSUME NEW x \in Theirs, SendQuoteAccept(x) PROVE CreateInv'
  BY <1>9, QuotesAssumption DEF SendQuoteAccept, Msg, CreateInv
<1>10. ASSUME NEW x \in Theirs, SendQuoteReject(x) PROVE CreateInv'
  BY <1>10, QuotesAssumption DEF SendQuoteReject, Msg, CreateInv
<1>11. ASSUME NEW m \in wire, NEW reached \in BOOLEAN, Create(m, reached) PROVE CreateInv'
  BY <1>11, QuotesAssumption DEF Create, Handled, Handled, CreateInv
<1>12. ASSUME NEW m \in wire, Update(m) PROVE CreateInv'
  BY <1>12, QuotesAssumption DEF Update, Handled, Handled, CreateInv
<1>13. ASSUME NEW x \in Theirs, DeleteNote(x) PROVE CreateInv'
  BY <1>13, QuotesAssumption DEF DeleteNote, CreateInv
<1>14. ASSUME NEW x \in Theirs, Revoke(x) PROVE CreateInv'
  BY <1>14, QuotesAssumption DEF Revoke, CreateInv
<1>15. ASSUME NEW w \in pending, WriteRevoke(w) PROVE CreateInv'
  BY <1>15, QuotesAssumption DEF WriteRevoke, Msg, CreateInv
<1>16. ASSUME NEW m \in wire, PeerGrants(m) PROVE CreateInv'
  BY <1>16, QuotesAssumption DEF PeerGrants, Msg, Grant, Refuse, Handled, CreateInv
<1>17. ASSUME NEW s \in Stamps, PeerRevokes(s) PROVE CreateInv'
  BY <1>17, QuotesAssumption DEF PeerRevokes, Msg, CreateInv
<1>18. ASSUME NEW x \in Theirs, PeerAsks(x) PROVE CreateInv'
  BY <1>18, QuotesAssumption DEF PeerAsks, Msg, CreateInv
<1>19. ASSUME NEW x \in Theirs, PeerPublishes(x) PROVE CreateInv'
  BY <1>19, QuotesAssumption DEF PeerPublishes, Msg, CreateInv
<1>20. ASSUME NEW m \in wire, PeerUpdates(m) PROVE CreateInv'
  BY <1>20, QuotesAssumption DEF PeerUpdates, Handled, Msg, Handled, CreateInv
<1>21. ASSUME UNCHANGED vars PROVE CreateInv'
  BY <1>21 DEF vars, CreateInv
<1> QED
  BY <1>1, <1>2, <1>3, <1>4, <1>5, <1>6, <1>7, <1>8, <1>9, <1>10, <1>11, <1>12, <1>13,
       <1>14, <1>15, <1>16, <1>17, <1>18, <1>19, <1>20, <1>21
     DEF Next, Incoming, Owner, Peer
LEMMA RevokedNext ==
  ASSUME TypeInv, OwnerInv, RevokedInv, [Next]_vars
  PROVE  RevokedInv'
<1>1. ASSUME NEW q \in Ours, SendCreate(q) PROVE RevokedInv'
  <2>1. q \in Quotes /\ q \notin Theirs
    BY QuotesAssumption DEF Quotes
  <2>2. CASE Local(q)
    <3>1. /\ Fresh(q) \in Stamps /\ Fresh(q)[1] = q /\ Fresh(q) # None /\ stamp'[Fresh(q)] = "live"
          /\ \A s \in Stamps : stamp'[s] = stamp[s] \/ stamp'[s] = "live"
      BY <1>1, <2>1, <2>2, Minting DEF QuoteInv, SendCreate
    <3> QED
      BY <1>1, <2>1, <2>2, <3>1, QuotesAssumption
         DEF SendCreate, config, TypeInv, TypeOK, RevokedInv, Local
  <2>3. CASE ~Local(q)
    BY <1>1, <2>1, <2>3, QuotesAssumption
       DEF SendCreate, config, TypeInv, TypeOK, RevokedInv, Local
  <2> QED
    BY <2>2, <2>3
<1>2. ASSUME NEW m \in wire, NEW reached \in BOOLEAN, Accept(m, reached) PROVE RevokedInv'
  BY <1>2, QuotesAssumption DEF Accept, config, quoting, TypeInv, TypeOK, RevokedInv, Local
<1>3. ASSUME NEW m \in wire, Reject(m) PROVE RevokedInv'
  BY <1>3, QuotesAssumption DEF Reject, config, RevokedInv, Local
<1>4. ASSUME NEW m \in wire, Delete(m) PROVE RevokedInv'
  BY <1>4, QuotesAssumption DEF Delete, config, RevokedInv, Local
<1>5. ASSUME NEW q \in Ours, Edit(q) PROVE RevokedInv'
  BY <1>5, QuotesAssumption DEF Edit, config, quoting, RevokedInv, Local
<1>6. ASSUME NEW w \in pending, WriteEdit(w) PROVE RevokedInv'
  BY <1>6, QuotesAssumption DEF WriteEdit, config, RevokedInv, Local
<1>7. ASSUME NEW x \in Ours \cup Posts, SendDelete(x) PROVE RevokedInv'
  BY <1>7, QuotesAssumption DEF SendDelete, config, quoting, RevokedInv, Local
<1>8. ASSUME NEW m \in wire, Request(m) PROVE RevokedInv'
  <2>1. m.of \in Quotes
    BY <1>8 DEF QuoteInv, TypeInv, TypeOK, Quotes
  <2>2. \A s \in Stamps : stamp'[s] = stamp[s] \/ stamp'[s] = "live"
    BY <1>8, <2>1, Minting DEF QuoteInv, Request, Grant, Refuse, Handled
  <2> QED
    BY <1>8, <2>1, <2>2 DEF Request, config, quoting, RevokedInv, Local
<1>9. ASSUME NEW x \in Theirs, SendQuoteAccept(x) PROVE RevokedInv'
  <2>1. x \in Quotes
    BY <1>9 DEF QuoteInv, TypeInv, TypeOK, Quotes
  <2>2. \A s \in Stamps : stamp'[s] = stamp[s] \/ stamp'[s] = "live"
    BY <1>9, <2>1, Minting DEF QuoteInv, SendQuoteAccept
  <2> QED
    BY <1>9, <2>1, <2>2 DEF SendQuoteAccept, config, quoting, RevokedInv, Local
<1>10. ASSUME NEW x \in Theirs, SendQuoteReject(x) PROVE RevokedInv'
  BY <1>10, QuotesAssumption DEF SendQuoteReject, config, quoting, RevokedInv, Local
<1>11. ASSUME NEW m \in wire, NEW reached \in BOOLEAN, Create(m, reached) PROVE RevokedInv'
  BY <1>11, QuotesAssumption DEF Create, config, RevokedInv, Local
<1>12. ASSUME NEW m \in wire, Update(m) PROVE RevokedInv'
  BY <1>12, QuotesAssumption DEF Update, config, quoting, RevokedInv, Local
<1>13. ASSUME NEW x \in Theirs, DeleteNote(x) PROVE RevokedInv'
  BY <1>13, QuotesAssumption DEF DeleteNote, config, quoting, RevokedInv, Local
<1>14. ASSUME NEW x \in Theirs, Revoke(x) PROVE RevokedInv'
  BY <1>14, QuotesAssumption DEF Revoke, config, quoting, RevokedInv, Local
<1>15. ASSUME NEW w \in pending, WriteRevoke(w) PROVE RevokedInv'
  BY <1>15, QuotesAssumption DEF WriteRevoke, config, quoting, OwnerInv, RevokedInv, Local
<1>16. ASSUME NEW m \in wire, PeerGrants(m) PROVE RevokedInv'
  <2>1. m.of \in Quotes
    BY <1>16 DEF QuoteInv, TypeInv, TypeOK, Quotes
  <2>2. \A s \in Stamps : stamp'[s] = stamp[s] \/ stamp'[s] = "live"
    BY <1>16, <2>1, Minting DEF QuoteInv, PeerGrants, Grant, Refuse, Handled
  <2> QED
    BY <1>16, <2>1, <2>2 DEF PeerGrants, config, quoting, RevokedInv, Local
<1>17. ASSUME NEW s \in Stamps, PeerRevokes(s) PROVE RevokedInv'
  BY <1>17, QuotesAssumption DEF PeerRevokes, config, quoting, RevokedInv, Local
<1>18. ASSUME NEW x \in Theirs, PeerAsks(x) PROVE RevokedInv'
  BY <1>18, QuotesAssumption DEF PeerAsks, config, quoting, RevokedInv, Local
<1>19. ASSUME NEW x \in Theirs, PeerPublishes(x) PROVE RevokedInv'
  BY <1>19, QuotesAssumption DEF PeerPublishes, config, quoting, RevokedInv, Local
<1>20. ASSUME NEW m \in wire, PeerUpdates(m) PROVE RevokedInv'
  BY <1>20, QuotesAssumption DEF PeerUpdates, config, quoting, RevokedInv, Local
<1>21. ASSUME UNCHANGED vars PROVE RevokedInv'
  BY <1>21 DEF vars, config, quoting, RevokedInv, Local
<1> QED
  BY <1>1, <1>2, <1>3, <1>4, <1>5, <1>6, <1>7, <1>8, <1>9, <1>10, <1>11, <1>12, <1>13,
       <1>14, <1>15, <1>16, <1>17, <1>18, <1>19, <1>20, <1>21
     DEF Next, Incoming, Owner, Peer

-----------------------------------------------------------------------------
(* What is shown. *)

LEMMA StandsNext ==
  ASSUME QuoteInv, [Next]_vars
  PROVE  StandsInv'
<1>1. ASSUME NEW q \in Ours, SendCreate(q) PROVE StandsInv'
  <2>1. q \in Quotes /\ q \notin Theirs
    BY QuotesAssumption DEF Quotes
  <2>2. CASE Local(q)
    <3>1. /\ Fresh(q) \in Stamps /\ Fresh(q)[1] = q /\ Fresh(q) # None /\ stamp'[Fresh(q)] = "live"
          /\ \A s \in Stamps : stamp'[s] = stamp[s] \/ stamp'[s] = "live"
      BY <1>1, <2>1, <2>2, Minting DEF QuoteInv, SendCreate
    <3> QED
      BY <1>1, <2>1, <2>2, <3>1, QuotesAssumption DEF SendCreate, config, quoted, TypeInv,
           TypeOK, StandsInv, QuoteInv, Authorized, Local
  <2>3. CASE ~Local(q)
    BY <1>1, <2>1, <2>3, QuotesAssumption DEF SendCreate, config, quoted, TypeInv, TypeOK,
         StandsInv, QuoteInv, Authorized, Local
  <2> QED
    BY <2>2, <2>3
<1>2. ASSUME NEW m \in wire, NEW reached \in BOOLEAN, Accept(m, reached) PROVE StandsInv'
  <2> DEFINE q == m.of
  <2>1. q \in Quotes /\ q \in Ours /\ q \notin Theirs
    BY <1>2, QuotesAssumption DEF Accept, Quotes
  <2>2. wire' = wire \ {m} /\ m.type = "Accept" /\ UNCHANGED <<Of, row, stamp, verified>>
    BY <1>2 DEF Accept, Handled, config, quoted
  <2>3. CASE state[q] = "pending" /\ Verified(m.stamp, reached)
    <3>1. ~Local(q) /\ m.stamp # None /\ m.stamp[1] = q
      BY <1>2, <2>1, <2>3 DEF QuoteInv, RevokedInv, OwnerInv, Verified
    <3>2. stamp[m.stamp] = "live"
      BY <2>3, <3>1 DEF Verified
    <3>3. /\ state' = [state EXCEPT ![q] = "accepted"] /\ auth' = [auth EXCEPT ![q] = m.stamp]
          /\ state \in [Ours -> {"none", "pending", "accepted", "rejected", "revoked"}]
          /\ auth \in [Quotes -> Stamps \cup {None}]
      BY <1>2, <2>3 DEF Accept, QuoteInv, TypeInv, TypeOK
    <3> QED
      BY <2>1, <2>2, <3>1, <3>2, <3>3 DEF QuoteInv, StandsInv, Authorized, Local, Msg
  <2>4. CASE ~(state[q] = "pending" /\ Verified(m.stamp, reached))
    <3>1. auth' = auth /\ \A y \in Ours : state'[y] = "accepted" => state[y] = "accepted"
      BY <1>2, <2>1, <2>4 DEF Accept, quoting, QuoteInv, TypeInv, TypeOK
    <3> QED
      BY <2>2, <3>1 DEF QuoteInv, StandsInv, Authorized, Local, Msg
  <2> QED
    BY <2>3, <2>4
<1>3. ASSUME NEW m \in wire, Reject(m) PROVE StandsInv'
  BY <1>3, QuotesAssumption DEF Reject, Handled, Msg, config, quoted, StandsInv, QuoteInv,
       Authorized, Local, Handled
<1>4. ASSUME NEW m \in wire, Delete(m) PROVE StandsInv'
  BY <1>4, QuotesAssumption DEF Delete, Handled, Msg, config, Quotes, StandsInv, QuoteInv,
       Authorized, Local, Handled
<1>5. ASSUME NEW q \in Ours, Edit(q) PROVE StandsInv'
  BY <1>5, QuotesAssumption
     DEF Edit, config, quoting, quoted, StandsInv, QuoteInv, Authorized, Local
<1>6. ASSUME NEW w \in pending, WriteEdit(w) PROVE StandsInv'
  BY <1>6, QuotesAssumption
     DEF WriteEdit, config, quoted, StandsInv, QuoteInv, Authorized, Local
<1>7. ASSUME NEW x \in Ours \cup Posts, SendDelete(x) PROVE StandsInv'
  BY <1>7, QuotesAssumption
     DEF SendDelete, config, quoting, quoted, StandsInv, QuoteInv, Authorized, Local
<1>8. ASSUME NEW m \in wire, Request(m) PROVE StandsInv'
  <2>1. m.of \in Quotes
    BY <1>8 DEF QuoteInv, TypeInv, TypeOK, Quotes
  <2>2. \A s \in Stamps : stamp'[s] = stamp[s] \/ stamp'[s] = "live"
    BY <1>8, <2>1, Minting DEF QuoteInv, Request, Grant, Refuse, Handled
  <2> QED
    BY <1>8, <2>1, <2>2 DEF Request, Grant, Refuse, Handled, Msg, config, quoting, quoted,
         TypeInv, TypeOK, StandsInv, QuoteInv, Authorized, Local
<1>9. ASSUME NEW x \in Theirs, SendQuoteAccept(x) PROVE StandsInv'
  <2>1. x \in Quotes
    BY <1>9 DEF QuoteInv, TypeInv, TypeOK, Quotes
  <2>2. \A s \in Stamps : stamp'[s] = stamp[s] \/ stamp'[s] = "live"
    BY <1>9, <2>1, Minting DEF QuoteInv, SendQuoteAccept
  <2> QED
    BY <1>9, <2>1, <2>2 DEF SendQuoteAccept, config, quoting, quoted, TypeInv, TypeOK,
         StandsInv, QuoteInv, Authorized, Local
<1>10. ASSUME NEW x \in Theirs, SendQuoteReject(x) PROVE StandsInv'
  BY <1>10, QuotesAssumption
     DEF SendQuoteReject, config, quoting, quoted, StandsInv, QuoteInv, Authorized, Local
<1>11. ASSUME NEW m \in wire, NEW reached \in BOOLEAN, Create(m, reached) PROVE StandsInv'
  <2> DEFINE x == m.of
  <2>1. x \in Quotes /\ x \in Theirs /\ x \notin Ours /\ row[x] = "none"
    BY <1>11, QuotesAssumption DEF Create, Quotes, QuoteInv, OwnerInv, CreateInv
  <2>2. /\ wire' = wire \ {m} /\ m.type = "Create" /\ UNCHANGED <<Of, stamp, state>>
        /\ row' = [row EXCEPT ![x] = "live"] /\ auth' = [auth EXCEPT ![x] = m.stamp]
        /\ verified' = [verified EXCEPT ![x] = Verified(m.stamp, reached)]
    BY <1>11 DEF Create, Handled, config
  <2>3. /\ row \in [Posts \cup Quotes -> {"none", "live", "deleted"}] /\ verified \in [Theirs -> BOOLEAN]
        /\ auth \in [Quotes -> Stamps \cup {None}] /\ m.stamp \in Stamps \cup {None}
        /\ stamp \in [Stamps -> {"none", "live", "revoked"}]
    BY <1>11 DEF QuoteInv, TypeInv, TypeOK
  <2>4. ASSUME Verified(m.stamp, reached) PROVE m.stamp # None /\ stamp[m.stamp] = "live"
    <3>1. m.stamp # None /\ m.stamp \in Stamps /\ m.stamp[1] = x
      BY <1>11, <2>3, <2>4 DEF Verified, QuoteInv, OwnerInv
    <3>2. stamp[m.stamp] = "revoked" => ~Local(x)
      BY <2>1, <3>1 DEF QuoteInv, RevokedInv
    <3> QED
      BY <2>3, <2>4, <3>1, <3>2 DEF Verified
  <2>5. ASSUME NEW y \in Quotes, Authorized(y)', row'[y] # "deleted"
        PROVE  /\ auth'[y] # None
               /\ stamp'[auth'[y]] = "live" \/ (~Local(y)' /\ Msg("Delete", y, auth'[y]) \in wire')
    <3>1. CASE y = x
      BY <2>1, <2>2, <2>3, <2>4, <2>5, <3>1 DEF Authorized
    <3>2. CASE y # x
      BY <2>1, <2>2, <2>3, <2>5, <3>2
         DEF Authorized, QuoteInv, StandsInv, Local, Msg, Quotes
    <3> QED
      BY <3>1, <3>2
  <2> QED
    BY <2>5 DEF StandsInv
<1>12. ASSUME NEW m \in wire, Update(m) PROVE StandsInv'
  BY <1>12, QuotesAssumption DEF Update, Handled, Msg, config, quoting, quoted, StandsInv,
       QuoteInv, Authorized, Local, Handled
<1>13. ASSUME NEW x \in Theirs, DeleteNote(x) PROVE StandsInv'
  BY <1>13, QuotesAssumption
     DEF DeleteNote, config, quoting, StandsInv, QuoteInv, Authorized, Local
<1>14. ASSUME NEW x \in Theirs, Revoke(x) PROVE StandsInv'
  BY <1>14, QuotesAssumption
     DEF Revoke, config, quoting, quoted, StandsInv, QuoteInv, Authorized, Local
<1>15. ASSUME NEW w \in pending, WriteRevoke(w) PROVE StandsInv'
  BY <1>15, QuotesAssumption DEF WriteRevoke, config, quoting, TypeInv, TypeOK, OwnerInv,
       StandsInv, QuoteInv, Authorized, Local
<1>16. ASSUME NEW m \in wire, PeerGrants(m) PROVE StandsInv'
  <2>1. m.of \in Quotes
    BY <1>16 DEF QuoteInv, TypeInv, TypeOK, Quotes
  <2>2. \A s \in Stamps : stamp'[s] = stamp[s] \/ stamp'[s] = "live"
    BY <1>16, <2>1, Minting DEF QuoteInv, PeerGrants, Grant, Refuse, Handled
  <2> QED
    BY <1>16, <2>1, <2>2 DEF PeerGrants, Grant, Refuse, Handled, Msg, config, quoting,
         quoted, TypeInv, TypeOK, StandsInv, QuoteInv, Authorized, Local
<1>17. ASSUME NEW s \in Stamps, PeerRevokes(s) PROVE StandsInv'
  BY <1>17, QuotesAssumption DEF PeerRevokes, config, quoting, quoted, OwnerInv, StandsInv,
       QuoteInv, Authorized, Local
<1>18. ASSUME NEW x \in Theirs, PeerAsks(x) PROVE StandsInv'
  BY <1>18, QuotesAssumption
     DEF PeerAsks, config, quoting, quoted, StandsInv, QuoteInv, Authorized, Local
<1>19. ASSUME NEW x \in Theirs, PeerPublishes(x) PROVE StandsInv'
  BY <1>19, QuotesAssumption
     DEF PeerPublishes, config, quoting, quoted, StandsInv, QuoteInv, Authorized, Local
<1>20. ASSUME NEW m \in wire, PeerUpdates(m) PROVE StandsInv'
  BY <1>20, QuotesAssumption DEF PeerUpdates, Handled, Msg, config, quoting, quoted,
       StandsInv, QuoteInv, Authorized, Local, Handled
<1>21. ASSUME UNCHANGED vars PROVE StandsInv'
  BY <1>21 DEF vars, config, quoting, quoted, StandsInv, QuoteInv, Authorized, Local
<1> QED
  BY <1>1, <1>2, <1>3, <1>4, <1>5, <1>6, <1>7, <1>8, <1>9, <1>10, <1>11, <1>12, <1>13,
       <1>14, <1>15, <1>16, <1>17, <1>18, <1>19, <1>20, <1>21
     DEF Next, Incoming, Owner, Peer

-----------------------------------------------------------------------------
(* What is announced. *)

LEMMA NoteNext ==
  ASSUME TypeInv, OwnerInv, NoteInv, [Next]_vars
  PROVE  NoteInv'
<1>1. ASSUME NEW q \in Ours, SendCreate(q) PROVE NoteInv'
  BY <1>1, QuotesAssumption
     DEF SendCreate, Quotes, TypeInv, TypeOK, NoteInv, AcceptedIsAnnounced
<1>2. ASSUME NEW m \in wire, NEW reached \in BOOLEAN, Accept(m, reached) PROVE NoteInv'
  BY <1>2, QuotesAssumption
     DEF Accept, quoting, Quotes, TypeInv, TypeOK, NoteInv, AcceptedIsAnnounced
<1>3. ASSUME NEW m \in wire, Reject(m) PROVE NoteInv'
  BY <1>3, QuotesAssumption DEF Reject, NoteInv, AcceptedIsAnnounced
<1>4. ASSUME NEW m \in wire, Delete(m) PROVE NoteInv'
  BY <1>4, QuotesAssumption DEF Delete, NoteInv, AcceptedIsAnnounced
<1>5. ASSUME NEW q \in Ours, Edit(q) PROVE NoteInv'
  BY <1>5, QuotesAssumption DEF Edit, quoting, NoteInv, AcceptedIsAnnounced
<1>6. ASSUME NEW w \in pending, WriteEdit(w) PROVE NoteInv'
  BY <1>6, QuotesAssumption DEF WriteEdit, TypeInv, TypeOK, NoteInv, AcceptedIsAnnounced
<1>7. ASSUME NEW x \in Ours \cup Posts, SendDelete(x) PROVE NoteInv'
  BY <1>7, QuotesAssumption DEF SendDelete, quoting, NoteInv, AcceptedIsAnnounced
<1>8. ASSUME NEW m \in wire, Request(m) PROVE NoteInv'
  BY <1>8, QuotesAssumption DEF Request, quoting, NoteInv, AcceptedIsAnnounced
<1>9. ASSUME NEW x \in Theirs, SendQuoteAccept(x) PROVE NoteInv'
  BY <1>9, QuotesAssumption DEF SendQuoteAccept, quoting, NoteInv, AcceptedIsAnnounced
<1>10. ASSUME NEW x \in Theirs, SendQuoteReject(x) PROVE NoteInv'
  BY <1>10, QuotesAssumption DEF SendQuoteReject, quoting, NoteInv, AcceptedIsAnnounced
<1>11. ASSUME NEW m \in wire, NEW reached \in BOOLEAN, Create(m, reached) PROVE NoteInv'
  BY <1>11, QuotesAssumption DEF Create, OwnerInv, NoteInv, AcceptedIsAnnounced
<1>12. ASSUME NEW m \in wire, Update(m) PROVE NoteInv'
  BY <1>12, QuotesAssumption DEF Update, quoting, NoteInv, AcceptedIsAnnounced
<1>13. ASSUME NEW x \in Theirs, DeleteNote(x) PROVE NoteInv'
  BY <1>13, QuotesAssumption DEF DeleteNote, quoting, NoteInv, AcceptedIsAnnounced
<1>14. ASSUME NEW x \in Theirs, Revoke(x) PROVE NoteInv'
  BY <1>14, QuotesAssumption DEF Revoke, quoting, NoteInv, AcceptedIsAnnounced
<1>15. ASSUME NEW w \in pending, WriteRevoke(w) PROVE NoteInv'
  BY <1>15, QuotesAssumption DEF WriteRevoke, quoting, NoteInv, AcceptedIsAnnounced
<1>16. ASSUME NEW m \in wire, PeerGrants(m) PROVE NoteInv'
  BY <1>16, QuotesAssumption DEF PeerGrants, quoting, NoteInv, AcceptedIsAnnounced
<1>17. ASSUME NEW s \in Stamps, PeerRevokes(s) PROVE NoteInv'
  BY <1>17, QuotesAssumption DEF PeerRevokes, quoting, NoteInv, AcceptedIsAnnounced
<1>18. ASSUME NEW x \in Theirs, PeerAsks(x) PROVE NoteInv'
  BY <1>18, QuotesAssumption DEF PeerAsks, quoting, NoteInv, AcceptedIsAnnounced
<1>19. ASSUME NEW x \in Theirs, PeerPublishes(x) PROVE NoteInv'
  BY <1>19, QuotesAssumption DEF PeerPublishes, quoting, NoteInv, AcceptedIsAnnounced
<1>20. ASSUME NEW m \in wire, PeerUpdates(m) PROVE NoteInv'
  BY <1>20, QuotesAssumption DEF PeerUpdates, quoting, NoteInv, AcceptedIsAnnounced
<1>21. ASSUME UNCHANGED vars PROVE NoteInv'
  BY <1>21 DEF vars, quoting, NoteInv, AcceptedIsAnnounced
<1> QED
  BY <1>1, <1>2, <1>3, <1>4, <1>5, <1>6, <1>7, <1>8, <1>9, <1>10, <1>11, <1>12, <1>13,
       <1>14, <1>15, <1>16, <1>17, <1>18, <1>19, <1>20, <1>21
     DEF Next, Incoming, Owner, Peer

-----------------------------------------------------------------------------
(* What is counted. *)

\* A count depends on the rows and the columns of the notes that quote the post.
LEMMA CountFrame ==
  ASSUME NEW p, NEW R, NEW V, NEW S, NEW W,
         \A x \in Theirs : Of[x] = p => (R[x] = "live" /\ V[x] <=> S[x] = "live" /\ W[x])
  PROVE  QuotesCount(p, R, V) = QuotesCount(p, S, W)
<1>1. {x \in Theirs : Of[x] = p /\ R[x] = "live" /\ V[x]} = {x \in Theirs : Of[x] = p /\ S[x] = "live" /\ W[x]}
  OBVIOUS
<1> QED
  BY <1>1 DEF QuotesCount

LEMMA CountNext ==
  ASSUME QuoteInv, CountInv, [Next]_vars
  PROVE  CountInv'
<1>1. ASSUME NEW q \in Ours, SendCreate(q) PROVE CountInv'
  BY <1>1, QuotesAssumption DEF SendCreate, config, quoted, CountInv, QuotesCount
<1>2. ASSUME NEW m \in wire, NEW reached \in BOOLEAN, Accept(m, reached) PROVE CountInv'
  BY <1>2, QuotesAssumption DEF Accept, config, quoted, CountInv, QuotesCount
<1>3. ASSUME NEW m \in wire, Reject(m) PROVE CountInv'
  BY <1>3, QuotesAssumption DEF Reject, config, quoted, CountInv, QuotesCount
<1>4. ASSUME NEW m \in wire, Delete(m) PROVE CountInv'
  <2>1. /\ UNCHANGED <<Of, row, count, drift>>
        /\ verified' = [x \in Theirs |-> IF auth[x] = m.stamp /\ verified[x] THEN FALSE ELSE verified[x]]
        /\ m.stamp # None /\ ~Local(m.stamp[1]) /\ verified \in [Theirs -> BOOLEAN]
    BY <1>4 DEF Delete, config, QuoteInv, TypeInv, TypeOK
  <2>2. ASSUME NEW p \in Posts
     PROVE QuotesCount(p, row, verified) = QuotesCount(p, row, verified')
    <3>1. \A x \in Theirs : Of[x] = p => auth[x] # m.stamp
      BY <2>1, QuotesAssumption DEF Local, QuoteInv, OwnerInv, Quotes
    <3>2. \A x \in Theirs : Of[x] = p => (verified[x] <=> verified'[x])
      BY <2>1, <3>1
    <3> QED
      BY <3>2, CountFrame
  <2>3. ASSUME NEW p \in Posts
     PROVE QuotesCount(p, row, verified)' = QuotesCount(p, row, verified')
    BY <2>1 DEF QuotesCount
  <2> QED
    BY <2>1, <2>2, <2>3 DEF CountInv
<1>5. ASSUME NEW q \in Ours, Edit(q) PROVE CountInv'
  BY <1>5, QuotesAssumption DEF Edit, config, quoted, CountInv, QuotesCount
<1>6. ASSUME NEW w \in pending, WriteEdit(w) PROVE CountInv'
  BY <1>6, QuotesAssumption DEF WriteEdit, config, quoted, CountInv, QuotesCount
<1>7. ASSUME NEW x \in Ours \cup Posts, SendDelete(x) PROVE CountInv'
  BY <1>7, QuotesAssumption DEF SendDelete, config, quoted, Quotes, CountInv, QuotesCount
<1>8. ASSUME NEW m \in wire, Request(m) PROVE CountInv'
  BY <1>8, QuotesAssumption DEF Request, config, quoted, CountInv, QuotesCount
<1>9. ASSUME NEW x \in Theirs, SendQuoteAccept(x) PROVE CountInv'
  BY <1>9, QuotesAssumption DEF SendQuoteAccept, config, quoted, CountInv, QuotesCount
<1>10. ASSUME NEW x \in Theirs, SendQuoteReject(x) PROVE CountInv'
  BY <1>10, QuotesAssumption DEF SendQuoteReject, config, quoted, CountInv, QuotesCount
<1>11. ASSUME NEW m \in wire, NEW reached \in BOOLEAN, Create(m, reached) PROVE CountInv'
  <2> DEFINE x == m.of
             R == [row EXCEPT ![x] = "live"]
             V == [verified EXCEPT ![x] = Verified(m.stamp, reached)]
  <2>1. /\ x \in Theirs /\ row[x] = "none" /\ verified \in [Theirs -> BOOLEAN]
        /\ row \in [Posts \cup Quotes -> {"none", "live", "deleted"}] /\ count \in [Posts -> Int]
    BY <1>11 DEF Create, QuoteInv, OwnerInv, CreateInv, TypeInv, TypeOK
  <2>2. /\ row' = R /\ verified' = V /\ UNCHANGED Of
        /\ IF V[x] THEN Recount(Of[x], R, V) ELSE UNCHANGED <<count, drift>>
    BY <1>11 DEF Create, config
  <2>3. ASSUME NEW p \in Posts, p # Of[x] \/ ~V[x]
     PROVE QuotesCount(p, row, verified) = QuotesCount(p, R, V)
    <3>1. \A y \in Theirs : Of[y] = p => (row[y] = "live" /\ verified[y] <=> R[y] = "live" /\ V[y])
      BY <2>1, <2>3 DEF Quotes
    <3> HIDE DEF R, V
    <3> QED
      BY <3>1, CountFrame
  <2>4. \A p \in Posts : QuotesCount(p, row, verified)' = QuotesCount(p, R, V)
    BY <2>2 DEF QuotesCount
  <2> HIDE DEF R, V
  <2>5. CASE V[x] /\ Of[x] # None
    <3>1. count' = [count EXCEPT ![Of[x]] = QuotesCount(Of[x], R, V)] /\ drift' = drift \ {Of[x]}
      BY <2>2, <2>5 DEF Recount
    <3> QED
      BY <2>1, <2>3, <2>4, <3>1 DEF CountInv
  <2>6. CASE ~(V[x] /\ Of[x] # None)
    <3>1. UNCHANGED <<count, drift>> /\ \A p \in Posts : p # Of[x] \/ ~V[x]
      BY <2>2, <2>6, QuotesAssumption DEF Recount
    <3> QED
      BY <2>3, <2>4, <3>1 DEF CountInv
  <2> QED
    BY <2>5, <2>6
<1>12. ASSUME NEW m \in wire, Update(m) PROVE CountInv'
  BY <1>12, QuotesAssumption DEF Update, config, quoted, CountInv, QuotesCount
<1>13. ASSUME NEW x \in Theirs, DeleteNote(x) PROVE CountInv'
  <2> DEFINE R == [row EXCEPT ![x] = "deleted"]
  <2>1. /\ verified \in [Theirs -> BOOLEAN] /\ count \in [Posts -> Int] /\ x \in Quotes
        /\ row \in [Posts \cup Quotes -> {"none", "live", "deleted"}]
    BY DEF QuoteInv, TypeInv, TypeOK, Quotes
  <2>2. row' = R /\ UNCHANGED <<Of, verified>>
    BY <1>13 DEF DeleteNote, config
  <2>3. ASSUME NEW p \in Posts, p # Of[x] \/ ~verified[x]
     PROVE QuotesCount(p, row, verified) = QuotesCount(p, R, verified)
    <3>1. \A y \in Theirs : Of[y] = p => (row[y] = "live" /\ verified[y] <=> R[y] = "live" /\ verified[y])
      BY <2>1, <2>3 DEF Quotes
    <3> HIDE DEF R
    <3> QED
      BY <3>1, CountFrame
  <2>4. \A p \in Posts : QuotesCount(p, row, verified)' = QuotesCount(p, R, verified)
    BY <2>2 DEF QuotesCount
  <2>5. CASE verified[x] /\ Local(x)
    <3>1. count' = [count EXCEPT ![Of[x]] = QuotesCount(Of[x], row, verified) - 1]
      BY <1>13, <2>5 DEF DeleteNote, Revert
    <3>2. CASE row[x] = "live"
      <4>1. QuotesCount(Of[x], R, verified) = QuotesCount(Of[x], row, verified) - 1
        <5> DEFINE L == {y \in Theirs : Of[y] = Of[x] /\ row[y] = "live" /\ verified[y]}
        <5>1. IsFiniteSet(L)
          <6>1. IsFiniteSet(Theirs)
            BY QuotesAssumption, FS_Subset DEF Quotes
          <6> QED
            BY <6>1, FS_Subset
        <5>2. x \in L
          BY <2>5, <3>2
        <5>3. L \ {x} = {y \in Theirs : Of[y] = Of[x] /\ R[y] = "live" /\ verified[y]}
          BY <2>1 DEF Quotes
        <5>4. Cardinality(L \ {x}) = Cardinality(L) - 1
          BY <5>1, <5>2, FS_RemoveElement
        <5> QED
          BY <5>3, <5>4 DEF QuotesCount
      <4>2. drift' = drift \ {Of[x]}
        BY <1>13, <2>5, <3>2 DEF DeleteNote
      <4> HIDE DEF R
      <4> QED
        BY <2>1, <2>3, <2>4, <3>1, <4>1, <4>2 DEF CountInv
    <3>3. CASE row[x] # "live"
      <4>1. drift' = drift \cup {Of[x]}
        BY <1>13, <2>5, <3>3 DEF DeleteNote
      <4> HIDE DEF R
      <4> QED
        BY <2>1, <2>3, <2>4, <3>1, <4>1 DEF CountInv
    <3> QED
      BY <3>2, <3>3
  <2>6. CASE ~(verified[x] /\ Local(x))
    <3>1. UNCHANGED <<count, drift>> /\ \A p \in Posts : p # Of[x] \/ ~verified[x]
      BY <1>13, <2>6, QuotesAssumption DEF DeleteNote, Local
    <3> HIDE DEF R
    <3> QED
      BY <2>3, <2>4, <3>1 DEF CountInv
  <2> QED
    BY <2>5, <2>6
<1>14. ASSUME NEW x \in Theirs, Revoke(x) PROVE CountInv'
  BY <1>14, QuotesAssumption DEF Revoke, config, quoted, CountInv, QuotesCount
<1>15. ASSUME NEW w \in pending, WriteRevoke(w) PROVE CountInv'
  <2> DEFINE x == w.of
             V == [verified EXCEPT ![x] = FALSE]
  <2>1. x \in Theirs /\ Local(x) /\ verified \in [Theirs -> BOOLEAN] /\ count \in [Posts -> Int]
    BY <1>15 DEF WriteRevoke, QuoteInv, OwnerInv, TypeInv, TypeOK
  <2>2. row' = row /\ verified' = V /\ UNCHANGED Of /\ Recount(Of[x], row, V)
    BY <1>15 DEF WriteRevoke, config
  <2>3. ASSUME NEW p \in Posts, p # Of[x]
     PROVE QuotesCount(p, row, verified) = QuotesCount(p, row, V)
    <3>1. \A y \in Theirs : Of[y] = p => (verified[y] <=> V[y])
      BY <2>1, <2>3
    <3> HIDE DEF V
    <3> QED
      BY <3>1, CountFrame
  <2>4. \A p \in Posts : QuotesCount(p, row, verified)' = QuotesCount(p, row, V)
    BY <2>2 DEF QuotesCount
  <2> HIDE DEF V
  <2>5. count' = [count EXCEPT ![Of[x]] = QuotesCount(Of[x], row, V)] /\ drift' = drift \ {Of[x]}
    BY <2>1, <2>2 DEF Recount, Local
  <2> QED
    BY <2>1, <2>3, <2>4, <2>5 DEF CountInv
<1>16. ASSUME NEW m \in wire, PeerGrants(m) PROVE CountInv'
  BY <1>16, QuotesAssumption DEF PeerGrants, config, quoted, CountInv, QuotesCount
<1>17. ASSUME NEW s \in Stamps, PeerRevokes(s) PROVE CountInv'
  BY <1>17, QuotesAssumption DEF PeerRevokes, config, quoted, CountInv, QuotesCount
<1>18. ASSUME NEW x \in Theirs, PeerAsks(x) PROVE CountInv'
  BY <1>18, QuotesAssumption DEF PeerAsks, config, quoted, CountInv, QuotesCount
<1>19. ASSUME NEW x \in Theirs, PeerPublishes(x) PROVE CountInv'
  BY <1>19, QuotesAssumption DEF PeerPublishes, config, quoted, CountInv, QuotesCount
<1>20. ASSUME NEW m \in wire, PeerUpdates(m) PROVE CountInv'
  BY <1>20, QuotesAssumption DEF PeerUpdates, config, quoted, CountInv, QuotesCount
<1>21. ASSUME UNCHANGED vars PROVE CountInv'
  BY <1>21 DEF vars, Msg, config, quoting, quoted, bounds, Quotes, CountInv, QuotesCount
<1> QED
  BY <1>1, <1>2, <1>3, <1>4, <1>5, <1>6, <1>7, <1>8, <1>9, <1>10, <1>11, <1>12, <1>13,
       <1>14, <1>15, <1>16, <1>17, <1>18, <1>19, <1>20, <1>21
     DEF Next, Incoming, Owner, Peer
-----------------------------------------------------------------------------
(* The theorems. *)

LEMMA QuoteInit ==
  Init => QuoteInv /\ NoteInv /\ CountInv
<1> SUFFICES ASSUME Init PROVE QuoteInv /\ NoteInv /\ CountInv
  OBVIOUS
<1>1. TypeInv
  BY QuotesAssumption DEF Init, TypeInv, TypeOK, Quotes
<1>2. OwnerInv /\ CreateInv /\ RevokedInv /\ StandsInv
  BY QuotesAssumption
     DEF Init, OwnerInv, CreateInv, RevokedInv, StandsInv, Authorized, Quotes
<1>3. NoteInv
  BY DEF Init, NoteInv, AcceptedIsAnnounced
<1>4. CountInv
  <2>1. ASSUME NEW p \in Posts
     PROVE {x \in Theirs : Of[x] = p /\ row[x] = "live" /\ verified[x]} = {}
    BY DEF Init
  <2>2. \A p \in Posts : QuotesCount(p, row, verified) = 0
    BY <2>1, FS_EmptySet DEF QuotesCount
  <2> QED
    BY <2>2 DEF Init, CountInv
<1> QED
  BY <1>1, <1>2, <1>3, <1>4 DEF QuoteInv

LEMMA QuoteNext ==
  QuoteInv /\ NoteInv /\ CountInv /\ [Next]_vars => (QuoteInv /\ NoteInv /\ CountInv)'
<1> SUFFICES ASSUME QuoteInv, NoteInv, CountInv, [Next]_vars
             PROVE  (QuoteInv /\ NoteInv /\ CountInv)'
  OBVIOUS
<1>1. TypeInv /\ OwnerInv /\ CreateInv /\ RevokedInv
  BY DEF QuoteInv
<1>2. TypeInv' /\ OwnerInv' /\ CreateInv' /\ RevokedInv'
  BY <1>1, TypeNext, OwnerNext, CreateNext, RevokedNext
<1>3. StandsInv' /\ NoteInv' /\ CountInv'
  BY <1>1, StandsNext, NoteNext, CountNext
<1> QED
  BY <1>2, <1>3 DEF QuoteInv

LEMMA QuoteAlways == Spec => [](QuoteInv /\ NoteInv /\ CountInv)
<1>1. Init => QuoteInv /\ NoteInv /\ CountInv
  BY QuoteInit
<1>2. QuoteInv /\ NoteInv /\ CountInv /\ [Next]_vars => (QuoteInv /\ NoteInv /\ CountInv)'
  BY QuoteNext
<1> QED
  BY <1>1, <1>2, PTL DEF Spec

\* No quote is shown under a stamp that was taken back, except while the Delete
\* that tells of it is on its way: in every order of answers, Creates, Updates,
\* Deletes, revocations and edits.
THEOREM ShownQuotesStand == Spec => []ShownQuoteStands
<1>1. QuoteInv => ShownQuoteStands
  BY DEF QuoteInv, StandsInv, ShownQuoteStands, Displayed
<1> QED
  BY <1>1, QuoteAlways, PTL

\* A count of quotes is right but for the second Deletes of a note, and the
\* columns keep their types.
THEOREM CountsAgree == Spec => []QuotesCountAgrees
<1>1. QuoteInv /\ CountInv => QuotesCountAgrees
  BY DEF QuoteInv, TypeInv, CountInv, QuotesCountAgrees
<1> QED
  BY <1>1, QuoteAlways, PTL

\* The note that followers were sent last carries the stamp of the acceptance,
\* but for an edit that had read the row before it.
THEOREM AcceptsAreAnnounced == Spec => []AcceptedIsAnnounced
<1>1. NoteInv => AcceptedIsAnnounced
  BY DEF NoteInv
<1> QED
  BY <1>1, QuoteAlways, PTL

=============================================================================
