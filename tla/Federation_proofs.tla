-------------------------- MODULE Federation_proofs --------------------------
(***************************************************************************)
(* Theorems about what one server does to another, for every value of the  *)
(* constants: the first part is about OutgoingDelivery, the second about   *)
(* SocialGraph.  The two share no constant, no variable and no definition, *)
(* and a theorem speaks of one of them.                                    *)
(***************************************************************************)
EXTENDS OutgoingDelivery, SocialGraph, FiniteSetTheorems, TLAPS

-----------------------------------------------------------------------------
(* OutgoingDelivery.                                                       *)

\* A batch holds rows whose attempt is counted, only they have answers, and
\* only inserted rows have attempts.
BatchInv ==
  /\ \A r \in batch : tries[r] > 0
  /\ \A r \in Rows \ batch : answer[r] = "pending"
  /\ \A r \in Rows : tries[r] > 0 => r \in 1..lastId

TypeInv == TypeOK /\ BatchInv

\* 1 when the recipient's acceptance is on record, in memory or on disk.
Known(r) == IF r \in sent \/ answer[r] = "accepted" THEN 1 ELSE 0

\* Where each 2xx answer, made or still to come, is accounted for.
AcksInv ==
  \A r \in Rows :
    /\ r \in sent \/ answer[r] = "accepted" => acks[r] > 0
    /\ acks[r] + stray[r] <= losses + aborts + Known(r)
    /\ acks[r] + stray[r] <= tries[r]
    /\ r \in Unanswered => acks[r] + stray[r] < tries[r]

\* A row that can still be fetched has an attempt left, or an attempt was lost.
BudgetInv ==
  \A r \in Rows :
    /\ tries[r] <= MaxRetries + losses + aborts
    /\ r \notin batch \union sent \union errored
         => tries[r] < MaxRetries + losses + aborts

-----------------------------------------------------------------------------

\* The wait that Apply writes is a positive number, whatever the header said.
LEMMA SweepPositive ==
  ASSUME NEW r \in Rows, NEW h \in Hints \union {NoHint},
         tries[r] \in 1..MaxRetries
  PROVE  /\ Sweep(r, SetNextTry(r, h)) \in Int
         /\ Sweep(r, SetNextTry(r, h)) > 0
<1>1. ExpBackoff[tries[r]] \in Nat \ {0}
  BY BackoffAssumption, SizesAssumption
<1>2. SetNextTry(r, h) \in Int
  BY <1>1, HintsAssumption DEF SetNextTry
<1>3. SetNextTry(r, NoHint) = ExpBackoff[tries[r]]
  BY DEF SetNextTry
<1>. QED BY <1>1, <1>2, <1>3 DEF Sweep

\* The rows Apply retries have attempts left.
LEMMA RetriedHaveTries ==
  ASSUME TypeInv, NEW r \in Retried
  PROVE  r \in Rows /\ tries[r] \in 1..MaxRetries /\ tries[r] < MaxRetries
<1>1. r \in batch /\ r \in Rows /\ tries[r] \in Nat /\ tries[r] > 0
  BY SizesAssumption DEF TypeInv, TypeOK, BatchInv, Retried, Live, Rows
<1>2. ~ GivesUp(r) /\ answer[r] # "accepted"
  BY <1>1 DEF Retried, Accepted, Refused
<1>. QED BY <1>1, <1>2, SizesAssumption DEF GivesUp

LEMMA TypeInit == Init => TypeInv
BY SizesAssumption
   DEF Init, TypeInv, TypeOK, BatchInv, Live, NoAnswers, NoHints, NoStrays, Rows

LEMMA TypeStep == TypeInv /\ [Next]_vars => TypeInv'
<1> SUFFICES ASSUME TypeInv, [Next]_vars
             PROVE  TypeInv'
  OBVIOUS
<1>. USE DEF TypeInv, TypeOK, BatchInv, Live
<1>0. Live \subseteq Rows /\ batch \subseteq Rows
  BY SizesAssumption DEF Rows
<1>1. CASE Enqueue
  <2>1. lastId' \in 0..MaxRows /\ 1..lastId \subseteq 1..lastId'
    BY <1>1, SizesAssumption DEF Enqueue
  <2>. QED BY <1>1, <2>1 DEF Enqueue
<1>2. CASE Tick
  <2>1. nextTry' \in [Rows -> Int]
    BY <1>2 DEF Tick
  <2>. QED BY <1>2, <2>1 DEF Tick
<1>3. CASE PollEmpty
  BY <1>3 DEF PollEmpty, vars
<1>4. ASSUME NEW unbuilt \in SUBSET FirstDue, Prepare(unbuilt)
      PROVE  TypeInv'
  <2>1. FirstDue \subseteq Live
    BY DEF FirstDue, Due
  <2>2. tries' \in [Rows -> Nat] /\ \A r \in FirstDue : tries'[r] > 0
    BY <1>0, <1>4, <2>1 DEF Prepare
  <2>3. answer' \in [Rows -> Answers \union {"pending", "skipped"}]
    BY <1>4 DEF Prepare, Answers
  <2>. QED BY <1>4, <2>1, <2>2, <2>3 DEF Prepare
<1>5. ASSUME NEW r \in Rows, NEW a \in Answers, NEW h \in Hints \union {NoHint},
             Post(r, a, h)
      PROVE  TypeInv'
  <2>1. answer' \in [Rows -> Answers \union {"pending", "skipped"}]
    BY <1>5 DEF Post
  <2>2. hint' \in [Rows -> Hints \union {NoHint}]
    BY <1>5 DEF Post
  <2>3. \A q \in Rows \ batch : answer'[q] = "pending"
    BY <1>5 DEF Post, IsNext, Group, Unanswered
  <2>. QED BY <1>5, <2>1, <2>2, <2>3 DEF Post, table
<1>6. CASE Apply
  <2>1. nextTry' \in [Rows -> Int]
    BY <1>6, SweepPositive, RetriedHaveTries DEF Apply
  <2>2. /\ sent' \subseteq 1..lastId' /\ errored' \subseteq 1..lastId'
        /\ sent' \intersect errored' = {}
    BY <1>6 DEF Apply, Accepted, Refused, GivesUp
  <2>. QED BY <1>6, <2>1, <2>2 DEF Apply, Leave, NoAnswers, NoHints
<1>7. ASSUME NEW r \in Rows, Abort(r)
      PROVE  TypeInv'
  BY <1>7, SizesAssumption DEF Abort, Leave, NoAnswers, NoHints, table
<1>8. ASSUME NEW r \in Rows, NEW accepted \in BOOLEAN, StrayPost(r, accepted)
      PROVE  TypeInv'
  BY <1>8 DEF StrayPost, table
<1>9. CASE LoseCommit
  BY <1>9, SizesAssumption DEF LoseCommit, Leave, NoAnswers, NoHints, table
<1>10. CASE Crash
  BY <1>10, SizesAssumption DEF Crash, Leave, NoAnswers, NoHints, NoStrays, table
<1>11. CASE Restart
  BY <1>11 DEF Restart, table
<1>12. CASE UNCHANGED vars
  BY <1>12 DEF vars
<1>. QED
  BY <1>1, <1>2, <1>3, <1>4, <1>5, <1>6, <1>7, <1>8, <1>9, <1>10, <1>11, <1>12
     DEF Next, Fetch, Deliver, Raise, Leftover

\* Every variable keeps its type; a batch holds only rows still to deliver;
\* no row is ever both sent and errored.
THEOREM TypeCorrect == Spec => []TypeOK
<1>1. TypeInv => TypeOK
  BY DEF TypeInv
<1>. QED BY <1>1, TypeInit, TypeStep, PTL DEF Spec

-----------------------------------------------------------------------------
(* What the recipients have answered, and what the table says of it. *)

LEMMA AcksInit == Init => AcksInv
BY DEF Init, AcksInv, Known, NoAnswers, NoStrays, Unanswered

LEMMA AcksStep == TypeInv /\ AcksInv /\ [Next]_vars => AcksInv'
<1> SUFFICES ASSUME TypeInv, AcksInv, [Next]_vars
             PROVE  AcksInv'
  OBVIOUS
<1>. USE DEF TypeInv, TypeOK, AcksInv, Known, Unanswered
<1>0. Live \subseteq Rows /\ batch \subseteq Rows /\ sent \subseteq Rows
  BY SizesAssumption DEF Rows, Live
<1>1. CASE Enqueue
  BY <1>1 DEF Enqueue
<1>2. CASE Tick
  BY <1>2 DEF Tick
<1>3. CASE PollEmpty
  BY <1>3 DEF PollEmpty, vars
<1>4. ASSUME NEW unbuilt \in SUBSET FirstDue, Prepare(unbuilt)
      PROVE  AcksInv'
  <2>1. batch' = FirstDue /\ FirstDue \subseteq Rows
    BY <1>0, <1>4 DEF Prepare, FirstDue, Due
  <2>2. \A r \in Rows : answer[r] # "accepted" /\ answer'[r] # "accepted"
    BY <1>4 DEF Prepare, BatchInv
  <2>3. \A r \in Rows : tries'[r] = IF r \in FirstDue THEN tries[r] + 1 ELSE tries[r]
    BY <1>4 DEF Prepare
  <2>. QED BY <1>4, <2>1, <2>2, <2>3 DEF Prepare
<1>5. ASSUME NEW r \in Rows, NEW a \in Answers, NEW h \in Hints \union {NoHint},
             Post(r, a, h)
      PROVE  AcksInv'
  <2>1. r \in batch /\ answer[r] = "pending" /\ r \notin sent
    BY <1>5 DEF Post, IsNext, Live
  <2>2. \A q \in Rows \ {r} :
          /\ acks'[q] = acks[q]
          /\ answer'[q] = answer[q] \/ (q \in Unanswered /\ answer'[q] = "skipped")
    BY <1>5 DEF Post, Group
  <2>3. /\ answer'[r] = a /\ a # "pending"
        /\ acks'[r] = IF a = "accepted" THEN acks[r] + 1 ELSE acks[r]
    BY <1>5 DEF Post, Answers
  <2>4. UNCHANGED <<sent, tries, stray, losses, aborts, batch>>
    BY <1>5 DEF Post, table
  <2>. QED BY <2>1, <2>2, <2>3, <2>4
<1>6. CASE Apply
  <2>1. \A r \in Rows : r \in sent' <=> r \in sent \/ answer[r] = "accepted"
    BY <1>6 DEF Apply, Accepted, BatchInv
  <2>2. batch' = {} /\ \A r \in Rows : answer'[r] = "pending"
    BY <1>6 DEF Apply, Leave, NoAnswers
  <2>. QED BY <1>6, <2>1, <2>2 DEF Apply
<1>7. ASSUME NEW r \in Rows, Abort(r)
      PROVE  AcksInv'
  <2>1. batch' = {} /\ \A q \in Rows : answer'[q] = "pending"
    BY <1>7 DEF Abort, Leave, NoAnswers
  <2>2. \A q \in Rows : stray'[q] = IF q \in Unanswered \ Group(r)
                                    THEN stray[q] + 1 ELSE stray[q]
    BY <1>7 DEF Abort
  <2>3. /\ aborts' = aborts + 1
        /\ UNCHANGED <<sent, tries, acks, losses>>
    BY <1>7 DEF Abort, table
  <2>4. \A q \in Unanswered : answer[q] # "accepted"
    OBVIOUS
  <2>. QED BY <2>1, <2>2, <2>3, <2>4
<1>8. ASSUME NEW r \in Rows, NEW accepted \in BOOLEAN, StrayPost(r, accepted)
      PROVE  AcksInv'
  <2>1. \A q \in Rows : /\ acks'[q] + stray'[q] <= acks[q] + stray[q]
                        /\ acks'[q] >= acks[q]
    BY <1>8 DEF StrayPost
  <2>2. UNCHANGED <<sent, tries, losses, aborts, batch, answer>>
    BY <1>8 DEF StrayPost, table
  <2>3. acks' \in [Rows -> Nat] /\ stray' \in [Rows -> Nat]
    BY <1>8 DEF StrayPost
  <2>. QED BY <2>1, <2>2, <2>3
<1>9. CASE LoseCommit
  BY <1>9 DEF LoseCommit, Leave, NoAnswers, table
<1>10. CASE Crash
  BY <1>10 DEF Crash, Leave, NoAnswers, NoStrays, table
<1>11. CASE Restart
  BY <1>11 DEF Restart, table
<1>12. CASE UNCHANGED vars
  BY <1>12 DEF vars
<1>. QED
  BY <1>1, <1>2, <1>3, <1>4, <1>5, <1>6, <1>7, <1>8, <1>9, <1>10, <1>11, <1>12
     DEF Next, Fetch, Deliver, Raise, Leftover

LEMMA AcksAlways == Spec => [](TypeInv /\ AcksInv)
BY TypeInit, TypeStep, AcksInit, AcksStep, PTL DEF Spec

\* A row recorded as sent was accepted by its recipient.
THEOREM SentIsAcked == Spec => []SentWasAcked
<1>1. TypeInv /\ AcksInv => SentWasAcked
  BY SizesAssumption DEF TypeInv, TypeOK, AcksInv, SentWasAcked, Rows
<1>. QED BY <1>1, AcksAlways, PTL

\* A row is recorded as errored against its recipient's word only when a
\* batch's outcomes were lost.
THEOREM AbandonedIsUnheard == Spec => []AbandonedUnheard
<1>1. TypeInv /\ AcksInv => AbandonedUnheard
  <2> SUFFICES ASSUME TypeInv, AcksInv, NEW r \in errored, acks[r] > 0
               PROVE  losses + aborts > 0
    BY DEF AbandonedUnheard
  <2>1. r \in Rows /\ r \notin sent /\ r \notin batch
    BY SizesAssumption DEF TypeInv, TypeOK, Live, Rows
  <2>2. Known(r) = 0
    BY <2>1 DEF Known, TypeInv, BatchInv
  <2>. QED BY <2>1, <2>2 DEF AcksInv, TypeInv, TypeOK
<1>. QED BY <1>1, AcksAlways, PTL

\* A recipient accepts a row at most once more than there were lost batches.
THEOREM RedeliveryIsBounded == Spec => []RedeliveryBounded
<1>1. TypeInv /\ AcksInv => RedeliveryBounded
  BY DEF TypeInv, TypeOK, AcksInv, RedeliveryBounded, Known
<1>. QED BY <1>1, AcksAlways, PTL

\* No POST is made, or left to be made, that the database has not counted.
THEOREM AttemptsStayDurable == Spec => []AttemptsAreDurable
<1>1. TypeInv /\ AcksInv => AttemptsAreDurable
  BY DEF TypeInv, TypeOK, AcksInv, AttemptsAreDurable
<1>. QED BY <1>1, AcksAlways, PTL

-----------------------------------------------------------------------------
(* The retry budget. *)

LEMMA BudgetInit == Init => BudgetInv
BY SizesAssumption DEF Init, BudgetInv

LEMMA BudgetStep == TypeInv /\ BudgetInv /\ [Next]_vars => BudgetInv'
<1> SUFFICES ASSUME TypeInv, BudgetInv, [Next]_vars
             PROVE  BudgetInv'
  OBVIOUS
<1>. USE SizesAssumption DEF TypeInv, TypeOK, BudgetInv
<1>0. Live \subseteq Rows /\ batch \subseteq Live
  BY DEF Rows, Live
<1>1. CASE Enqueue
  BY <1>1 DEF Enqueue
<1>2. CASE Tick
  BY <1>2 DEF Tick
<1>3. CASE PollEmpty
  BY <1>3 DEF PollEmpty, vars
<1>4. ASSUME NEW unbuilt \in SUBSET FirstDue, Prepare(unbuilt)
      PROVE  BudgetInv'
  <2>1. batch = {} /\ batch' = FirstDue
    BY <1>4 DEF Prepare
  <2>2. FirstDue \intersect (sent \union errored) = {}
    BY DEF FirstDue, Due, Live
  <2>3. \A r \in Rows : tries'[r] = IF r \in FirstDue THEN tries[r] + 1 ELSE tries[r]
    BY <1>4 DEF Prepare
  <2>. QED BY <1>4, <2>1, <2>2, <2>3 DEF Prepare
<1>5. ASSUME NEW r \in Rows, NEW a \in Answers, NEW h \in Hints \union {NoHint},
             Post(r, a, h)
      PROVE  BudgetInv'
  BY <1>5 DEF Post, table
<1>6. CASE Apply
  <2>1. \A r \in Rows : r \in batch /\ r \notin sent' \union errored'
                         => tries[r] < MaxRetries
    BY <1>6, RetriedHaveTries DEF Apply, Retried
  <2>2. UNCHANGED <<tries, losses, aborts>> /\ batch' = {}
    BY <1>6 DEF Apply, Leave
  <2>3. sent \subseteq sent' /\ errored \subseteq errored'
    BY <1>6 DEF Apply
  <2>4. ASSUME NEW r \in Rows, r \notin sent' \union errored'
        PROVE  tries[r] < MaxRetries + losses + aborts
    <3>1. CASE r \in batch
      BY <2>1, <2>4, <3>1
    <3>2. CASE r \notin batch
      BY <2>3, <2>4, <3>2
    <3>. QED BY <3>1, <3>2
  <2>. QED BY <2>2, <2>4
<1>7. ASSUME NEW r \in Rows, Abort(r)
      PROVE  BudgetInv'
  BY <1>7 DEF Abort, Leave, table
<1>8. ASSUME NEW r \in Rows, NEW accepted \in BOOLEAN, StrayPost(r, accepted)
      PROVE  BudgetInv'
  BY <1>8 DEF StrayPost, table
<1>9. CASE LoseCommit
  BY <1>9 DEF LoseCommit, Leave, table
<1>10. CASE Crash
  BY <1>10 DEF Crash, Leave, table
<1>11. CASE Restart
  BY <1>11 DEF Restart, table
<1>12. CASE UNCHANGED vars
  BY <1>12 DEF vars
<1>. QED
  BY <1>1, <1>2, <1>3, <1>4, <1>5, <1>6, <1>7, <1>8, <1>9, <1>10, <1>11, <1>12
     DEF Next, Fetch, Deliver, Raise, Leftover

\* No row is attempted more than MaxRetries times, lost batches aside.
THEOREM RetriesAreBudgeted == Spec => []RetryBudget
<1>1. BudgetInv => RetryBudget
  BY DEF BudgetInv, RetryBudget
<1>. QED BY <1>1, TypeInit, TypeStep, BudgetInit, BudgetStep, PTL DEF Spec

\* Applying a batch leaves every row of it settled or waiting.
THEOREM BatchesProgress == Spec => BatchMakesProgress
<1>1. TypeInv /\ [Next]_vars
        => (worker = "delivering" /\ worker' = "idle"
              /\ <<losses, aborts>>' = <<losses, aborts>>
            => \A r \in batch : r \in sent' \union errored' \/ nextTry'[r] > 0)
  <2> SUFFICES ASSUME TypeInv, [Next]_vars,
                      worker = "delivering", worker' = "idle",
                      losses' = losses, aborts' = aborts, NEW r \in batch
               PROVE  r \in sent' \union errored' \/ nextTry'[r] > 0
    OBVIOUS
  <2>1. Apply
    BY DEF Next, Enqueue, Tick, PollEmpty, Fetch, Prepare, Deliver, Post, Raise,
           Abort, Leftover, StrayPost, LoseCommit, Crash, Leave, Restart, vars,
           TypeInv, TypeOK
  <2>2. CASE r \in Retried
    <3>1. r \in Rows /\ tries[r] \in 1..MaxRetries /\ hint[r] \in Hints \union {NoHint}
      BY <2>2, RetriedHaveTries DEF TypeInv, TypeOK
    <3>2. nextTry'[r] = Sweep(r, SetNextTry(r, hint[r]))
      BY <2>1, <2>2, <3>1 DEF Apply
    <3>. QED BY <3>1, <3>2, SweepPositive
  <2>3. CASE r \notin Retried
    BY <2>1, <2>3 DEF Apply, Retried
  <2>. QED BY <2>2, <2>3
<1>. QED BY <1>1, TypeInit, TypeStep, PTL DEF Spec, BatchMakesProgress

-----------------------------------------------------------------------------
(* First attempts. *)

\* Rows that were never attempted have been due since they were inserted, the
\* older ones for longer.
OrderInv ==
  /\ FirstAttemptsInOrder
  /\ \A r \in sent \union errored : tries[r] > 0
  /\ \A r \in Rows : tries[r] = 0 => nextTry[r] <= 0
  /\ \A q, r \in Rows : q < r /\ tries[q] = 0 /\ tries[r] = 0
                         => nextTry[q] <= nextTry[r]

\* A batch that holds a due row holds every due row that comes before it.
LEMMA FetchIsOrdered ==
  ASSUME TypeInv, NEW q \in Due, NEW r \in FirstDue, Before(q, r)
  PROVE  q \in FirstDue
<1>. DEFINE Ahead(p) == {x \in Due : Before(x, p)}
<1>1. lastId \in Int /\ nextTry \in [Rows -> Int] /\ Rows \subseteq Int
  BY DEF TypeInv, TypeOK, Rows
<1>2. Due \subseteq 1..lastId /\ Due \subseteq Rows /\ r \in Due
  <2>1. 1..lastId \subseteq Rows
    BY SizesAssumption DEF TypeInv, TypeOK, Rows
  <2>2. Due \subseteq 1..lastId
    BY DEF Due, Live
  <2>3. r \in Due
    BY DEF FirstDue
  <2>. QED BY <2>1, <2>2, <2>3
<1>3. IsFiniteSet(Due)
  <2>1. IsFiniteSet(1..lastId)
    BY <1>1, FS_Interval
  <2>. QED BY <1>2, <2>1, FS_Subset
<1>4. ASSUME NEW x \in Due, Before(x, q)
      PROVE  Before(x, r)
  BY <1>1, <1>2, <1>4 DEF Before
<1>5. Ahead(q) \subseteq Ahead(r)
  BY <1>4
<1>6. IsFiniteSet(Ahead(r)) /\ Ahead(r) \subseteq Due
  BY <1>3, FS_Subset
<1>7. Cardinality(Ahead(q)) <= Cardinality(Ahead(r))
  BY <1>5, <1>6, FS_Subset
<1>8. Cardinality(Ahead(q)) \in Nat /\ Cardinality(Ahead(r)) \in Nat
  BY <1>5, <1>6, FS_Subset, FS_CardinalityType
<1>9. Cardinality(Ahead(r)) < BatchLimit
  BY DEF FirstDue
<1>. QED BY <1>7, <1>8, <1>9, SizesAssumption DEF FirstDue

LEMMA OrderInit == Init => OrderInv
BY DEF Init, OrderInv, FirstAttemptsInOrder

LEMMA OrderStep == TypeInv /\ OrderInv /\ [Next]_vars => OrderInv'
<1> SUFFICES ASSUME TypeInv, OrderInv, [Next]_vars
             PROVE  OrderInv'
  OBVIOUS
<1>. USE DEF TypeInv, TypeOK, OrderInv, FirstAttemptsInOrder
<1>0. /\ 1..lastId \subseteq Rows /\ Live \subseteq 1..lastId /\ batch \subseteq Live
      /\ Rows \subseteq Int
  BY SizesAssumption DEF Rows, Live
<1>1. CASE Enqueue
  <2>1. /\ 1..lastId' = 1..lastId \union {lastId + 1}
        /\ lastId + 1 \notin 1..lastId /\ lastId + 1 \in Rows
        /\ \A q \in 1..lastId : q < lastId + 1
    BY <1>1, SizesAssumption DEF Enqueue, Rows
  <2>2. tries[lastId + 1] = 0
    BY <2>1 DEF BatchInv
  <2>. QED BY <1>1, <2>1, <2>2 DEF Enqueue
<1>2. CASE Tick
  <2>1. \A r \in Rows : nextTry'[r] = IF r \in Live THEN nextTry[r] - 1 ELSE nextTry[r]
    BY <1>2 DEF Tick
  <2>2. ASSUME NEW q \in Rows, NEW r \in Live, q < r, tries[q] = 0
        PROVE  q \in Live
    <3>1. q \in 1..lastId
      BY <2>2, <1>0, SizesAssumption DEF Rows, Live
    <3>2. ASSUME q \in sent \union errored  PROVE FALSE
      <4>1. tries[q] > 0
        BY <3>2
      <4>. QED BY <4>1, <2>2
    <3>. QED BY <3>1, <3>2 DEF Live
  <2>3. UNCHANGED <<lastId, sent, errored, tries>>
    BY <1>2 DEF Tick
  <2>4. \A r \in Rows : nextTry[r] \in Int /\ nextTry'[r] \in Int /\ nextTry'[r] <= nextTry[r]
    BY <2>1
  <2>5. \A r \in Rows : tries'[r] = 0 => nextTry'[r] <= 0
    BY <2>3, <2>4
  <2>6. \A q, r \in Rows : q < r /\ tries'[q] = 0 /\ tries'[r] = 0
                           => nextTry'[q] <= nextTry'[r]
    BY <2>1, <2>2, <2>3, <2>4
  <2>. QED BY <2>3, <2>5, <2>6
<1>3. CASE PollEmpty
  BY <1>3 DEF PollEmpty, vars
<1>4. ASSUME NEW unbuilt \in SUBSET FirstDue, Prepare(unbuilt)
      PROVE  OrderInv'
  <2>1. \A r \in Rows : tries'[r] = IF r \in FirstDue THEN tries[r] + 1 ELSE tries[r]
    BY <1>4 DEF Prepare
  <2>2. UNCHANGED <<lastId, sent, errored, nextTry>>
    BY <1>4 DEF Prepare
  <2>3. ASSUME NEW q \in 1..lastId, NEW r \in 1..lastId, q < r, tries'[r] > 0
        PROVE  tries'[q] > 0
    <3>1. CASE tries[q] > 0
      BY <1>0, <2>1, <3>1
    <3>2. CASE tries[q] = 0
      <4>1. tries[r] = 0 /\ r \in FirstDue
        BY <1>0, <2>1, <2>3, <3>2
      <4>2. nextTry[q] <= nextTry[r] /\ nextTry[q] <= 0
        BY <1>0, <2>3, <3>2, <4>1
      <4>3. q \in Due /\ Before(q, r)
        BY <1>0, <2>3, <3>2, <4>2 DEF Due, Live, Before
      <4>4. q \in FirstDue
        BY <4>1, <4>3, FetchIsOrdered
      <4>. QED BY <1>0, <2>1, <4>4
    <3>. QED BY <1>0, <3>1, <3>2
  <2>. QED BY <1>0, <2>1, <2>2, <2>3
<1>5. ASSUME NEW r \in Rows, NEW a \in Answers, NEW h \in Hints \union {NoHint},
             Post(r, a, h)
      PROVE  OrderInv'
  BY <1>5 DEF Post, table
<1>6. CASE Apply
  <2>1. /\ \A r \in sent' \union errored' : r \in sent \union errored \union batch
        /\ \A r \in Rows : tries[r] = 0 => nextTry'[r] = nextTry[r]
    BY <1>6 DEF Apply, Accepted, Refused, Retried, BatchInv
  <2>. QED BY <1>0, <1>6, <2>1 DEF Apply, BatchInv
<1>7. ASSUME NEW r \in Rows, Abort(r)
      PROVE  OrderInv'
  BY <1>7 DEF Abort, table
<1>8. ASSUME NEW r \in Rows, NEW accepted \in BOOLEAN, StrayPost(r, accepted)
      PROVE  OrderInv'
  BY <1>8 DEF StrayPost, table
<1>9. CASE LoseCommit
  <2>1. UNCHANGED table
    BY <1>9 DEF LoseCommit
  <2>. QED BY <2>1 DEF table
<1>10. CASE Crash
  <2>1. UNCHANGED table
    BY <1>10 DEF Crash
  <2>. QED BY <2>1 DEF table
<1>11. CASE Restart
  <2>1. UNCHANGED table
    BY <1>11 DEF Restart
  <2>. QED BY <2>1 DEF table
<1>12. CASE UNCHANGED vars
  BY <1>12 DEF vars
<1>. QED
  BY <1>1, <1>2, <1>3, <1>4, <1>5, <1>6, <1>7, <1>8, <1>9, <1>10, <1>11, <1>12
     DEF Next, Fetch, Deliver, Raise, Leftover

\* First attempts are made in the order the rows were inserted.
THEOREM FirstAttemptsAreOrdered == Spec => []FirstAttemptsInOrder
<1>1. OrderInv => FirstAttemptsInOrder
  BY DEF OrderInv
<1>. QED BY <1>1, TypeInit, TypeStep, OrderInit, OrderStep, PTL DEF Spec

-----------------------------------------------------------------------------
(* Refinement. *)

\* The detailed queue implements DeliveryPromise: an acknowledgement is never
\* invented, and nothing that was recorded is taken back.
THEOREM QueueKeepsPromise == Spec => KeepsPromise
<1>1. Init => Promise!PromiseInit
  BY DEF Init, Promise!PromiseInit
<1>2. TypeInv /\ AcksInv /\ [Next]_vars => [Promise!PromiseNext]_Promise!pvars
  <2> SUFFICES ASSUME TypeInv, AcksInv, [Next]_vars
               PROVE  Promise!PromiseNext \/ UNCHANGED Promise!pvars
    OBVIOUS
  <2>. USE DEF TypeInv, TypeOK
  <2>0. 1..lastId \subseteq Rows
    BY SizesAssumption DEF Rows
  <2>1. CASE Enqueue
    <3>1. lastId + 1 \in Rows
      BY <2>1, SizesAssumption DEF Enqueue, Rows
    <3>2. Promise!Submit(lastId + 1)
      BY <2>1, SizesAssumption DEF Enqueue, Promise!Submit
    <3>. QED BY <3>1, <3>2 DEF Promise!PromiseNext
  <2>2. ASSUME UNCHANGED <<lastId, sent, errored, acks>>
        PROVE  UNCHANGED Promise!pvars
    BY <2>2 DEF Promise!pvars
  <2>3. ASSUME NEW r \in 1..lastId, NEW accepted \in BOOLEAN,
               acks' = [acks EXCEPT ![r] = IF accepted THEN @ + 1 ELSE @],
               UNCHANGED <<lastId, sent, errored>>
        PROVE  Promise!PromiseNext \/ UNCHANGED Promise!pvars
    <3>1. r \in Rows
      BY <2>0
    <3>2. CASE accepted
      <4>1. {q \in Rows : acks'[q] > 0} = {q \in Rows : acks[q] > 0} \union {r}
        BY <2>3, <3>1, <3>2
      <4>2. Promise!Acknowledge(r)
        BY <2>3, <4>1 DEF Promise!Acknowledge
      <4>. QED BY <3>1, <4>2 DEF Promise!PromiseNext
    <3>3. CASE ~ accepted
      <4>1. acks' = acks
        BY <2>3, <3>1, <3>3
      <4>. QED BY <2>2, <2>3, <4>1
    <3>. QED BY <3>2, <3>3
  <2>4. ASSUME NEW r \in Rows, NEW a \in Answers, NEW h \in Hints \union {NoHint},
               Post(r, a, h)
        PROVE  Promise!PromiseNext \/ UNCHANGED Promise!pvars
    <3>1. r \in 1..lastId
      BY <2>4 DEF Post, IsNext, Unanswered, Live
    <3>. DEFINE accepted == a = "accepted"
    <3>2. accepted \in BOOLEAN /\ acks' = [acks EXCEPT ![r] = IF accepted THEN @ + 1 ELSE @]
      BY <2>4 DEF Post
    <3>3. UNCHANGED <<lastId, sent, errored>>
      BY <2>4 DEF Post, table
    <3>. HIDE DEF accepted
    <3>. QED BY <2>3, <3>1, <3>2, <3>3
  <2>5. ASSUME NEW r \in Rows, NEW accepted \in BOOLEAN, StrayPost(r, accepted)
        PROVE  Promise!PromiseNext \/ UNCHANGED Promise!pvars
    <3>1. r \in 1..lastId
      BY <2>5 DEF StrayPost, AcksInv, BatchInv
    <3>. QED BY <2>3, <2>5, <3>1 DEF StrayPost, table
  <2>6. CASE Apply
    <3>1. Accepted \subseteq Promise!Open \intersect {r \in Rows : acks[r] > 0}
      BY <2>0 DEF AcksInv, Accepted, Live, Promise!Open
    <3>2. Refused \subseteq Promise!Open \ Accepted
      BY <2>0 DEF Accepted, Refused, GivesUp, Live, Promise!Open
    <3>3. Promise!Record(Accepted, Refused)
      BY <2>6, <3>1, <3>2 DEF Apply, Promise!Record
    <3>4. Accepted \in SUBSET Rows /\ Refused \in SUBSET Rows
      BY <2>0, <3>1, <3>2 DEF Accepted, Refused, Live
    <3>. QED BY <3>3, <3>4 DEF Promise!PromiseNext
  <2>. QED
    BY <2>1, <2>2, <2>4, <2>5, <2>6
       DEF Next, Tick, PollEmpty, Fetch, Prepare, Deliver, Raise, Abort, Leftover,
           LoseCommit, Crash, Restart, table, vars
<1>. QED BY <1>1, <1>2, AcksAlways, PTL DEF Spec, KeepsPromise, Promise!PromiseSpec

-----------------------------------------------------------------------------
(* SocialGraph: the theorems hold for every number of activities and of    *)
(* overlapping requests.  RecordInv says what the records of one Follow of *)
(* the peer know of each other; RequestInv what a request in progress      *)
(* still knows of what it read.  Every property follows from these two and *)
(* itself.                                                                 *)

Answering(s) == web[s][1] \in {"approve", "refuse"}

\* A request is only kept for a Follow that was stored, an answer only sent to
\* one, and a Follow is only stored when it is handled.
RecordInv ==
  \A f \in Theirs :
    /\ notice[f] # "none" => manual /\ theirs[f] # "unknown"
    /\ told[f] # {} => theirs[f] # "unknown"
    /\ theirs[f] # "unknown" => <<"Follow", f>> \in handled
    /\ follower = f => "Accept" \in told[f]
    /\ notice[f] = "pending" => told[f] = {}

\* What a request read was true when it read it, and part of it is for ever.
RequestInv ==
  \A s \in Slots :
    /\ Answering(s) => notice[web[s][2]] # "none"
    /\ web[s][1] = "remove" => "Accept" \in told[web[s][2]]
    /\ Cardinality(Slots) = 1 /\ Answering(s) => notice[web[s][2]] = "pending"

GraphTypeInv == GraphTypeOK /\ RecordInv /\ RequestInv

-----------------------------------------------------------------------------
(* A request names what it read. *)

\* What the second component of a request is, by its first.
LEMMA RequestTypes ==
  ASSUME NEW w \in Requests \union {Idle}
  PROVE  /\ w[1] = "unfollow" => w[2] \in Ours
         /\ w[1] = "unblock" => w[2] \in Blocks
         /\ w[1] \in {"approve", "refuse", "remove"} => w[2] \in Theirs
BY DEF Requests, Idle

\* None is not an activity.
LEMMA NoneIsNoActivity == None \notin Theirs /\ None \notin Ours
BY BoundsAssumption DEF None, Theirs, Ours

\* A single slot is the only one.
LEMMA SingleSlot ==
  ASSUME Cardinality(Slots) = 1, NEW s \in Slots, NEW t \in Slots
  PROVE  s = t
BY SlotsAssumption, FS_Singleton

\* The setting does not change while the program runs.
LEMMA SettingStays == [GraphNext]_graphVars => manual' = manual
BY DEF GraphNext, Peer, Owner, graphVars, RecvFollow, RecvUndo, RecvAccept, RecvReject,
   Ignore, GiveUp, RecvDelete, RecvMove, RecvArrival, BeginFollow, BeginUnfollow,
   BeginBlock, BeginUnblock, BeginAnswer, BeginRemove, Begin, Fail, SendFollow,
   SendUnfollow, SendBlock, SendUnblock, SendAccept, SendReject, RemoveFollower

-----------------------------------------------------------------------------
(* Types and records. *)

\* The records of a fresh instance agree.
LEMMA GraphTypeInit == GraphInit => GraphTypeInv
<1>1. ASSUME GraphInit
      PROVE  GraphTypeOK
  BY <1>1, NoneIsNoActivity DEF GraphInit, GraphTypeOK
<1>2. ASSUME GraphInit
      PROVE  RecordInv
  BY <1>2, NoneIsNoActivity DEF GraphInit, RecordInv
<1>3. ASSUME GraphInit
      PROVE  RequestInv
  BY <1>3 DEF GraphInit, RequestInv, Answering, Idle
<1>. QED BY <1>1, <1>2, <1>3 DEF GraphTypeInv

\* Every step keeps them in agreement.
LEMMA GraphTypeStep == GraphTypeInv /\ [GraphNext]_graphVars => GraphTypeInv'
<1> SUFFICES ASSUME GraphTypeInv, [GraphNext]_graphVars
             PROVE  GraphTypeInv'
  OBVIOUS
<1>0. manual' = manual
  BY SettingStays
<1>. USE <1>0 DEF GraphTypeInv
<1>1. ASSUME NEW f \in Theirs, RecvFollow(f)
      PROVE  GraphTypeInv'
  <2>1. theirs[f] = "unknown" /\ told[f] = {} /\ notice[f] = "none"
    BY <1>1 DEF RecvFollow, Handle, RecordInv, GraphTypeOK
  <2>2. GraphTypeOK'
    BY <1>1, <2>1, NoneIsNoActivity
    DEF RecvFollow, Handle, GraphTypeOK, Activities, outbox
  <2>3. RecordInv'
    <3>1. /\ theirs' = [theirs EXCEPT ![f] = "stored"]
          /\ handled' = handled \union {<<"Follow", f>>}
      BY <1>1 DEF RecvFollow, Handle
    <3>2. CASE manual
      <4>1. notice' = [notice EXCEPT ![f] = "pending"]
        BY <1>1, <3>2 DEF RecvFollow
      <4>2. told' = told /\ follower' = follower
        BY <1>1, <3>2 DEF RecvFollow
      <4>. QED BY <2>1, <3>1, <3>2, <4>1, <4>2 DEF GraphTypeOK, RecordInv
    <3>3. CASE ~ manual
      <4>1. told' = [told EXCEPT ![f] = @ \union {"Accept"}]
        BY <1>1, <3>3 DEF RecvFollow
      <4>2. notice' = notice /\ follower' = f
        BY <1>1, <3>3 DEF RecvFollow
      <4>. QED BY <2>1, <3>1, <4>1, <4>2 DEF GraphTypeOK, RecordInv
    <3>. QED BY <3>2, <3>3
  <2>4. \A h \in Theirs : /\ notice[h] # "none" => notice'[h] = notice[h]
                          /\ told[h] \subseteq told'[h]
    BY <1>1, <2>1 DEF RecvFollow, GraphTypeOK
  <2>5. RequestInv'
    BY <1>1, <2>4, RequestTypes DEF RecvFollow, RequestInv, Answering, GraphTypeOK
  <2>. QED BY <2>2, <2>3, <2>5
<1>2. ASSUME NEW f \in Theirs, RecvUndo(f)
      PROVE  GraphTypeInv'
  <2>1. GraphTypeOK'
    BY <1>2, NoneIsNoActivity DEF RecvUndo, Handle, GraphTypeOK, Activities, outbox
  <2>2. RecordInv'
    <3>1. \A h \in Theirs : /\ theirs[h] = "unknown" => theirs'[h] = "unknown"
                            /\ theirs[h] # "unknown" => theirs'[h] # "unknown"
      BY <1>2 DEF RecvUndo, GraphTypeOK
    <3>2. \A h \in Theirs : follower' = h => follower = h
      BY <1>2, NoneIsNoActivity DEF RecvUndo
    <3>3. handled \subseteq handled' /\ told' = told /\ notice' = notice
      BY <1>2 DEF RecvUndo, Handle
    <3>. QED BY <3>1, <3>2, <3>3 DEF GraphTypeOK, RecordInv
  <2>3. RequestInv'
    BY <1>2 DEF RecvUndo, RequestInv, Answering
  <2>. QED BY <2>1, <2>2, <2>3
<1>3. ASSUME NEW g \in Ours, RecvAccept(g) \/ RecvReject(g)
      PROVE  GraphTypeInv'
  BY <1>3 DEF RecvAccept, RecvReject, Handle, GraphTypeOK, RecordInv, RequestInv,
     Answering, Activities, inbox, None
<1>4. ASSUME NEW a \in Activities, Ignore(a) \/ GiveUp(a)
      PROVE  GraphTypeInv'
  BY <1>4 DEF Ignore, GiveUp, GraphTypeOK, RecordInv, RequestInv, Answering, graphVars,
     inbox, outbox
<1>5. CASE RecvDelete
  BY <1>5, NoneIsNoActivity DEF RecvDelete, GraphTypeOK, RecordInv, RequestInv, Answering, None
<1>6. ASSUME NEW s \in Slots, NEW r \in Requests, Begin(s, r),
             r[1] \in {"approve", "refuse"} => notice[r[2]] = "pending",
             r[1] = "remove" => "Accept" \in told[r[2]]
      PROVE  GraphTypeInv'
  BY <1>6, SingleSlot DEF Begin, GraphTypeOK, RecordInv, RequestInv, Answering, inbox, outbox
<1>7. ASSUME NEW s \in Slots,
             \/ BeginFollow(s) \/ BeginUnfollow(s) \/ BeginBlock(s)
             \/ BeginUnblock(s) \/ BeginAnswer(s) \/ BeginRemove(s)
      PROVE  GraphTypeInv'
  <2>1. CASE BeginFollow(s) \/ BeginBlock(s)
    <3>1. <<"follow", None>> \in Requests /\ <<"block", None>> \in Requests
      BY DEF Requests
    <3>. QED BY <1>6, <2>1, <3>1 DEF BeginFollow, BeginBlock
  <2>2. CASE BeginUnfollow(s)
    <3>1. PICK g \in Ours : Begin(s, <<"unfollow", g>>)
      BY <2>2 DEF BeginUnfollow, LiveFollows
    <3>2. <<"unfollow", g>> \in Requests
      BY DEF Requests
    <3>. QED BY <1>6, <3>1, <3>2
  <2>3. CASE BeginUnblock(s)
    <3>1. PICK b \in Blocks : Begin(s, <<"unblock", b>>)
      BY <2>3 DEF BeginUnblock
    <3>2. <<"unblock", b>> \in Requests
      BY DEF Requests
    <3>. QED BY <1>6, <3>1, <3>2
  <2>4. CASE BeginAnswer(s)
    <3>1. PICK f \in Theirs, verdict \in {"approve", "refuse"} :
            notice[f] = "pending" /\ Begin(s, <<verdict, f>>)
      BY <2>4 DEF BeginAnswer
    <3>2. <<verdict, f>> \in Requests
      BY DEF Requests
    <3>. QED BY <1>6, <3>1, <3>2
  <2>5. CASE BeginRemove(s)
    <3>1. follower \in Theirs /\ "Accept" \in told[follower]
      BY <2>5 DEF BeginRemove, GraphTypeOK, RecordInv
    <3>2. <<"remove", follower>> \in Requests
      BY <3>1 DEF Requests
    <3>. QED BY <1>6, <2>5, <3>1, <3>2 DEF BeginRemove
  <2>. QED BY <1>7, <2>1, <2>2, <2>3, <2>4, <2>5
<1>8. ASSUME NEW s \in Slots, Done(s)
      PROVE  /\ web' \in [Slots -> Requests \union {Idle}]
             /\ ~ Answering(s)' /\ web'[s][1] # "remove"
             /\ \A t \in Slots \ {s} : web'[t] = web[t]
  BY <1>8 DEF Done, GraphTypeOK, Answering, Idle
<1>9. ASSUME NEW s \in Slots, Fail(s)
      PROVE  GraphTypeInv'
  BY <1>8, <1>9 DEF Fail, GraphTypeOK, RecordInv, RequestInv, Answering, inbox, outbox
<1>10. ASSUME NEW s \in Slots, SendFollow(s)
      PROVE  GraphTypeInv'
  BY <1>8, <1>10 DEF SendFollow, NewFollow, GraphTypeOK, RecordInv, RequestInv, Answering, inbox
<1>11. ASSUME NEW s \in Slots, SendUnfollow(s)
      PROVE  GraphTypeInv'
  <2>1. GraphTypeOK'
    BY <1>8, <1>11, NoneIsNoActivity DEF SendUnfollow, GraphTypeOK, inbox
  <2>2. RecordInv'
    <3>1. UNCHANGED <<theirs, notice, follower, handled, told>>
      BY <1>11 DEF SendUnfollow, inbox
    <3>. QED BY <3>1 DEF RecordInv
  <2>3. UNCHANGED <<notice, told>>
    BY <1>11 DEF SendUnfollow, inbox
  <2>4. ~ Answering(s)' /\ web'[s][1] # "remove" /\ \A t \in Slots \ {s} : web'[t] = web[t]
    BY <1>8, <1>11 DEF SendUnfollow
  <2>5. RequestInv'
    BY <2>3, <2>4 DEF RequestInv, Answering
  <2>. QED BY <2>1, <2>2, <2>5
<1>12. ASSUME NEW s \in Slots, SendBlock(s)
      PROVE  GraphTypeInv'
  <2>1. GraphTypeOK'
    BY <1>8, <1>12 DEF SendBlock, GraphTypeOK
  <2>2. RecordInv' /\ \A f \in Theirs : told[f] \subseteq told'[f]
    BY <1>12, NoneIsNoActivity DEF SendBlock, GraphTypeOK, RecordInv
  <2>3. RequestInv'
    BY <1>8, <1>12, <2>2, RequestTypes DEF SendBlock, GraphTypeOK, RequestInv, Answering
  <2>. QED BY <2>1, <2>2, <2>3
<1>13. ASSUME NEW s \in Slots, SendUnblock(s)
      PROVE  GraphTypeInv'
  <2>1. GraphTypeOK'
    BY <1>8, <1>13 DEF SendUnblock, GraphTypeOK, inbox
  <2>2. RecordInv'
    <3>1. UNCHANGED <<theirs, notice, follower, handled, told>>
      BY <1>13 DEF SendUnblock, inbox
    <3>. QED BY <3>1 DEF RecordInv
  <2>3. UNCHANGED <<notice, told>>
    BY <1>13 DEF SendUnblock, inbox
  <2>4. ~ Answering(s)' /\ web'[s][1] # "remove" /\ \A t \in Slots \ {s} : web'[t] = web[t]
    BY <1>8, <1>13 DEF SendUnblock
  <2>5. RequestInv'
    BY <2>3, <2>4 DEF RequestInv, Answering
  <2>. QED BY <2>1, <2>2, <2>5
<1>14. ASSUME NEW s \in Slots, SendAccept(s) \/ SendReject(s)
      PROVE  GraphTypeInv'
  <2>. DEFINE f == web[s][2]
  <2>1. f \in Theirs /\ theirs[f] # "unknown" /\ manual
    BY <1>14, RequestTypes DEF SendAccept, SendReject, GraphTypeOK, RequestInv, RecordInv, Answering
  <2>2. GraphTypeOK'
    BY <1>8, <1>14, <2>1 DEF SendAccept, SendReject, GraphTypeOK, outbox
  <2>3. RecordInv' /\ \A h \in Theirs : told[h] \subseteq told'[h]
    BY <1>14, <2>1, NoneIsNoActivity DEF SendAccept, SendReject, GraphTypeOK, RecordInv
  <2>4. \A h \in Theirs : notice[h] # "none" => notice'[h] # "none"
    BY <1>14, <2>1 DEF SendAccept, SendReject, GraphTypeOK
  <2>5. \A t \in Slots : Cardinality(Slots) = 1 => t = s
    BY SingleSlot
  <2>6. RequestInv'
    BY <1>8, <1>14, <2>3, <2>4, <2>5, RequestTypes
    DEF SendAccept, SendReject, GraphTypeOK, RequestInv, Answering
  <2>. QED BY <2>2, <2>3, <2>6
<1>15. ASSUME NEW s \in Slots, RemoveFollower(s)
      PROVE  GraphTypeInv'
  <2>. DEFINE f == web[s][2]
  <2>1. f \in Theirs /\ "Accept" \in told[f]
    BY <1>15, RequestTypes DEF RemoveFollower, GraphTypeOK, RequestInv
  <2>2. GraphTypeOK'
    BY <1>8, <1>15, <2>1 DEF RemoveFollower, GraphTypeOK, outbox
  <2>3. RecordInv' /\ \A h \in Theirs : told[h] \subseteq told'[h]
    BY <1>15, <2>1, NoneIsNoActivity DEF RemoveFollower, GraphTypeOK, RecordInv
  <2>4. RequestInv'
    BY <1>8, <1>15, <2>3, RequestTypes DEF RemoveFollower, GraphTypeOK, RequestInv, Answering
  <2>. QED BY <2>2, <2>3, <2>4
<1>17. CASE RecvMove \/ RecvArrival
  <2>1. Move \in Activities /\ Arrival \in Activities
    BY DEF Activities
  <2>2. UNCHANGED <<block, blocked, theirs, notice, follower, gone, told, web>>
    BY <1>17 DEF RecvMove, RecvArrival, inbox
  <2>3. handled \subseteq handled' /\ handled' \subseteq Activities
    BY <1>17, <2>1 DEF RecvMove, RecvArrival, Handle, GraphTypeOK
  <2>4. /\ ours' \in [Ours -> {"unsent", "live", "undone", "deleted"}]
        /\ following' \in {following, None}
        /\ \A g \in Ours : ours[g] # "unsent" => ours'[g] # "unsent"
    BY <1>17, NoneIsNoActivity DEF RecvMove, RecvArrival, NewFollow, GraphTypeOK
  <2>. QED BY <2>2, <2>3, <2>4, NoneIsNoActivity DEF GraphTypeOK, RecordInv, RequestInv, Answering
<1>16. CASE UNCHANGED graphVars
  BY <1>16 DEF graphVars, inbox, outbox, GraphTypeOK, RecordInv, RequestInv, Answering
<1>. QED BY <1>1, <1>2, <1>3, <1>4, <1>5, <1>7, <1>9, <1>10, <1>11, <1>12, <1>13,
        <1>14, <1>15, <1>16, <1>17 DEF GraphNext, Peer, Owner

\* Every variable has its type, the two rows refer to activities that were
\* exchanged, and the records of each Follow agree: whatever the interleaving.
THEOREM GraphTypeCorrect == GraphSpec => []GraphTypeOK
<1>1. GraphSpec => []GraphTypeInv
  BY GraphTypeInit, GraphTypeStep, PTL DEF GraphSpec
<1>2. GraphTypeInv => GraphTypeOK
  BY DEF GraphTypeInv
<1>. QED BY <1>1, <1>2, PTL

-----------------------------------------------------------------------------
(* Safety. *)

SafetyInv ==
  /\ BlockedNotFollowing /\ BlockedHasNoFollower /\ FollowerIsCurrent
  /\ NoSilentDrop /\ RejectedIsNotFollower /\ DeletedIsForgotten
  /\ BlockIsOnRecord

\* A fresh instance is safe.
LEMMA SafetyInit == GraphInit => SafetyInv
BY NoneIsNoActivity
   DEF GraphInit, SafetyInv, BlockedNotFollowing, BlockedHasNoFollower,
       FollowerIsCurrent, NoSilentDrop, RejectedIsNotFollower,
       DeletedIsForgotten, BlockIsOnRecord

\* What the properties of SafetyInv read.
Relationship == <<following, blocked, theirs, follower, gone, told, block>>

\* Every step of the peer or of a request keeps the relationship safe.
LEMMA SafetyStep == GraphTypeInv /\ SafetyInv /\ [GraphNext]_graphVars => SafetyInv'
<1> SUFFICES ASSUME GraphTypeInv, SafetyInv, [GraphNext]_graphVars
             PROVE  SafetyInv'
  OBVIOUS
<1>0. manual' = manual
  BY SettingStays
<1>. USE <1>0 DEF GraphTypeInv, SafetyInv, BlockedNotFollowing, BlockedHasNoFollower,
       FollowerIsCurrent, NoSilentDrop, RejectedIsNotFollower,
       DeletedIsForgotten, BlockIsOnRecord, LiveBlocks
<1>1. ASSUME NEW f \in Theirs, RecvFollow(f)
      PROVE  SafetyInv'
  <2>1. theirs[f] = "unknown" /\ told[f] = {}
    BY <1>1 DEF RecvFollow, Handle, RecordInv, GraphTypeOK
  <2>2. ~ gone /\ ~ blocked
    BY <1>1 DEF RecvFollow, Ignored
  <2>3. theirs' = [theirs EXCEPT ![f] = "stored"]
    BY <1>1 DEF RecvFollow
  <2>4. UNCHANGED <<following, blocked, gone, block>>
    BY <1>1 DEF RecvFollow, outbox
  <2>5. CASE manual
    <3>1. told' = told /\ follower' = follower
      BY <1>1, <2>5 DEF RecvFollow
    <3>. QED BY <2>1, <2>2, <2>3, <2>4, <2>5, <3>1 DEF GraphTypeOK, RecordInv
  <2>6. CASE ~ manual
    <3>1. told' = [told EXCEPT ![f] = @ \union {"Accept"}]
      BY <1>1, <2>6 DEF RecvFollow
    <3>2. follower = None /\ follower' = f
      BY <1>1, <2>6 DEF RecvFollow
    <3>. QED BY <2>1, <2>2, <2>3, <2>4, <3>1, <3>2, NoneIsNoActivity DEF GraphTypeOK
  <2>. QED BY <2>5, <2>6
<1>2. ASSUME NEW f \in Theirs, RecvUndo(f)
      PROVE  SafetyInv'
  <2>1. UNCHANGED <<following, blocked, gone, told, block>>
    BY <1>2 DEF RecvUndo, outbox
  <2>2. CASE theirs[f] = "unknown"
    BY <1>2, <2>1, <2>2 DEF RecvUndo
  <2>3. CASE theirs[f] # "unknown"
    <3>1. theirs' = [theirs EXCEPT ![f] = "deleted"]
      BY <1>2, <2>3 DEF RecvUndo
    <3>2. follower' = IF follower = f THEN None ELSE follower
      BY <1>2, <2>3 DEF RecvUndo
    <3>. QED BY <2>1, <3>1, <3>2, NoneIsNoActivity DEF GraphTypeOK
  <2>. QED BY <2>2, <2>3
<1>3. ASSUME NEW g \in Ours, RecvAccept(g) \/ RecvReject(g)
      PROVE  SafetyInv'
  BY <1>3 DEF RecvAccept, RecvReject, Ignored, inbox
<1>4. CASE RecvDelete
  BY <1>4, NoneIsNoActivity DEF RecvDelete, GraphTypeOK
<1>5. CASE UNCHANGED Relationship
  BY <1>5 DEF Relationship
<1>6. ASSUME NEW a \in Activities, Ignore(a) \/ GiveUp(a)
      PROVE  UNCHANGED Relationship
  BY <1>6 DEF Ignore, GiveUp, Relationship, graphVars, inbox, outbox
<1>7. ASSUME NEW s \in Slots,
             \/ BeginFollow(s) \/ BeginUnfollow(s) \/ BeginBlock(s)
             \/ BeginUnblock(s) \/ BeginAnswer(s) \/ BeginRemove(s)
             \/ Fail(s) \/ SendFollow(s)
      PROVE  UNCHANGED Relationship
  BY <1>7 DEF BeginFollow, BeginUnfollow, BeginBlock, BeginUnblock, BeginAnswer,
     BeginRemove, Begin, Fail, SendFollow, Relationship, inbox, outbox
<1>8. ASSUME NEW s \in Slots, SendUnfollow(s)
      PROVE  SafetyInv'
  BY <1>8 DEF SendUnfollow, inbox
<1>9. ASSUME NEW s \in Slots, SendBlock(s)
      PROVE  SafetyInv'
  <2>1. LiveBlocks' # {}
    BY <1>9 DEF SendBlock, GraphTypeOK
  <2>2. \A f \in Theirs : told'[f] = IF f = follower THEN told[f] \union {"Reject"} ELSE told[f]
    BY <1>9 DEF SendBlock
  <2>3. follower' = None /\ following' = None /\ UNCHANGED <<theirs, gone>>
    BY <1>9 DEF SendBlock
  <2>. QED BY <2>1, <2>2, <2>3, NoneIsNoActivity
<1>10. ASSUME NEW s \in Slots, SendUnblock(s)
      PROVE  SafetyInv'
  BY <1>10 DEF SendUnblock, inbox
<1>11. ASSUME NEW s \in Slots, SendAccept(s)
      PROVE  SafetyInv'
  <2>. DEFINE f == web[s][2]
  <2>1. f \in Theirs /\ manual
    BY <1>11, RequestTypes DEF SendAccept, GraphTypeOK, RequestInv, RecordInv, Answering
  <2>2. /\ told' = [told EXCEPT ![f] = @ \union {"Accept"}]
        /\ follower = None /\ follower' = f
        /\ UNCHANGED <<following, blocked, gone, block, theirs>>
    BY <1>11 DEF SendAccept, outbox
  <2>3. Cardinality(Slots) = 1 => told[f] = {}
    BY <1>11, <2>1 DEF SendAccept, RequestInv, RecordInv, Answering
  <2>. QED BY <2>1, <2>2, <2>3, NoneIsNoActivity DEF GraphTypeOK
<1>12. ASSUME NEW s \in Slots, SendReject(s)
      PROVE  SafetyInv'
  <2>. DEFINE f == web[s][2]
  <2>1. f \in Theirs /\ manual
    BY <1>12, RequestTypes DEF SendReject, GraphTypeOK, RequestInv, RecordInv, Answering
  <2>2. /\ told' = [told EXCEPT ![f] = @ \union {"Reject"}]
        /\ UNCHANGED <<following, follower, blocked, gone, block, theirs>>
    BY <1>12 DEF SendReject, outbox
  <2>3. Cardinality(Slots) = 1 => follower # f
    BY <1>12, <2>1 DEF SendReject, RequestInv, RecordInv, Answering
  <2>. QED BY <2>1, <2>2, <2>3 DEF GraphTypeOK
<1>13. ASSUME NEW s \in Slots, RemoveFollower(s)
      PROVE  SafetyInv'
  <2>. DEFINE f == web[s][2]
  <2>1. f \in Theirs
    BY <1>13, RequestTypes DEF RemoveFollower, GraphTypeOK
  <2>2. /\ told' = [told EXCEPT ![f] = @ \union {"Reject"}]
        /\ follower' = IF follower = f THEN None ELSE follower
        /\ UNCHANGED <<following, blocked, gone, block, theirs>>
    BY <1>13 DEF RemoveFollower, outbox
  <2>. QED BY <2>1, <2>2, NoneIsNoActivity DEF GraphTypeOK
<1>14. CASE UNCHANGED graphVars
  BY <1>5, <1>14 DEF graphVars, inbox, outbox, Relationship
<1>15. CASE RecvMove
  BY <1>15 DEF RecvMove, inbox
<1>16. CASE RecvArrival
  BY <1>5, <1>16 DEF RecvArrival, Relationship, inbox
<1>. QED BY <1>1, <1>2, <1>3, <1>4, <1>5, <1>6, <1>7, <1>8, <1>9, <1>10, <1>11,
        <1>12, <1>13, <1>14, <1>15, <1>16 DEF GraphNext, Peer, Owner

\* The relationship is safe in every reachable state.
THEOREM Safe == GraphSpec => []SafetyInv
BY GraphTypeInit, GraphTypeStep, SafetyInit, SafetyStep, PTL DEF GraphSpec

\* Whatever was in flight when the block was made, a blocked peer is not
\* followed.
THEOREM BlockEndsFollowing == GraphSpec => []BlockedNotFollowing
<1>1. SafetyInv => BlockedNotFollowing
  BY DEF SafetyInv
<1>. QED BY <1>1, Safe, PTL

\* Nor does it follow, when Follows are accepted without the owner.
THEOREM BlockEndsFollower == GraphSpec => []BlockedHasNoFollower
<1>1. SafetyInv => BlockedHasNoFollower
  BY DEF SafetyInv
<1>. QED BY <1>1, Safe, PTL

\* The Follower row stands for a Follow that is still in force.
THEOREM FollowersAreCurrent == GraphSpec => []FollowerIsCurrent
<1>1. SafetyInv => FollowerIsCurrent
  BY DEF SafetyInv
<1>. QED BY <1>1, Safe, PTL

\* A follower that was accepted and did not leave is never dropped untold.
THEOREM DropsAreTold == GraphSpec => []NoSilentDrop
<1>1. SafetyInv => NoSilentDrop
  BY DEF SafetyInv
<1>. QED BY <1>1, Safe, PTL

\* A rejected peer is not kept as a follower.
THEOREM RejectsAreKept == GraphSpec => []RejectedIsNotFollower
<1>1. SafetyInv => RejectedIsNotFollower
  BY DEF SafetyInv
<1>. QED BY <1>1, Safe, PTL

\* An actor that deleted itself is not followed again by what arrives late.
THEOREM DeletedStaysForgotten == GraphSpec => []DeletedIsForgotten
<1>1. SafetyInv => DeletedIsForgotten
  BY DEF SafetyInv
<1>. QED BY <1>1, Safe, PTL

\* A blocked actor always has a Block that can be undone.
THEOREM BlocksAreOnRecord == GraphSpec => []BlockIsOnRecord
<1>1. SafetyInv => BlockIsOnRecord
  BY DEF SafetyInv
<1>. QED BY <1>1, Safe, PTL

-----------------------------------------------------------------------------
(* Overlapping follow requests. *)

Following(s) == web[s][1] = "follow"
FollowingSlots == {s \in Slots : Following(s)}

\* A request that may still send a Follow counts as one that is live: while
\* one is, no request begins.
OverlapInv ==
  Cardinality(LiveFollows) + Cardinality(FollowingSlots) <= Cardinality(Slots) + Moved

\* A Move is never forgotten.
LEMMA MovesStay ==
  ASSUME handled \subseteq handled'
  PROVE  Moved \in Nat /\ Moved' \in Nat /\ Moved <= Moved'
BY DEF Moved

\* Nothing that was handled is forgotten.
LEMMA HandledGrows == [GraphNext]_graphVars => handled \subseteq handled'
BY DEF GraphNext, Peer, Owner, graphVars, RecvFollow, RecvUndo, RecvAccept, RecvReject, Handle,
   Ignore, GiveUp, RecvDelete, RecvMove, RecvArrival, BeginFollow, BeginUnfollow,
   BeginBlock, BeginUnblock, BeginAnswer, BeginRemove, Begin, Fail, SendFollow,
   SendUnfollow, SendBlock, SendUnblock, SendAccept, SendReject, RemoveFollower

\* Both sets are finite.
LEMMA FollowsAreFinite ==
  /\ IsFiniteSet(Ours)
  /\ IsFiniteSet(LiveFollows) /\ IsFiniteSet(FollowingSlots)
  /\ Cardinality(LiveFollows) \in Nat /\ Cardinality(FollowingSlots) \in Nat
  /\ Cardinality(Slots) \in Nat
<1>1. IsFiniteSet(Ours)
  BY BoundsAssumption, FS_Interval DEF Ours
<1>2. LiveFollows \in SUBSET Ours /\ FollowingSlots \in SUBSET Slots
  BY DEF LiveFollows, FollowingSlots
<1>3. IsFiniteSet(LiveFollows) /\ IsFiniteSet(FollowingSlots)
  BY <1>1, <1>2, SlotsAssumption, FS_Subset
<1>. QED BY <1>1, <1>3, SlotsAssumption, FS_CardinalityType

\* A step that adds to neither set keeps the sum within its bound.
LEMMA OverlapShrinks ==
  ASSUME OverlapInv, handled \subseteq handled',
         LiveFollows' \subseteq LiveFollows,
         FollowingSlots' \subseteq FollowingSlots
  PROVE  OverlapInv'
<1>1. /\ Cardinality(LiveFollows') <= Cardinality(LiveFollows)
      /\ Cardinality(LiveFollows') \in Nat
  BY FollowsAreFinite, FS_Subset, FS_CardinalityType
<1>2. /\ Cardinality(FollowingSlots') <= Cardinality(FollowingSlots)
      /\ Cardinality(FollowingSlots') \in Nat
  BY FollowsAreFinite, FS_Subset, FS_CardinalityType
<1>. QED BY <1>1, <1>2, FollowsAreFinite, MovesStay DEF OverlapInv

\* Nothing is live, and nothing is in progress, in a fresh instance.
LEMMA OverlapInit == GraphInit => OverlapInv
<1> SUFFICES ASSUME GraphInit
             PROVE  OverlapInv
  OBVIOUS
<1>1. LiveFollows = {} /\ FollowingSlots = {}
  BY DEF GraphInit, LiveFollows, FollowingSlots, Following, Idle
<1>. QED BY <1>1, FS_EmptySet, FollowsAreFinite DEF OverlapInv, Moved

\* A request begins only while no Follow is live, and the Follow it sends
\* takes the place of the request.
LEMMA OverlapStep == GraphTypeInv /\ OverlapInv /\ [GraphNext]_graphVars => OverlapInv'
<1> SUFFICES ASSUME GraphTypeInv, OverlapInv, [GraphNext]_graphVars
             PROVE  OverlapInv'
  OBVIOUS
<1>0. handled \subseteq handled'
  BY HandledGrows
<1>. USE <1>0 DEF GraphTypeInv
<1>1. CASE UNCHANGED web /\ LiveFollows' \subseteq LiveFollows
  BY <1>1, OverlapShrinks DEF FollowingSlots, Following
<1>2. ASSUME NEW f \in Theirs, RecvFollow(f) \/ RecvUndo(f)
      PROVE  UNCHANGED <<ours, web>>
  BY <1>2 DEF RecvFollow, RecvUndo, outbox
<1>3. ASSUME NEW g \in Ours, RecvAccept(g) \/ RecvReject(g)
      PROVE  UNCHANGED <<ours, web>>
  BY <1>3 DEF RecvAccept, RecvReject
<1>4. ASSUME NEW a \in Activities, Ignore(a) \/ GiveUp(a)
      PROVE  UNCHANGED <<ours, web>>
  BY <1>4 DEF Ignore, GiveUp, graphVars, outbox
<1>5. CASE UNCHANGED <<ours, web>>
  BY <1>1, <1>5 DEF LiveFollows
<1>6. CASE RecvDelete
  BY <1>1, <1>6 DEF RecvDelete, LiveFollows, GraphTypeOK
<1>7. ASSUME NEW s \in Slots, BeginFollow(s)
      PROVE  OverlapInv'
  <2>1. LiveFollows' = {}
    BY <1>7 DEF BeginFollow, Begin, LiveFollows, outbox
  <2>2. FollowingSlots' \in SUBSET Slots
    BY DEF FollowingSlots
  <2>3. Cardinality(FollowingSlots') <= Cardinality(Slots)
    BY <2>2, SlotsAssumption, FS_Subset
  <2>4. Cardinality(FollowingSlots') \in Nat
    BY <2>2, SlotsAssumption, FS_Subset, FS_CardinalityType
  <2>. QED BY <2>1, <2>3, <2>4, FS_EmptySet, FollowsAreFinite, MovesStay DEF OverlapInv
<1>8. ASSUME NEW s \in Slots, NEW r, Begin(s, r), r[1] # "follow"
      PROVE  OverlapInv'
  <2>1. LiveFollows' = LiveFollows
    BY <1>8 DEF Begin, LiveFollows, outbox
  <2>2. FollowingSlots' \subseteq FollowingSlots
    BY <1>8 DEF Begin, FollowingSlots, Following, GraphTypeOK
  <2>. QED BY <2>1, <2>2, OverlapShrinks
<1>9. ASSUME NEW s \in Slots,
             \/ BeginUnfollow(s) \/ BeginBlock(s) \/ BeginUnblock(s)
             \/ BeginAnswer(s) \/ BeginRemove(s)
      PROVE  OverlapInv'
  <2>1. \A kind, x : kind # "follow" /\ Begin(s, <<kind, x>>) => OverlapInv'
    BY <1>8
  <2>2. CASE BeginUnfollow(s)
    BY <2>1, <2>2 DEF BeginUnfollow
  <2>3. CASE BeginBlock(s) \/ BeginUnblock(s)
    BY <2>1, <2>3 DEF BeginBlock, BeginUnblock
  <2>4. CASE BeginAnswer(s) \/ BeginRemove(s)
    BY <2>1, <2>4 DEF BeginAnswer, BeginRemove
  <2>. QED BY <1>9, <2>2, <2>3, <2>4
<1>10. ASSUME NEW s \in Slots, Done(s)
       PROVE  FollowingSlots' = FollowingSlots \ {s}
  BY <1>10 DEF Done, FollowingSlots, Following, GraphTypeOK, Idle
<1>11. ASSUME NEW s \in Slots, Done(s), LiveFollows' \subseteq LiveFollows
       PROVE  OverlapInv'
  BY <1>10, <1>11, OverlapShrinks
<1>12. ASSUME NEW s \in Slots, SendFollow(s)
       PROVE  OverlapInv'
  <2>1. s \in FollowingSlots /\ FollowingSlots' = FollowingSlots \ {s}
    BY <1>10, <1>12 DEF SendFollow, FollowingSlots, Following
  <2>2. PICK g \in Ours : ours[g] = "unsent" /\ ours' = [ours EXCEPT ![g] = "live"]
    BY <1>12 DEF SendFollow, NewFollow
  <2>3. g \notin LiveFollows /\ LiveFollows' = LiveFollows \union {g}
    BY <2>2 DEF LiveFollows, GraphTypeOK
  <2>4. Cardinality(LiveFollows') = Cardinality(LiveFollows) + 1
    BY <2>3, FollowsAreFinite, FS_AddElement
  <2>5. Cardinality(FollowingSlots') = Cardinality(FollowingSlots) - 1
    BY <2>1, FollowsAreFinite, FS_RemoveElement
  <2>. QED BY <2>4, <2>5, FollowsAreFinite, MovesStay DEF OverlapInv
<1>13. ASSUME NEW s \in Slots, SendUnfollow(s) \/ SendBlock(s)
       PROVE  OverlapInv'
  <2>1. Done(s) /\ LiveFollows' \subseteq LiveFollows
    BY <1>13 DEF SendUnfollow, SendBlock, LiveFollows, GraphTypeOK
  <2>. QED BY <1>11, <2>1
<1>14. ASSUME NEW s \in Slots,
              \/ Fail(s) \/ SendUnblock(s) \/ SendAccept(s) \/ SendReject(s)
              \/ RemoveFollower(s)
       PROVE  OverlapInv'
  <2>1. Done(s) /\ ours' = ours
    BY <1>14 DEF Fail, SendUnblock, SendAccept, SendReject, RemoveFollower, outbox
  <2>. QED BY <1>11, <2>1 DEF LiveFollows
<1>15. CASE UNCHANGED graphVars
  BY <1>5, <1>15 DEF graphVars, outbox
<1>16. CASE RecvMove
  <2>1. LiveFollows' \subseteq LiveFollows
    BY <1>16 DEF RecvMove, LiveFollows, GraphTypeOK
  <2>. QED BY <1>1, <1>16, <2>1 DEF RecvMove
<1>17. CASE RecvArrival
  <2>1. CASE UNCHANGED ours
    BY <1>5, <1>17, <2>1 DEF RecvArrival
  <2>2. CASE NewFollow
    <3>1. PICK g \in Ours : ours[g] = "unsent" /\ ours' = [ours EXCEPT ![g] = "live"]
      BY <2>2 DEF NewFollow
    <3>2. g \notin LiveFollows /\ LiveFollows' = LiveFollows \union {g}
      BY <3>1 DEF LiveFollows, GraphTypeOK
    <3>3. Cardinality(LiveFollows') = Cardinality(LiveFollows) + 1
      BY <3>2, FollowsAreFinite, FS_AddElement
    <3>4. Moved = 0 /\ Moved' = 1
      BY <1>17 DEF RecvArrival, Handle, Moved
    <3>5. FollowingSlots' = FollowingSlots
      BY <1>17 DEF RecvArrival, FollowingSlots, Following
    <3>. QED BY <3>3, <3>4, <3>5, FollowsAreFinite DEF OverlapInv
  <2>. QED BY <1>17, <2>1, <2>2 DEF RecvArrival
<1>. QED BY <1>2, <1>3, <1>4, <1>5, <1>6, <1>7, <1>9, <1>12, <1>13, <1>14, <1>15,
         <1>16, <1>17 DEF GraphNext, Peer, Owner

\* Follow requests that overlap send at most one live Follow each.
THEOREM FollowsAreBounded == GraphSpec => []LiveFollowsBounded
<1>1. OverlapInv => LiveFollowsBounded
  BY FollowsAreFinite DEF OverlapInv, LiveFollowsBounded, Moved
<1>. QED BY <1>1, GraphTypeInit, GraphTypeStep, OverlapInit, OverlapStep, PTL DEF GraphSpec

=============================================================================
