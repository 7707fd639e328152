------------------------------ MODULE Polls_proofs ------------------------------
(* What Polls promises, for any number of polls, answers, voters, votes, edits  *)
(* and removed notifications.                                                   *)
EXTENDS Polls, FiniteSetTheorems, TLAPS

-----------------------------------------------------------------------------
(* The inductive invariant. *)

TallyRow == [voters : Nat, of : [Options -> Nat]]
Vote == [poll : Theirs, names : (SUBSET Options) \ {{}}, checked : {TRUE}]

QuestionType ==
  /\ oneOf \subseteq Questions /\ endless \subseteq Theirs
  /\ row \in [Questions -> {"none", "live", "deleted"}]
  /\ fields \subseteq Own /\ passed \subseteq Questions
BallotType ==
  /\ answers \in [Own -> SUBSET (Actors \X Options)]
  /\ tally \in [Own -> TallyRow]
  /\ wire \subseteq Own \X Actors \X Options
VoteType ==
  /\ voted \in [Theirs -> SUBSET Options] /\ pending \subseteq Vote
  /\ cast \in [Theirs -> Nat] /\ late \in [Theirs -> Nat]
NoticeType ==
  /\ notif \subseteq Questions
  /\ emitted \in [Questions -> Nat] /\ removed \in [Questions -> Nat]
TypeInv == QuestionType /\ BallotType /\ VoteType /\ NoticeType

\* Nobody has answered a poll that was never published.
NewInv == \A x \in Own : row[x] = "none" =>
  x \notin fields /\ answers[x] = {} /\ \A v \in wire : v[1] # x
\* The tally is that of the answers, until an edit drops it.
CountInv == \A x \in Own : x \in fields => tally[x] = Tally(answers[x])
BlankInv == \A x \in Own : row[x] = "none" => tally[x] = NoVotes
\* The unique index.
UniqueInv == \A x \in Own \cap oneOf : \A b, c \in answers[x] : b[1] = c[1] => b = c
BallotInv == NewInv /\ CountInv /\ BlankInv /\ UniqueInv

\* A vote that is not late is the first: the check saw none.
VoteInv == \A x \in Theirs : (voted[x] = {} => cast[x] = 0) /\ cast[x] <= 1 + late[x]

\* A notification is there or was removed.
NoticeInv == \A x \in Questions : emitted[x] = removed[x] + (IF x \in notif THEN 1 ELSE 0)

PollInv == TypeInv /\ BallotInv /\ VoteInv /\ NoticeInv

-----------------------------------------------------------------------------
(* Tallies. *)

LEMMA TallyType ==
  ASSUME NEW A \in SUBSET (Actors \X Options)
  PROVE  Tally(A) \in TallyRow
<1>1. IsFiniteSet(Actors \X Options)
  BY FS_Product, PollsAssumption
<1>2. \A B \in SUBSET A : Cardinality(B) \in Nat
  BY <1>1, FS_Subset, FS_CardinalityType
<1>3. {a[1] : a \in A} \in SUBSET Actors
  OBVIOUS
<1>4. Cardinality({a[1] : a \in A}) \in Nat
  BY <1>3, FS_Subset, FS_CardinalityType, PollsAssumption
<1> QED
  BY <1>2, <1>4 DEF Tally, TallyRow

LEMMA TallyOfNone == Tally({}) = NoVotes
<1>1. {a[1] : a \in {}} = {} /\ \A o : {a \in {} : a[2] = o} = {}
  OBVIOUS
<1> QED
  BY <1>1, FS_EmptySet DEF Tally, NoVotes

\* Where each actor has one answer, there are as many voters as answers.
LEMMA VotersAreAnswers ==
  ASSUME NEW A \in SUBSET (Actors \X Options), \A b, c \in A : b[1] = c[1] => b = c
  PROVE  Tally(A).voters = Cardinality(A)
<1> DEFINE V == {a[1] : a \in A}
           f == [a \in A |-> a[1]]
<1>1. IsFiniteSet(A)
  BY FS_Product, FS_Subset, PollsAssumption
<1>2. f \in Surjection(A, V) /\ f \in Injection(A, V)
  BY DEF Surjection, Injection, IsInjective
<1>3. Cardinality(V) = Cardinality(A)
  BY <1>1, <1>2, FS_Surjection
<1> QED
  BY <1>3 DEF Tally

-----------------------------------------------------------------------------
(* Each step preserves the invariant. *)

LEMMA TypeNext ==
  ASSUME TypeInv, [Next]_vars
  PROVE  TypeInv'
<1> USE DEF TypeInv, QuestionType, BallotType, VoteType, NoticeType
<1>1. NoVotes \in TallyRow
  BY DEF NoVotes, TallyRow
<1>2. ASSUME NEW x \in Own, SendCreate(x) \/ SendUpdate(x) \/ SendDelete(x) PROVE TypeInv'
  BY <1>1, <1>2 DEF SendCreate, SendUpdate, SendDelete, Questions, ballots, votes, notices
<1>3. ASSUME NEW x \in Theirs, NEW S \in SUBSET Options, PollsVote(x, S) \/ AdminVote(x, S) PROVE TypeInv'
  <2>1. CASE PollsVote(x, S)
    <3>1. [poll |-> x, names |-> S, checked |-> TRUE] \in Vote
      BY <2>1 DEF PollsVote, Picks, Vote
    <3> QED
      BY <2>1, <3>1 DEF PollsVote, questions, ballots, notices
  <2>2. CASE AdminVote(x, S)
    BY <2>2 DEF AdminVote, SendVote, questions, ballots, notices
  <2> QED
    BY <1>3, <2>1, <2>2
<1>4. ASSUME NEW w \in pending, CastVote(w) PROVE TypeInv'
  <2>1. w.poll \in Theirs /\ w.names \in SUBSET Options
    BY DEF Vote
  <2> QED
    BY <1>4, <2>1 DEF CastVote, SendVote, questions, ballots, notices
<1>5. ASSUME NEW S, Take(S) PROVE TypeInv'
  BY <1>5 DEF Take, questions, ballots, votes
<1>6. ASSUME NEW x \in Own, NEW a \in Actors, NEW o \in Options, Answer(x, a, o) PROVE TypeInv'
  BY <1>6 DEF Answer, questions, votes, notices
<1>7. ASSUME NEW v \in wire, HandleVoteAnswer(v) PROVE TypeInv'
  <2>1. v[1] \in Own /\ <<v[2], v[3]>> \in Actors \X Options
    OBVIOUS
  <2>2. answers[v[1]] \cup {<<v[2], v[3]>>} \in SUBSET (Actors \X Options)
    BY <2>1
  <2>3. Tally(answers[v[1]] \cup {<<v[2], v[3]>>}) \in TallyRow
    BY <2>2, TallyType
  <2> QED
    BY <1>7, <2>1, <2>2, <2>3 DEF HandleVoteAnswer, questions, votes, notices
<1>8. ASSUME NEW x \in Theirs, Receive(x) \/ Delete(x) PROVE TypeInv'
  BY <1>8 DEF Receive, Delete, Questions, ballots, votes, notices
<1>9. CASE NotifyEndedPolls
  BY <1>9 DEF NotifyEndedPolls, Due, Firsts, Candidates, questions, ballots, votes
<1>10. ASSUME NEW x \in Questions, End(x) PROVE TypeInv'
  BY <1>10 DEF End, ballots, votes, notices
<1>11. CASE UNCHANGED vars
  BY <1>11 DEF vars, questions, ballots, votes, notices
<1> QED
  BY <1>2, <1>3, <1>4, <1>5, <1>6, <1>7, <1>8, <1>9, <1>10, <1>11
  DEF Next, Owner, Peer, Dismiss, Clear

LEMMA BallotNext ==
  ASSUME TypeInv, BallotInv, [Next]_vars
  PROVE  BallotInv'
<1> USE DEF BallotInv, NewInv, CountInv, BlankInv, UniqueInv, TypeInv, QuestionType, BallotType
<1>1. ASSUME NEW x \in Own, SendCreate(x) PROVE BallotInv'
  BY <1>1, TallyOfNone DEF SendCreate, Questions, ballots
<1>2. ASSUME NEW x \in Own, SendUpdate(x) \/ SendDelete(x) PROVE BallotInv'
  BY <1>2 DEF SendUpdate, SendDelete, Questions, ballots
<1>3. ASSUME NEW x \in Own, NEW a \in Actors, NEW o \in Options, Answer(x, a, o) PROVE BallotInv'
  BY <1>3 DEF Answer, questions, Questions
<1>4. ASSUME NEW v \in wire, HandleVoteAnswer(v) PROVE BallotInv'
  <2>1. v[1] \in Own /\ row[v[1]] # "none" /\ UNCHANGED questions /\ wire' \subseteq wire
    BY <1>4 DEF HandleVoteAnswer
  <2>2. CASE UNCHANGED <<answers, tally>>
    BY <2>1, <2>2 DEF questions
  <2>3. CASE /\ Unique(v[1], v[2], v[3])
             /\ answers' = [answers EXCEPT ![v[1]] = answers[v[1]] \cup {<<v[2], v[3]>>}]
             /\ tally' = [tally EXCEPT ![v[1]] = Tally(answers[v[1]] \cup {<<v[2], v[3]>>})]
    <3>1. \A x \in Own : x # v[1] => answers'[x] = answers[x] /\ tally'[x] = tally[x]
      BY <2>1, <2>3
    <3>2. answers'[v[1]] = answers[v[1]] \cup {<<v[2], v[3]>>} /\ tally'[v[1]] = Tally(answers'[v[1]])
      BY <2>1, <2>3
    <3>3. NewInv' /\ CountInv' /\ BlankInv'
      BY <2>1, <3>1, <3>2 DEF questions
    <3>4. UniqueInv'
      BY <2>1, <2>3, <3>1, <3>2 DEF questions, Unique
    <3> QED
      BY <3>3, <3>4
  <2> QED
    BY <1>4, <2>2, <2>3 DEF HandleVoteAnswer
<1>5. ASSUME NEW x \in Theirs, Receive(x) \/ Delete(x) PROVE BallotInv'
  <2>1. \A y \in Own : row'[y] = row[y]
    BY <1>5, PollsAssumption DEF Receive, Delete, Questions
  <2> QED
    BY <1>5, <2>1 DEF Receive, Delete, ballots
<1>6. ASSUME UNCHANGED ballots, UNCHANGED <<oneOf, row, fields>> PROVE BallotInv'
  BY <1>6 DEF ballots
<1>7. ASSUME NEW x \in Theirs, NEW S \in SUBSET Options, PollsVote(x, S) \/ AdminVote(x, S) PROVE BallotInv'
  BY <1>6, <1>7 DEF PollsVote, AdminVote, questions
<1>8. ASSUME NEW w \in pending, CastVote(w) PROVE BallotInv'
  BY <1>6, <1>8 DEF CastVote, questions
<1>9. ASSUME NEW S, Take(S) PROVE BallotInv'
  BY <1>6, <1>9 DEF Take, questions
<1>10. CASE NotifyEndedPolls \/ UNCHANGED vars \/ \E x \in Questions : End(x)
  BY <1>6, <1>10 DEF NotifyEndedPolls, vars, End, questions
<1> QED
  BY <1>1, <1>2, <1>3, <1>4, <1>5, <1>7, <1>8, <1>9, <1>10 DEF Next, Owner, Peer, Dismiss, Clear

LEMMA VoteNext ==
  ASSUME TypeInv, VoteInv, [Next]_vars
  PROVE  VoteInv'
<1> USE DEF VoteInv, TypeInv, VoteType
<1>1. ASSUME NEW w \in pending, CastVote(w) PROVE VoteInv'
  <2>1. w.poll \in Theirs /\ w.names # {} /\ w.checked
    BY DEF Vote
  <2>2. ASSUME NEW x \in Theirs, x # w.poll
        PROVE  voted'[x] = voted[x] /\ cast'[x] = cast[x] /\ late'[x] = late[x]
    BY <1>1, <2>1, <2>2 DEF CastVote, SendVote
  <2>3. cast'[w.poll] = cast[w.poll] + 1 /\ voted'[w.poll] = w.names
        /\ late'[w.poll] = IF voted[w.poll] = {} THEN late[w.poll] ELSE late[w.poll] + 1
    BY <1>1, <2>1 DEF CastVote, SendVote
  <2> QED
    BY <2>1, <2>2, <2>3
<1>2. ASSUME NEW x \in Theirs, NEW S \in SUBSET Options, PollsVote(x, S) PROVE VoteInv'
  BY <1>2 DEF PollsVote
<1>3. ASSUME NEW x \in Theirs, NEW S \in SUBSET Options, AdminVote(x, S) PROVE VoteInv'
  BY <1>3 DEF AdminVote, SendVote
<1>4. ASSUME UNCHANGED votes PROVE VoteInv'
  BY <1>4 DEF votes
<1>5. ASSUME NEW x \in Own, SendCreate(x) \/ SendUpdate(x) \/ SendDelete(x) PROVE VoteInv'
  BY <1>4, <1>5 DEF SendCreate, SendUpdate, SendDelete
<1>6. ASSUME NEW S, Take(S) PROVE VoteInv'
  BY <1>4, <1>6 DEF Take
<1>7. ASSUME Peer PROVE VoteInv'
  BY <1>4, <1>7 DEF Peer, Answer, HandleVoteAnswer, Receive, Delete
<1>8. CASE NotifyEndedPolls \/ UNCHANGED vars \/ \E x \in Questions : End(x)
  BY <1>4, <1>8 DEF NotifyEndedPolls, vars, End
<1> QED
  BY <1>1, <1>2, <1>3, <1>5, <1>6, <1>7, <1>8 DEF Next, Owner, Dismiss, Clear

LEMMA NoticeNext ==
  ASSUME TypeInv, NoticeInv, [Next]_vars
  PROVE  NoticeInv'
<1> USE DEF NoticeInv, TypeInv, NoticeType
<1>1. CASE NotifyEndedPolls
  <2>1. \A x \in Due : x \in Questions /\ x \notin notif
    BY DEF Due, Firsts, Candidates, Candidate
  <2> QED
    BY <1>1, <2>1 DEF NotifyEndedPolls
<1>2. ASSUME NEW S, Take(S) PROVE NoticeInv'
  BY <1>2 DEF Take
<1>3. ASSUME NEW x \in Theirs, Delete(x) PROVE NoticeInv'
  BY <1>3 DEF Delete, Questions
<1>4. ASSUME UNCHANGED notices PROVE NoticeInv'
  BY <1>4 DEF notices
<1>5. ASSUME NEW x \in Own, SendCreate(x) \/ SendUpdate(x) \/ SendDelete(x) PROVE NoticeInv'
  BY <1>4, <1>5 DEF SendCreate, SendUpdate, SendDelete
<1>6. ASSUME NEW x \in Theirs, NEW S \in SUBSET Options, PollsVote(x, S) \/ AdminVote(x, S) PROVE NoticeInv'
  BY <1>4, <1>6 DEF PollsVote, AdminVote
<1>7. ASSUME NEW w \in pending, CastVote(w) PROVE NoticeInv'
  BY <1>4, <1>7 DEF CastVote
<1>8. ASSUME Peer, \A x \in Theirs : ~Delete(x) PROVE NoticeInv'
  BY <1>4, <1>8 DEF Peer, Answer, HandleVoteAnswer, Receive
<1>9. CASE UNCHANGED vars \/ \E x \in Questions : End(x)
  BY <1>4, <1>9 DEF vars, End
<1> QED
  BY <1>1, <1>2, <1>3, <1>5, <1>6, <1>7, <1>8, <1>9 DEF Next, Owner, Dismiss, Clear

-----------------------------------------------------------------------------
(* The theorems. *)

LEMMA PollInit == Init => PollInv
<1> SUFFICES ASSUME Init PROVE PollInv
  OBVIOUS
<1>1. TypeInv
  BY DEF Init, TypeInv, QuestionType, BallotType, VoteType, NoticeType, NoVotes, TallyRow
<1>2. BallotInv
  BY DEF Init, BallotInv, NewInv, CountInv, BlankInv, UniqueInv
<1>3. VoteInv /\ NoticeInv
  BY DEF Init, VoteInv, NoticeInv
<1> QED
  BY <1>1, <1>2, <1>3 DEF PollInv

LEMMA PollAlways == Spec => []PollInv
<1>1. PollInv /\ [Next]_vars => PollInv'
  BY TypeNext, BallotNext, VoteNext, NoticeNext DEF PollInv
<1> QED
  BY PollInit, <1>1, PTL DEF Spec

\* Columns and history keep their types.
THEOREM TypeCorrect == Spec => []TypeOK
<1>1. PollInv => TypeOK
  BY DEF PollInv, TypeInv, QuestionType, BallotType, VoteType, NoticeType, TypeOK, TallyRow
<1> QED
  BY <1>1, PollAlways, PTL

\* The tally of a poll is that of the stored answers, and in a poll with one choice
\* nobody counts twice: whatever order answers, repetitions, edits and the end come in.
THEOREM TalliesAreFair == Spec => []TallyIsFair
<1>1. ASSUME PollInv, NEW x \in fields
      PROVE  tally[x] = Tally(answers[x]) /\ (x \in oneOf => tally[x].voters = Cardinality(answers[x]))
  <2>1. x \in Own /\ answers[x] \in SUBSET (Actors \X Options)
    BY <1>1 DEF PollInv, TypeInv, QuestionType, BallotType
  <2>2. tally[x] = Tally(answers[x])
    BY <1>1, <2>1 DEF PollInv, BallotInv, CountInv
  <2>3. x \in oneOf => \A b, c \in answers[x] : b[1] = c[1] => b = c
    BY <1>1, <2>1 DEF PollInv, BallotInv, UniqueInv
  <2> QED
    BY <2>1, <2>2, <2>3, VotersAreAnswers
<1>2. PollInv /\ TypeOK => TallyIsFair
  BY <1>1 DEF TallyIsFair
<1> QED
  BY <1>2, PollAlways, TypeCorrect, PTL

\* A poll of a peer gets one vote of ours, and one more for each that was sent
\* without a check, or after another one that had overtaken it.
THEOREM VotesAreCastOnce == Spec => []VotedOnce
<1>1. PollInv => VotedOnce
  BY DEF PollInv, VoteInv, VotedOnce
<1> QED
  BY <1>1, PollAlways, PTL

\* The end of a poll is notified once, and once more for each notification of it that
\* was removed, whether by the owner or with the poll.
THEOREM EndsAreNotifiedOnce == Spec => []NotifiedOncePerRemoval
<1>1. PollInv => NotifiedOncePerRemoval
  BY DEF PollInv, TypeInv, NoticeType, NoticeInv, NotifiedOncePerRemoval
<1> QED
  BY <1>1, PollAlways, PTL
=============================================================================
