--------------------------------- MODULE Polls ---------------------------------
(***************************************************************************)
(* Polls: the answers to those of ours and their tally, our votes in those *)
(* of others, and the notification that a poll has ended.                  *)
(*                                                                         *)
(* Answers are incoming activities: handled in any order, each in one      *)
(* transaction, which is rolled back when the answer breaks a unique index *)
(* of poll_answer.  A vote of ours is a request: it reads the poll, awaits *)
(* the body, and writes.  The notifications ride on the outgoing worker.   *)
(***************************************************************************)
EXTENDS Integers, FiniteSets

CONSTANTS
  Own,         \* Questions of ours
  Theirs,      \* Questions of peers
  Place,       \* the ids: the place of each in the order in which the worker looks
  Options,     \* the names of the answers
  Actors,      \* who answers
  Batch,       \* notifications written in a pass
  MaxRequests, \* bound: requests of the owner
  MaxRemoved   \* bound: notifications that are removed

Questions == Own \cup Theirs
ASSUME PollsAssumption ==
  /\ IsFiniteSet(Questions) /\ IsFiniteSet(Actors) /\ IsFiniteSet(Options)
  /\ Own \cap Theirs = {}
  /\ Place \in [Questions -> Nat] /\ \A x, y \in Questions : Place[x] = Place[y] => x = y
  /\ Batch \in Nat \ {0} /\ MaxRequests \in Nat /\ MaxRemoved \in Nat

VARIABLES
  oneOf,    \* the Questions where one answer may be chosen
  endless,  \* the Questions of peers that have no endTime
  row,      \* each Question: "none", "live" or "deleted"
  fields,   \* the Questions of ours that still hold their answers and endTime
  passed,   \* the Questions whose end has passed
  answers,  \* the rows of poll_answer: an actor and an option each
  tally,    \* the tally in the Question, as its Updates carry it
  wire,     \* the answers on their way
  voted,    \* voted_for_answers
  pending,  \* the votes of ours that have passed the checks
  notif,    \* the polls that have a notification
  requests,
  \* History: not read by the code.
  cast,     \* how many times the votes of ours were sent
  late,     \* votes sent without a check, or after another had passed it
  emitted, removed \* how many notifications were written, and removed

questions == <<oneOf, endless, row, fields, passed>>
ballots == <<answers, tally, wire>>
votes == <<voted, pending, cast, late>>
notices == <<notif, emitted, removed>>
vars == <<questions, ballots, votes, notices, requests>>

Asked == requests < MaxRequests /\ requests' = requests + 1

\* Object.is_poll_ended: only a poll that has an endTime ends.
HasEnd(x) == IF x \in Own THEN x \in fields ELSE x \notin endless
IsEnded(x) == x \in passed /\ HasEnd(x)

-----------------------------------------------------------------------------
(* Polls of ours. *)

NoVotes == [voters |-> 0, of |-> [o \in Options |-> 0]]
Tally(A) == [voters |-> Cardinality({a[1] : a \in A}),
             of |-> [o \in Options |-> Cardinality({a \in A : a[2] = o})]]

\* send_create, of a Question.
SendCreate(x) ==
  /\ row[x] = "none" /\ Asked
  /\ row' = [row EXCEPT ![x] = "live"] /\ fields' = fields \cup {x}
  /\ UNCHANGED <<oneOf, endless, passed, ballots, votes, notices>>
\* send_update: the answers and the endTime are not written again.
SendUpdate(x) ==
  /\ x \in Own /\ row[x] # "none" /\ Asked
  /\ fields' = fields \ {x} /\ tally' = [tally EXCEPT ![x] = NoVotes]
  /\ UNCHANGED <<oneOf, endless, row, passed, answers, wire, votes, notices>>
SendDelete(x) ==
  /\ x \in Own /\ row[x] = "live" /\ Asked
  /\ row' = [row EXCEPT ![x] = "deleted"]
  /\ UNCHANGED <<oneOf, endless, fields, passed, ballots, votes, notices>>

\* A peer answers: a server sends what its user picks, once.
Answer(x, a, o) ==
  /\ x \in Own /\ row[x] = "live" /\ x \notin passed
  /\ <<x, a, o>> \notin wire /\ <<a, o>> \notin answers[x]
  /\ wire' = wire \cup {<<x, a, o>>}
  /\ UNCHANGED <<questions, answers, tally, votes, notices, requests>>

\* The unique indexes of poll_answer.
Unique(x, a, o) == <<a, o>> \notin answers[x]
                   /\ (x \in oneOf => \A b \in answers[x] : b[1] # a)
\* mutant: the tally is taken before the answer is flushed
HandleUnflushed(v) ==
  LET x == v[1] IN
  /\ wire' = wire \ {v}
  /\ IF ~IsEnded(x) /\ x \in fields /\ Unique(x, v[2], v[3])
     THEN /\ answers' = [answers EXCEPT ![x] = @ \cup {<<v[2], v[3]>>}]
          /\ tally' = [tally EXCEPT ![x] = Tally(answers[x])]
     ELSE UNCHANGED <<answers, tally>>
  /\ UNCHANGED <<questions, votes, notices, requests>>
\* _handle_vote_answer.  An answer that comes after the end is discarded; one
\* that is not unique, or whose poll has lost its answers, fails, and so does
\* every retry.  Nothing asks whether the poll is deleted.
HandleVoteAnswer(v) ==
  LET x == v[1]
      A == answers[x] \cup {<<v[2], v[3]>>}
  IN  /\ wire' = wire \ {v}
      /\ IF ~IsEnded(x) /\ x \in fields /\ Unique(x, v[2], v[3])
         THEN answers' = [answers EXCEPT ![x] = A] /\ tally' = [tally EXCEPT ![x] = Tally(A)]
         ELSE UNCHANGED <<answers, tally>>
      /\ UNCHANGED <<questions, votes, notices, requests>>

-----------------------------------------------------------------------------
(* Polls of peers. *)

\* A Question of a peer arrives; its Delete takes its notifications along.
Receive(x) ==
  /\ x \in Theirs /\ row[x] = "none" /\ row' = [row EXCEPT ![x] = "live"]
  /\ UNCHANGED <<oneOf, endless, fields, passed, ballots, votes, notices, requests>>
Delete(x) ==
  /\ x \in Theirs /\ row[x] = "live" /\ row' = [row EXCEPT ![x] = "deleted"]
  /\ notif' = notif \ {x}
  /\ removed' = IF x \in notif THEN [removed EXCEPT ![x] = @ + 1] ELSE removed
  /\ UNCHANGED <<oneOf, endless, fields, passed, ballots, votes, emitted, requests>>

Picks(x) == {S \in SUBSET Options : S # {} /\ (x \in oneOf => Cardinality(S) = 1)}
\* mutant: a poll may be voted in again
PollsRevote(x, S) ==
  /\ x \in Theirs /\ row[x] # "none" /\ S \in Picks(x) /\ Asked
  /\ ~IsEnded(x)
  /\ pending' = pending \cup {[poll |-> x, names |-> S, checked |-> voted[x] = {}]}
  /\ UNCHANGED <<questions, ballots, voted, cast, late, notices>>
\* polls_vote: one vote in a poll that has not ended.
PollsVote(x, S) ==
  /\ x \in Theirs /\ row[x] # "none" /\ S \in Picks(x) /\ Asked
  /\ ~IsEnded(x) /\ voted[x] = {}
  /\ pending' = pending \cup {[poll |-> x, names |-> S, checked |-> TRUE]}
  /\ UNCHANGED <<questions, ballots, voted, cast, late, notices>>

\* send_vote: one activity per name, and the names over those of before.
SendVote(x, S) ==
  /\ voted' = [voted EXCEPT ![x] = S] /\ cast' = [cast EXCEPT ![x] = @ + 1]
CastVote(w) ==
  /\ pending' = pending \ {w} /\ SendVote(w.poll, w.names)
  /\ late' = IF w.checked /\ voted[w.poll] # {} THEN [late EXCEPT ![w.poll] = @ + 1] ELSE late
  /\ UNCHANGED <<questions, ballots, notices, requests>>
\* admin_actions_vote: what the form holds, whether or not there was a vote.
AdminVote(x, S) ==
  /\ x \in Theirs /\ row[x] # "none" /\ S \in (SUBSET Options) \ {{}} /\ Asked
  /\ SendVote(x, S) /\ late' = [late EXCEPT ![x] = @ + 1]
  /\ UNCHANGED <<questions, ballots, pending, notices>>

-----------------------------------------------------------------------------
(* The notifications. *)

\* mutant: the notification is not looked for
CandidateAgain(x) ==
  /\ HasEnd(x)
  /\ IF x \in Own THEN row[x] = "live" ELSE row[x] # "none" /\ voted[x] # {}
\* _candidate_own_polls, _candidate_voted_polls: a deleted poll of a peer is
\* one, too.
Candidate(x) ==
  /\ x \notin notif /\ HasEnd(x)
  /\ IF x \in Own THEN row[x] = "live" ELSE row[x] # "none" /\ voted[x] # {}

Firsts(S) == {x \in S : Cardinality({y \in S : Place[y] < Place[x]}) < Batch}
Candidates == {x \in Questions : Candidate(x)}
\* mutant: the limit is that of the query
DueOfFirst == {x \in Firsts(Candidates) : IsEnded(x)}
\* A pass writes as many as the limit, whatever number it looks at.
Due == Firsts({x \in Candidates : IsEnded(x)})
\* notify_ended_polls
NotifyEndedPolls ==
  /\ Due # {}
  /\ notif' = notif \cup Due
  /\ emitted' = [x \in Questions |-> IF x \in Due THEN emitted[x] + 1 ELSE emitted[x]]
  /\ UNCHANGED <<questions, ballots, votes, removed, requests>>

\* notifications_dismiss, notifications_clear: the rows are deleted.
Take(S) ==
  /\ S # {} /\ S \subseteq notif
  /\ \A x \in S : removed[x] < MaxRemoved
  /\ notif' = notif \ S
  /\ removed' = [x \in Questions |-> IF x \in S THEN removed[x] + 1 ELSE removed[x]]
  /\ UNCHANGED <<questions, ballots, votes, emitted, requests>>
Dismiss == \E x \in notif : Take({x})
Clear == Take(notif)

End(x) ==
  /\ row[x] # "none" /\ x \notin passed /\ passed' = passed \cup {x}
  /\ UNCHANGED <<oneOf, endless, row, fields, ballots, votes, notices, requests>>

Init ==
  /\ oneOf \in SUBSET Questions /\ endless \in SUBSET Theirs
  /\ row = [x \in Questions |-> "none"] /\ fields = {} /\ passed = {}
  /\ answers = [x \in Own |-> {}] /\ tally = [x \in Own |-> NoVotes] /\ wire = {}
  /\ voted = [x \in Theirs |-> {}] /\ pending = {}
  /\ cast = [x \in Theirs |-> 0] /\ late = [x \in Theirs |-> 0]
  /\ notif = {} /\ requests = 0
  /\ emitted = [x \in Questions |-> 0] /\ removed = [x \in Questions |-> 0]

Owner ==
  \/ \E x \in Own : SendCreate(x) \/ SendUpdate(x) \/ SendDelete(x)
  \/ \E x \in Theirs, S \in SUBSET Options : PollsVote(x, S) \/ AdminVote(x, S)
  \/ (\E w \in pending : CastVote(w)) \/ Dismiss \/ Clear
Peer ==
  \/ \E x \in Own, a \in Actors, o \in Options : Answer(x, a, o)
  \/ (\E v \in wire : HandleVoteAnswer(v))
  \/ \E x \in Theirs : Receive(x) \/ Delete(x)
Next == Owner \/ Peer \/ NotifyEndedPolls \/ \E x \in Questions : End(x)

\* The worker runs a pass every few seconds.
Spec == Init /\ [][Next]_vars /\ WF_vars(NotifyEndedPolls)

-----------------------------------------------------------------------------
(* Properties. *)

\* The types of the columns and of the history.
TypeOK ==
  /\ row \in [Questions -> {"none", "live", "deleted"}]
  /\ fields \subseteq Own /\ passed \subseteq Questions /\ notif \subseteq Questions
  /\ answers \in [Own -> SUBSET (Actors \X Options)]
  /\ wire \subseteq Own \X Actors \X Options
  /\ voted \in [Theirs -> SUBSET Options]
  /\ cast \in [Theirs -> Nat] /\ emitted \in [Questions -> Nat]
  /\ \A x \in Own : tally[x].voters \in Nat /\ tally[x].of \in [Options -> Nat]

\* The tally that we publish is that of the stored answers, and in a poll with
\* one choice every stored answer is another voter's, in whatever order the answers
\* are handled.
TallyIsFair ==
  TypeOK /\ \A x \in fields :
    /\ tally[x] = Tally(answers[x])
    /\ x \in oneOf => tally[x].voters = Cardinality(answers[x])

\* A poll of a peer is sent our vote once, "(or a double tap)" included - but
\* the check is made before an await, and admin's form has none.
VotedOnce == \A x \in Theirs : cast[x] <= 1 + late[x]

\* A poll is notified again only after its notification was removed.
NotifiedOncePerRemoval == \A x \in Questions : emitted[x] <= 1 + removed[x]

\* An ended poll - ours, or one we voted in - is noticed, however many polls
\* that have not ended come before it.
EndedPollsAreNoticed == \A x \in Questions : (Candidate(x) /\ IsEnded(x)) ~> ~Candidate(x)
=============================================================================
