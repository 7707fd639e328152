# A verification project for microblog.pub

microblog.pub is a single-user ActivityPub server: a FastAPI web process, a
few worker loops, and one SQLite database that both use as their only shared
state.  This directory holds TLA+ modules translated from that code, the TLC
instances that check them, and TLAPS proofs of the theorems that matter most.
`PROJECT.json` maps every definition to the lines it stands for, and lists
the runs, one mutant for every checked property (a plausible bug that makes
the run fail), the hazards, and the theorems.

Contents

1. [The system](#1-the-system)
2. [The modules](#2-the-modules)
3. [The runs](#3-the-runs)
4. [Fairness](#4-fairness)
5. [The proofs](#5-the-proofs)
6. [Observations](#6-observations)
7. [What is not modelled](#7-what-is-not-modelled)
8. [Plan](#8-plan)

## 1. The system

### Components, their state and their operations

| component | state | operations | module |
|---|---|---|---|
| Outgoing delivery queue (`activitypub/outgoing_activities.py`) | `outgoing_activity` rows: tries, next_try, is_sent, is_errored | enqueue; a worker's batch: fetch, count the attempt and commit, POST per inbox, apply outcomes and commit | `OutgoingDelivery`, `DeliveryPromise` |
| Incoming queue (`activitypub/incoming_activities.py`, `save_to_inbox`) | `incoming_activity` rows, `inbox.ap_id` | receive; a worker's step: fetch one, count and commit, `save_to_inbox` with its own commit, mark and commit | `IncomingActivities` |
| Social graph and account moves (`activitypub/boxes.py`, API in `app/mastodon/router.py`) | Follow/Block/Undo objects, `follower` and `following` rows, `actor.is_blocked`, `actor.is_deleted`, pending-request notifications | the peer's Follow, Undo, Accept, Reject, Delete, Move; the owner's follow, unfollow, block, unblock, approve, refuse, remove | `SocialGraph` |
| Objects, their counters, webmentions (`boxes.py`, `app/webmentions.py`) | the inbox and the outbox, likes, announces, replies and webmentions counts, `liked_via` and `announced_via` | the peers' Create, Read, Like, Announce, Undo, Delete; the owner's post, edit, delete, like, boost, undo, lookups; a webmention between its awaits | `Interactions` |
| Quote posts (`boxes.py`) | `quote_state`, `quote_authorization_ap_id`, `quote_is_verified`, stamps, `quotes_count` | ask, grant by policy or by hand, refuse, revoke, delete, edit, on both sides | `Quotes` |
| Polls (`boxes.py`, `app/poll_notifications.py`) | `poll_answer`, the tally in the Question, `voted_for_answers`, notifications | answers, votes, edits, the end of a poll | `Polls` |
| Web Push (`app/push_notifications.py`, `/push/subscription`) | `push_subscription` rows with a watermark, the notification table, the worker's session | subscribe, update, unsubscribe, revoke, expire; poll, push, commit | `PushNotifications` |
| Posts of API clients (`app/scheduled_statuses.py`, `/statuses`) | `scheduled_status` rows, uploads and attachments, the idempotency caches | post, queue, PUT, DELETE, delete media; the worker's pass | `ScheduledStatuses` |
| Streaming (`app/mastodon/streaming.py`) | subscribers and their queues, the cursors and tracked rows of the pump, its tasks | connect, register, seed, subscribe, send, leave; the steps of a tick | `StreamingHub` |
| Tokens (`app/indieauth.py`, `app/mastodon/oauth.py`) | codes, access and refresh tokens, the subscription of a token | consent, exchange, refresh, revoke, expire, subscribe | `Tokens` |
| Paged lists (`app/mastodon/router.py`, `timelines.py`, `ids.py`, `notification_groups.py`, `app/admin.py`, `app/main.py`) | none of their own but `is_new`; they read the tables under a cursor | the 23 lists that are read page by page, while rows come and go | `Pages` |
| Micropub, signatures, text, configuration, uploads, maintenance | | | left out, or in part (section 7) |

### How they interact

Web requests and the incoming worker never call a worker: they insert rows
(`new_outgoing_activity`, `new_ap_incoming_activity`, a notification, a
`scheduled_status`) inside their own transaction, and the worker polls.  The
incoming worker's `save_to_inbox` is what changes the social graph, the objects,
quotes and polls; its effects, and the owner's, are the messages that
`OutgoingDelivery` carries away, out of order when it has to try again.  The
outgoing worker also runs, between its batches, the passes of
`ScheduledStatuses` and the notifications of `Polls`.  The pump of
`StreamingHub` and the reader of `Pages` look at the same tables, the one by
polling, the other by cursors.  Revoking a token (`Tokens`) deletes its push
subscription, which the worker of `PushNotifications` may hold.

### What makes it hard

*The database.*  The engine is asynchronous SQLite in WAL mode.  A SELECT in a
web request runs outside a transaction; its first write (or autoflush) takes
the write lock until the commit.  So each request is a read, a wait, and one
atomic write, and a check made by the read may be stale: every module models
it as two actions.  A handler of the incoming worker runs within a savepoint:
a write over a stale snapshot is refused and the handler is tried again, so it
is one atomic action.  Sessions are made with `expire_on_commit=False`: an
object that a session holds is not read again after a commit, only after a
rollback.  `PushNotifications` and `ScheduledStatuses` model these identity
maps.  Row ids come from SQLite without AUTOINCREMENT: the id of the newest
row is used again once that row is deleted.

*Two commits around the network.*  Both queues count an attempt in one commit,
do the work, and record the outcome in another.  A crash or a failed commit in
between forgets the outcome.  The timeout of the incoming worker can cancel a
handler that is just committing.

*Other parties.*  Deliveries are duplicated, reordered and retried; a push
service may take a message whose answer is lost; a Retry-After header may lie
in the past or beyond what a date holds.  The Delete of a note, or of a stamp,
may be handled before what it deletes, and a note fetched before its Delete may
be saved after it.

*Derived state.*  Counters, tallies, `is_new` and the tracked rows of the pump
repeat what the tables say.  Most are counted anew when something changes; some
are moved by one, by handlers that may run twice.

### What would make each component correct

* queues: nothing is lost or settled wrongly, every row is settled in the end,
  retries are bounded, effects happen once, repetitions are counted by the
  crashes that cause them;
* social graph: a block, a deletion or a rejection ends the relationship for
  good, a follower is never dropped untold, what was done can be undone;
* objects: counters agree with the rows, what was deleted stays deleted, whoever
  holds a copy is told;
* quotes: what is shown stands under a stamp that stands, whatever order the
  stamp, its Delete and the quoting post come in;
* polls: one voter counts once, the tally is that of the answers, an ended poll
  is noticed, and once;
* push: nothing above the watermark is missed, nothing committed is repeated,
  order is kept, a new subscription gets no backlog;
* posts: published once, not lost, one per idempotency key;
* streaming: one pump, no row passed over, shown twice, or left on a screen after
  its deletion;
* tokens: a code and a refresh token are spent once, log-out is final;
* lists: a reader who goes on to the end has seen all that was there all the time.

## 2. The modules

Names follow the code.  A worker is a program counter (`worker`, `pc`) with one
action per step between two awaits; a web request is an entry of `web`, `req` or
`pending` with one action for the read and one for the write.  History variables,
which the code never reads, are marked in the declarations.  Operators marked
`mutant` are the bugs that `PROJECT.json` substitutes; no action uses them.

**`OutgoingDelivery`** - one row per recipient and activity.  Time is relative:
`nextTry[r]` is what is left of `next_try`, `Tick` brings all live rows
closer, `MaxLag` says how late the worker may be.  `Fetch` is
`fetch_next_outgoing_activities`, the count of the attempt and the payloads
that cannot be built; `Post` is one request of `_deliver_group`, in the order
of the fetch within one inbox, concurrent between inboxes, with the skipping
of a group after a host-level failure; `Apply` is
`_apply_delivery_outcome` for the batch, the defensive sweep and the second
commit.  `Abort` is the OverflowError of `parse_retry_after`, raised in an
`except` clause: it leaves `asyncio.gather`, and the tasks of the other inboxes
go on (`stray`).  `LoseCommit`, `Crash` and `Restart` are what
`app/utils/workers.py` and supervisord do.

**`DeliveryPromise`** - what a sender is promised, without tries, time or
batches: what is submitted is marked delivered only if it was acknowledged, and
marks are final.  `OutgoingDelivery` implements it (`KeepsPromise`) under the
mapping given at its end.

**`IncomingActivities`** - one row per delivery, each about an activity that may
come several times.  `Take` counts the attempt, `Handle` is the commit of
`save_to_inbox`, `Duplicate` and `Ignore` its early returns, `Fail` its
exception or timeout before, `FailLate` its timeout during the commit,
`Finish` the commit that marks the row.  What an activity does is
left to the other modules; `AppliedOnce` is the assumption `SocialGraph`,
`Quotes` and `Polls` make when they let each activity of a peer take effect once.

**`SocialGraph`** - the local actor and one peer.  `handled` are the peer's
activities in the inbox; any activity the peer can send may arrive at any
moment.  `manual` is the setting that makes the owner approve followers.
`Ignored` is what `save_to_inbox` refuses from blocked and deleted actors;
`GiveUp` is the second Follower or Following row that a unique constraint
refuses, after which nothing is kept.  The two Moves are of the peer: to another
account (we unfollow it) and from another that we followed (we follow it).  The
owner's requests (`web`) remember what they read: the Follow or Block to undo,
the request to answer, the follower to remove.  The API is modelled; the admin
forms (`app/admin.py:1215`) call the same operations without its checks.

**`Interactions`** - posts of ours, notes of peers, and what refers to them: Likes,
Announces, replies, webmentions, and our Likes and boosts of notes.  `count` holds
the four counters as the tables do; `Tally` says what they should be.  `drift`
collects the counters that an action leaves off, and each such action names the
line that does; whatever counts anew takes the counter out of it.  `copies` says
who was sent a row and not told that it is gone.  The steps of a request that
awaits (a lookup, `send_create`'s refresh of the counter of replies, a webmention)
are entries of `pending`.

**`Quotes`** - a quoting post is ours or a peer's, and so is what it quotes; the
policy is any of the four.  `stamp` are the authorizations, `wire` the messages,
which arrive in any order; `state`, `auth` and `note` are our side as the quoting
author, `verified` and `count` the quoted one.  `Edit` and `Revoke` read the row;
`WriteEdit` and `WriteRevoke` write what they decided, over an Accept that came
in between if one did.

**`Polls`** - answers to our polls arrive in any order and are handled one by one;
an answer that breaks a unique index is rolled back.  Our own votes are checked
in one action and sent in another.  `NotifyEndedPolls` is one pass of
`poll_notifications.py`, which finds ended polls by the absence of their
notification.

**`PushNotifications`** - `db` holds the rows of `push_subscription`, `mem` the
objects in the worker's session and `base` what they were loaded as; a commit
writes the columns that differ. `Poll` does not read again what the session
still holds. `batch` is what is left of the batch and `current` the subscription
whose candidates, `todo`, are being pushed. `Start` clamps a long backlog and
flushes, which takes the write lock and finds out whether rows have vanished
(`LoseRow`). The answers are 2xx, 413, 404 or 410, and anything else
(`_apply_backoff`). `Poison` is the ValueError of `_push_title` for a
notification without a title. `table` maps row ids to notifications: ids are
used again after a `Remove`.

**`ScheduledStatuses`** - `queue` maps row ids to rows.  `Compose` is the part of
`POST /statuses` that checks, `Schedule` or `PostNow` the one that writes,
`Remember` the key stored after the second commit of `send_create`.  PUT and
DELETE read the row, wait for the body, and write.  The worker's pass fetches
a batch (`Fetch`: `todo` holds its entries, `Sooner` their order), takes the next
one (`current`), publishes it (`Resolve`, `Send`, `Count`), and records failures in
two steps (`ReadRow`, `RecordFailure`), as the code does.  `fresh` says that the session still holds the rows as they were
fetched: `get` then returns them without a look at the table.  `hurried` are the
posts whose request was repeated before the first one was answered, `charged` those
whose row was charged with the failure of another (section 6).

**`StreamingHub`** - one event loop; what lies between two awaits is one action.
A task of the pump has read its cursor (`ask`), holds ids or events, and
publishes; cursors and tracked rows belong to the hub and are shared by a task
that was told to stop and its successor.  A client is its screen (`view`), what
it may have missed for a reason the code accepts (`lost`), and its queue.
`For` and `Offer` are `Hub.publish` and `Subscriber.offer` in closed form: the
frames of a tick that are for a client, and the last `QueueSize` of what would be
in its queue.  A row is `Ahead` if the next query of its table will return it,
whichever task asks: with two tasks about, that is more than being beyond the
shared cursor, as a query may have been given an earlier one.

**`Tokens`** - `pending` are the requests between their check and their write.
History counts what was under way at the decisive moment (`races`, `doubled`,
`allowed`, `straddling`), so that the properties can say "one, and one more for
each request that had read before".

**`Pages`** - a reader opens one list and follows its cursor while rows arrive, are
deleted, pruned, pinned or dismissed.  Time is in half seconds, since ids of
statuses have whole ones.  Each list is an action of its own with the query it
makes; `Timeline`, `Listing` and `CountedPage` are the three shapes most share.

`MC*.tla` hold the values of the constants and the symmetry sets for TLC (request
slots in `SocialGraph`, tasks in `StreamingHub`).  Only runs without temporal properties use symmetry.

## 3. The runs

All bounds are constants, named in the modules.  TLC explores each instance
completely.

| run | instance | what it shows |
|---|---|---|
| `outgoing` | 3 rows, 2 inboxes, batches of 2, 2 attempts, a Retry-After in the past, one crash or failed commit, one aborted batch | rows are marked as the recipient answered (`KeepsPromise`), no redelivery beyond the losses, first attempts in order, and everything settled in the end |
| `social` | 1 Follow each way and one more by a Move, 1 block, 2 overlapping requests, with and without the owner's approval | a blocked, deleted or rejected peer is no follower, no follower is dropped untold, approvals and refusals that race included |
| `incoming` | 3 deliveries: one activity twice, and a report without an id; 2 attempts, 2 interruptions | effects once, marks true, everything settled |
| `interactions` | a post, our reply to it, a peer's note, a Like, a boost, a webmention, a boost of ours; 3 requests, 1 repeated Delete or Undo, 1 follow or unfollow, 1 restart | counters are off only where the code says so, what was deleted stays so, copies are told, no reaction is shown that was undone |
| `quotes` | a quote of ours and one of a peer, 2 stamps each, every policy, 3 requests, 1 repetition | what is shown stands, the counter agrees, followers are told of a consent |
| `polls` | one poll of ours and one of a peer, 2 answers, 2 voters, passes of one notification, 2 requests, 1 removal | fair tallies, one vote of ours, one notification per removal, every ended poll noticed |
| `push` | 1 device, 4 notifications (one muted, one without a title), one of each request, removals, a crash or error | nothing committed is sent again, order is kept, only a reused id can be missed, no backlog, and progress unless a notification without a title is in the way |
| `scheduled` | 1 queued post with media and 1 immediate, each asked for twice, 2 clients with PUT, DELETE and media deletion, an error or crash, a failed request or web restart | published once, once per key, lost by nothing but a DELETE, settled in the end |
| `streaming` | 2 rows, 2 clients with different streams, 2 tasks (symmetric), queues of 2, 1 tracked row, batches of 1, 2 connections or subscriptions, 1 edit or deletion, 1 failure | one task goes on, what is shown is shown once and removed when deleted, and no row is passed over |
| `tokens` | 1 code, 3 tokens, 2 requests under way, 1 restart | a code and a refresh token are spent once, log-out is final, no subscription dangles, but for what was under way |
| `pages` | each of the 23 lists, 3 rows at 3 times, pages of two rows or groups, 2 changes while it is read | what is missed, shown twice or left unread is what the listed exceptions say; the walk ends |

One run shows a disagreement with what the repository says of itself
(`findings` in `PROJECT.json` quotes it): `push_post` - Web Push for new posts is
promised, but `_push_title` raises for them, the batch is rolled back, and is
fetched again for ever.

**Why these bounds.** A property about a batch needs two inboxes and two rows
for one of them; ordering needs a retry between two first attempts; the retry
limit needs a loss beyond it, since only losses exceed it. One abort leaves
stray tasks that a later batch, and a crash, may meet. In the social graph the
interesting cases are pairs: a second Follow, two requests in progress. For
push, the fourth notification lets a backlog of 3 be clamped to 2 and still
leave something to push; one removal is enough for an id to be used twice. The
batch of `push` holds one device: two, with their liveness, are beyond what TLC
does in a reasonable time; the proofs (section 5) cover any number. For the
counters, the instance has one row of every kind and two objects, so that a
counter is moved by every kind of row and two handlers that both move it meet; a
reply of ours and one of a peer let the refresh of `send_create` be overtaken. A
quote of each direction meets every message, and a second stamp what a repeated
request mints. Two tasks are all that `StreamingHub` can have while one ends;
limits of one row make every list overflow. Three tokens are a code's, its heir
and the heir's, or two of one code. Three rows and pages of two let two rows tie
at the boundary of two pages, or be out of order in time on one page, while another
arrives or goes.

`CHECK_DEADLOCK FALSE` appears where requests, changes and the clock are bounded,
and the model stops with them.  The runs of `push` exclude `replace` (a POST over
a live subscription), because it breaks the promise that a new subscription gets
no backlog (section 6); the action and the guard are in the module, and the two
theorems that hold of any calls include it.

## 4. Fairness

Weak fairness of the worker's own steps: the main loop of
`app/utils/workers.py` runs for ever, swallows exceptions, and polls again;
every request has a timeout (the HTTP client's, or the 60 seconds around
`save_to_inbox`), so a step that began ends.  Weak fairness of `Restart`:
supervisord's autorestart.  Weak fairness of `Tick` and `Elapse`: time passes.
In `Polls`, weak fairness of `NotifyEndedPolls`, a pass of the same loop; that a
poll ends is not assumed.
Nothing is assumed of the peer, the clients, or of which answer a request
gets; crashes, failed commits and aborted batches are bounded, since with
infinitely many of them nothing ever settles.  In `OutgoingDelivery` fairness is
on "some row of the batch is answered": the rows answered are never answered
again, so all of them are.  In `PushNotifications` fairness is on `Work` as a
whole: the worker is sequential, and its steps exclude each other.

`SocialGraph`, `Interactions`, `Quotes`, `Tokens`, `StreamingHub` and `Pages` state
no fairness: their properties are about what may never happen.  Two of them are
the safety half of progress: `NothingIsSkipped` (a row that a client waits for is
ahead of the cursor, with a task, or in its queue) and `WalkEnds` (a bound on the
number of pages).

## 5. The proofs

`*_proofs.tla` prove, for all values of the constants that meet the assumptions
declared with them (naturals, at least one attempt, positive backoffs, any
assignment of recipients and activities, any set of hints, any finite set of
codes), what the runs check on small instances:

| module | theorem | states |
|---|---|---|
| `Clients_proofs`, of `PushNotifications` | `TypeCorrect`, `SettledPushesAreNotRepeated`, `FirstCopiesKeepTheOrder`, `TheWatermarkIsHonest` | all safety of Web Push, for any number of devices in a batch, notifications, requests, reused ids and failures; the last one as long as no subscription is replaced |
| `Clients_proofs`, of `Pages` | `PagesTypeCorrect`, `RowsAreShown`, `RowsAreShownOnce`, `BadgeIsCleared`, `WalksEnd` | all that the runs of `Pages` check, for each of the 23 lists, any number of rows, times and changes, and pages of any size |
| `Federation_proofs`, of `OutgoingDelivery` | `TypeCorrect`, `SentIsAcked`, `AbandonedIsUnheard`, `RedeliveryIsBounded`, `AttemptsStayDurable`, `RetriesAreBudgeted`, `BatchesProgress`, `FirstAttemptsAreOrdered`, `QueueKeepsPromise` | all safety of the outgoing queue, the refinement of `DeliveryPromise` included |
| `Federation_proofs`, of `SocialGraph` | `GraphTypeCorrect`, `BlockEndsFollowing`, `BlockEndsFollower`, `FollowersAreCurrent`, `DropsAreTold`, `RejectsAreKept`, `DeletedStaysForgotten`, `BlocksAreOnRecord`, `FollowsAreBounded` | the relationship with a peer, for any number of Follows, blocks and overlapping requests |
| `Inbox_proofs`, of `IncomingActivities` | `InboxTypeCorrect`, `EffectsHappenOnce`, `RepeatsAreCounted`, `NoneIsSkipped`, `GivenUpIsUnapplied`, `RetriesAreUsedUp`, `FirstAttemptsAreOrdered` | all safety of the incoming queue |
| `Inbox_proofs`, of `Quotes` | `ShownQuotesStand`, `CountsAgree`, `AcceptsAreAnnounced` | all that the run of `Quotes` checks, for any number of posts, quotes, stamps and requests |
| `Interactions_proofs` | `TypeCorrect`, `CountersAgreeWithRows`, `DeletesAreFinal`, `DeletionsAreTold`, `ShownReactionsStand` | all that the run of `Interactions` checks, for any number of posts, notes, reactions, webmentions, peers and requests |
| `Polls_proofs` | `TypeCorrect`, `TalliesAreFair`, `VotesAreCastOnce`, `EndsAreNotifiedOnce` | all safety of polls, for any number of polls, voters, answers, edits and removed notifications |
| `ScheduledStatuses_proofs` | `TypeCorrect`, `NoPostTwice`, `QueueLosesNothing` | all safety of posts at once and of posts in the queue, for any number of posts, clients, uploads, failures and restarts |
| `StreamingHub_proofs` | `TypeCorrect`, `OneTaskPolls`, `StreamsAreClean`, `DeletionsAreTold`, `NothingSkipped` | all that the run of `StreamingHub` checks, for any number of rows, clients, tasks, changes and failures, and any limits |
| `Tokens_proofs` | `TypeCorrect`, `GrantsAreSpentOnce`, `RevokedGivesNoMore`, `SubscriptionsAreDropped` | all that the run of `Tokens` checks, for any number of codes, tokens and overlapping requests |

The shape is the same throughout: an inductive invariant per concern, preserved
by each action in a step of its own.  Three modules hold the proofs of two related
components each: what one server sends to another, what comes in from others, and
how a client learns what is new.
They EXTEND both components, which have no name in common; each theorem is about
the specification of one of them.

*Outgoing.*  `TypeInv` adds to the types what a batch is (its rows were tried,
rows outside it have no answer, untouched ids have no tries).  `AcksInv` accounts
for each 2xx answer, made or still to come: a row's acknowledgements and its
stray requests are at most the losses, plus one if its acceptance is on record
(sent, or answered in the batch), and at most the attempts committed - fewer,
while the row of a batch is unanswered.  Without the stray requests the bound is
not inductive, as an aborted batch leaves requests that nobody counts later.
`BudgetInv` is `RetryBudget` with room for one more attempt at each row that can
still be fetched.  `OrderInv` explains the order of first attempts although rows
are sorted by `next_try`: untried rows are due, older ones at least as long, and
`FetchIsOrdered` shows that a bounded batch holds every due row that comes
before one it holds.  `SweepPositive` is the arithmetic of the sweep.
`QueueKeepsPromise` maps each step to a step of the abstract queue or a stutter.

*Social graph.*  `TypeInv` is `TypeOK` with two records: `RecordInv` (what was
answered, and which Follows are known) and `RequestInv` (what a request in
progress read, as far as it stays true).  `SafetyInv` is the conjunction of the
relationship's properties, which hold each other up: a step that does not touch
what they read preserves them, and the others are one case each.  `OverlapInv`
counts live Follows together with the requests about to send one: while a Follow
is live, no such request begins.  `SettingStays`, `MovesStay` and `HandledGrows`
say what no step changes back.

*Incoming.*  `AppliedOnce` is inductive given the types: an activity that is
applied stays known.  `CommitsInv` ties repetitions to interruptions by the
position of the worker, `MarksInv` says that a row about to be marked is stored or
ignored, `BudgetInv` and `OrderInv` are as for the outgoing queue.

*Polls.*  `BallotInv` adds to the tally what the unique index keeps (`UniqueInv`)
and that a poll nobody has published yet has no answers, so that the tally it starts
with is right (`NewInv`, `BlankInv`).  `VotersAreAnswers` is where fairness comes
from: actors of pairwise different answers are as many as the answers.  `VoteInv`
needs that a poll we have not voted in got no vote.  `NoticeInv` is an equation:
written notifications are those there plus those removed.

*Push.*  Each of the 28 actions is first shown to be one of ten kinds of steps
(`Step`), which say only what happens to watermarks, endpoints, candidates and
histories; the invariants are preserved kind by kind.  `SessionInv` is about the
session's stale objects: an object may have an older endpoint than its row, but
while the endpoint is the same, so is the watermark it was loaded with, since only
the worker moves it.  `TodoInv` and `TableInv` tie row ids to births although ids are
used again.  `AckedInv` and `SettledInv` say that what an endpoint acknowledged lies
below its watermark, in the object and, once committed, in the row.  `OrderInv` needs
`TodoCoverInv`: whatever is older than a candidate was dealt with, is a candidate
too, or lies below the loaded watermark.  A commit may write an object's watermark
into the row of a newer endpoint; this harms neither repetition nor order, as a new
endpoint has no pushes yet (`PairInv`), but it does harm the watermark's meaning:
hence the hypothesis of `TheWatermarkIsHonest` and the entry in section 6.

*Objects.*  `InteractionsInv` has one part for each way in which rows depend on
others.  `WrittenInv` says that nothing is about a post of ours that was not
written yet: its counters start at zero, and nobody has moved them.  `ReactedInv`
says that our reactions are to notes that are known, so that the Delete of the note
finds them.  `AgreeInv` is `CountersAgree` of posts to come as well; that an action
moves a counter as it moves the rows is left to `TallyKept` (a tally stays the same
as long as what it counts does) and `TallyMore` (one more row is one more).
`ReachInv` is what makes `DeletionReachesCopies` inductive: whoever has a copy of a
row, deleted or not, would be told of its deletion now, or is excused.  It is why
the code may compute the recipients of a Delete when it deletes instead of keeping
those of the Create, with the exceptions of section 6.

*Quotes.*  `StandsInv` strengthens `ShownQuoteStands` to quotes whose post is yet
to come, because the answer may come first.  It needs to know whose stamps are
where: each is only ever sent, stored or held by a request for the quoting post it
was made for (`OwnerInv`), a peer's note is created once (`CreateInv`), and a stamp
of ours is taken back only when the note that shows it is here, which is why the
unchecked `stamp[s] # "none"` of `Verified` is enough (`RevokedInv`).  `Minting` says
that a new stamp leaves the others alone, `CountFrame` which rows a count depends
on.

*Posts.*  `CountInv` is an account: what was published, the rows and batch entries
still to be published, and the requests about to write are together at most as many
as were asked for.  It holds through every crash because a commit moves one unit
from one place to another.  An entry of the batch and its row are one unit
(`Claims`), as they have the same id; ids are used again, so after a cancellation
they may differ, but then each still has its own request.  `KeptInv` says that while
nothing is cancelled the entry's row is still there and still that post's, so the
row that `Send` deletes is the one it publishes.  For `OnePerKey`, `KeyInv` lists
the four places in which a post can be that nobody is asking for; in three of them
the key or the time stops a second request, given that no post is early (`TimeInv`)
and that no one but `POST /statuses` writes (`QuietInv`).

*Streaming.*  `SkipInv` says where an owed update can be: ahead of every query, in
hand before it is serialized, or in a frame whose streams include all through which
the client sees the row (`Reaches`).  The last point matters because a client may
change its subscriptions between the frame and its delivery, and a frame is made for
the streams that were active then.  This part holds however many tasks
overlap.  The other properties excuse overlapping tasks, and so does `OrderInv`:
then one task runs (`AloneInv`), the cursors are ahead of all that was fetched
(`CursorInv`), and each client is right about its `Pipe`, its queue followed by
what the task is about to publish.  `Fresh`: of a row that is still to come it has
seen nothing.  `Ordered`: updates come before deletions and once, screen included.
`Standing`: what it shows, or will, is tracked or its deletion is in the pipe.
`Heard`: a deletion is sent to all streams of the client, since the streams active
when it was made include them, or the row was there before a later subscription, to
which the stream promises nothing of it (`lost`).  `TaskInv` (one
task goes on, none while a client seeds) and `TickInv` (what a tick holds by where
it stands) carry the rest.  Most steps of a task leave the pipe as it is, append
updates, append deletions and edits, or shorten it, and are proved by their kind;
what publishing and an overflowing queue do to a pipe are lemmas about sequences
(`Within`, `CleanJoined`, `LaterFrames`, `OfferIs`), with the lemmas on the ranks
of a finite set of numbers that `Ascending` needs.

*Lists.*  `MissInv` says of each row that was there all the time and was not shown
what is to come of it: it lies under the cursor (`Under`, in the order of the list),
on the home page at least as many rows are before it as were passed over, and of a
conversation every status is under the cursor.  `TwiceInv` is its mirror: what was
shown is not under the cursor.  A page keeps both if its last row is the lowest and
what it leaves out is lower still (`Sorted`, `PageStep`); each shape of page has a
lemma that says so.  `MergedPage` is where the boxes meet: a row that is left out
was left out by its box, which then gave a whole page of rows that are not older,
so that the last row of the merged page is not of an earlier second.  `GroupRowsAre`
and `LastGroupIs` are about windows of groups, `IndexRanks` about offsets, and
`NewestIs` and `OneStatus` about threads.  `WalkInv` counts the rows that are not
under the cursor: each page but the last adds its last row.  `LeastIs`, that numbers
have a least among them, is from the well-foundedness of the finite subsets of Nat,
as induction is out of reach.

*Tokens.*  None of the properties is inductive: each bounds what was given, and
has to bound what is still to be given.  `CodeInv` counts, for a used code, the
tokens it gave, the mints and the exchanges under way together: they are at most
one more than the exchanges that were under way when it was marked, and a code
that is not marked has given nothing.  `RefreshInv` and `HeirInv` do the same of a
refresh token and of one that is logged out, `SubInv` of the subscription of a
revoked token.  A request that begins adds one to its kind (`BegunAdd`), one that
ends takes one away (`BegunRemove`), a new token adds one to those of its code or
of its parent (`IssueCounts`).

Some theorems are about properties that no run lists, to keep the runs to what
they alone can show: `SentWasAcked`, `AbandonedUnheard`, `AttemptsAreDurable`,
`RetryBudget` and `BatchMakesProgress` of the outgoing queue; `BlockedNotFollowing`,
`FollowerIsCurrent`, `BlockIsOnRecord` and `LiveFollowsBounded` of the social graph;
`RepeatsAreInterruptions`, `GivenUpWasNotApplied`, `RetriesUsedUp` and the order of
first attempts of the incoming queue; the types.

**What the proofs corrected in the models.**  `NothingIsSkipped` of two tasks needed
`Ahead`, as above: a query with an older cursor than the shared one decides what a
new subscriber may miss, which the instance had not shown.  The CASE by which `Send` updates the screen had
overlapping guards, whose value TLA+ leaves open, and was made exclusive.  The
assumptions of `Interactions` did not say that the sorts of rows are disjoint.
`NothingTwice` was false with pages of more than one row, which the run has now: the last row of a merged page is the lowest by id, which has whole seconds,
and the next page is cut at its time, so rows of that second that are older come
again.  `WalkEnds` allowed for one pruned cursor only; it allows for each of them now,
and no longer excepts the home page, which needs no exception.

**Only model-checked**: liveness (`EventuallySettled`, `PushedUnlessPoisoned`,
`EndedPollsAreNoticed`), which is beyond the prover.

## 6. Observations

Behaviour the models show and no property can promise.  They are noted here so
that nobody states the opposite:

* **Outgoing.** A row that waits for its retry is overtaken by later rows of its
  inbox, although `app/config.py:237` says that delivery per recipient is
  strictly in order.  A Retry-After whose date overflows aborts the batch before
  any outcome is applied (`outgoing_activities.py:264`), although line 438 wants
  every row of a batch to leave it settled or postponed.
* **Social graph.** An Accept of a Follow that was undone meanwhile brings the
  Following row back (`boxes.py:3962`), with no Follow for `accounts_unfollow`
  to undo.  An Undo that overtakes its Follow is dropped as unknown.  Two clients
  that approve and refuse one request both succeed, and the refused peer stays a
  follower.  A Move to an account that is blocked, or was asked already, sends it a
  Follow (`_send_follow` checks nothing).  As long as another live object of ours
  names a blocked actor, `send_unblock` finds two rows where it wants one
  (`boxes.py:161`), and the actor stays blocked.
* **Objects.** An Undo of a Like counts the Likes anew and subtracts one more
  (`boxes.py:2964`); a second Undo or Delete subtracts again.  The refresh of the
  counter of replies after `send_create` leaves out webmentions, and is a
  transaction of its own.  A note that a lookup saved is not counted, stays hidden
  when its Create comes, and notifies nobody.  A note that was fetched before its
  Delete and saved after it comes back.  Two stored Deletes of a note make
  `one_or_none` raise.  A post liked from two clients sends two Likes, of which one
  can be undone.  Former followers are not told that a post they hold was deleted
  (`boxes.py:267`), nor anyone whom `force_delete` or the deletion of an actor
  concerns.  A PUT edits a deleted post, and sends it.  A webmention whose source is
  gone raises before it can be deleted.
* **Quotes.** A consent that came with an Update is not known to the code that
  revokes it (`boxes.py:3132`), so the owner cannot take it back as
  `docs/user_guide.md:183` says.  A stamp that could not be fetched once makes the
  quote rejected for ever.  An Accept of a quote of ours that was deleted sends an
  Update of the deleted post.  A request repeated by hand mints a second stamp, and
  revoking takes one of them back.  A second Delete of a quoting note subtracts
  once more.
* **Polls.** The notification is the only trace that the end of a poll was noticed
  (`poll_notifications.py:54`): dismissed, cleared, or removed with the poll, it is
  written again, although line 9 rules that out.  An edit of a poll drops its
  answers and its end.  The second answer of one actor to a poll with one choice
  breaks a unique index, and its delivery is retried until it is given up.  A late
  answer is judged when it is handled, not when it was sent.  The admin form votes
  without a check.
* **Push.** A subscription replaced while the worker holds the old row gets the
  worker's older watermark written over the seeded one, and so a backlog; if the
  worker fetched before and reads the newest id after the POST, it may also skip
  notifications of the new endpoint.  A revocation does not stop the batch under
  way (`app/mastodon/oauth.py:194` hopes it does).  A notification whose id was
  used before, below the watermark, is never pushed: clearing the notifications
  is enough.
* **Posts.** A DELETE answered between the worker's fetch and its commit does not
  stop the post, and a PUT does not move it: the session still holds the row.  If
  the id of the cancelled row went to the next post, publishing the first deletes
  the second (`app/scheduled_statuses.py:161`).  A
  PUT between the two halves of `_record_failure` is overwritten, so the fresh
  attempts of `docs/mastodon_api.md:234` are lost.  A request repeated under its
  key while the first is under way posts twice: the key is stored last; so does one
  repeated after a PUT made its post come early.  When the second commit of
  `send_create` fails, the row is gone, and `_record_failure` looks its id up
  (`app/scheduled_statuses.py:243`): if a new post got that id, it is charged with the
  failure, so it is published when the retry is due, which may be before its time,
  and repeating its request then posts it again.  `OnePerKey` leaves such posts
  (`charged`) out.  It takes two scheduled posts; the theorem covers any number, the
  run has one.  An upload
  can be deleted while the post that carries it is being published.
* **Streaming.** A task that was told to stop and finishes its tick may move the
  shared cursors back, or publish to a client that came meanwhile: what that client
  loaded is sent to it again.  A seed that fails leaves its subscriber in the set
  (`streaming.py:778`).  The limit of connections is checked before the lock.  A row
  that is inserted and deleted between two ticks is never shown, nor removed from
  the screen of who loaded it.  A socket that always has a frame to send never
  looks whether its token was revoked.
* **Tokens.** Two exchanges of one code, or of one refresh token, that overlap both
  succeed.  A crash between the use of a code and the mint burns it.  An expired
  token cannot be revoked while its refresh token works.  A refresh at
  `/oauth/token` gives a token for a hundred years.  A subscription whose request
  checked the token before the log-out dangles (`app/models.py:456` says there is
  none), and the worker never deletes it, since it does not look at it.
* **Lists.** The timelines of both boxes skip, or repeat, posts of the second at which
  a page ends.  A cursor whose row was pruned is answered by another row of the outbox, or
  starts the list again.  A hashtag window without a match ends the list.  Grouped
  notifications show rows again that lie between others of a group, and
  `group_key_where_clause` also matches rows that `group_key_for` puts elsewhere.
  The admin pages count first and read then; the home page's OFFSET shifts with
  every post.

## 7. What is not modelled

Text (rendering, formatting, parsing, languages), cryptography (signatures,
push encryption), HTTP details, templates, serializers, and
read-only endpoints that answer with one read keep no state that interacts.
Configuration, migrations and maintenance tasks run before or beside the server.
Micropub is a second front to `send_create`.  Registration of clients, redirect
addresses and PKCE are conditions on one request.

Within the modelled components: the outgoing worker's start-up Update (its hash is
written before its rows, `outgoing_activities.py:61`), the cache of signed payloads
(keyed by the payload's id, `:224`) and the semaphores; the admin forms that call
the social graph without its checks; push policies that look up the follow tables;
what a post contains, and new uploads under the id of a deleted one; pins,
bookmarks and aliases; the payloads of the stream and the hub's close at shutdown;
the sums per notification group; preferences, markers, lists and featured tags,
which are one row per request; the cache of remote actors; SIGTERM's orderly
shutdown, which the workers treat like a crash whose work is undone.  Code that is
not in this repository (SQLite, SQLAlchemy, supervisord, the clock) is modelled as
far as the code relies on it, and marked `external` in the map.

## 8. Plan

1. **Done:** the modules above, and proofs of all their safety properties.
2. Abstract specifications: a stream as a set of rows a client is owed, which
   `StreamingHub` would implement up to `lost`; a post's life (asked, queued,
   published, given up), which `ScheduledStatuses` would.
3. The admin forms in `SocialGraph`; Updates of stored notes in `Interactions`; the
   start-up Update and the signature cache in `OutgoingDelivery`; new uploads under
   old ids in `ScheduledStatuses`.
