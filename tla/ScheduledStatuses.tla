-------------------------- MODULE ScheduledStatuses --------------------------
(***************************************************************************)
(* The creation of posts by API clients, at once or at a later time:       *)
(* app/scheduled_statuses.py, the endpoints of app/mastodon/router.py that *)
(* queue, move, cancel and post, and the deletion of media.                *)
(*                                                                         *)
(* The worker publishes the due rows of the queue in passes.  A pass reads *)
(* a batch of rows and publishes one after the other; the delivery of a    *)
(* post, with its network calls, lies between its reads and its commit.    *)
(* The commit both deletes the row of the queue and inserts the post.      *)
(* Requests run in the web process: each reads, waits, and writes, and a   *)
(* write is one transaction, which SQLite keeps apart from all others.     *)
(*                                                                         *)
(* A row id is one more than the largest in the table, so the ids of rows  *)
(* that were published or cancelled are used again.  A post stands for     *)
(* what a client composes: its time, its media, and the idempotency key    *)
(* under which the request is sent again.  Uploads are not made again      *)
(* after they were deleted.  MaxTime, MaxAsks, MaxCalls, MaxErrors and     *)
(* MaxDrops bound the model and not the code; at MaxTime, the last moment, *)
(* everything is due.                                                      *)
(***************************************************************************)
EXTENDS Integers, FiniteSets

CONSTANTS
  Posts,      \* what clients ask to be posted, each under a key of its own
  At,         \* when each is to be published: Immediately, or a time
  Media,      \* uploads
  MediaOf,    \* the uploads each post is to carry
  Clients,    \* requests that may be under way at the same time
  Calls,      \* the requests other than POST /statuses, of AllCalls
  MaxId,      \* bound: largest id of a row
  MaxTime,    \* bound: the clock stops there
  MaxAsks,    \* bound: how often one post is requested
  MaxCalls,   \* bound: requests of Calls
  MaxErrors,  \* bound: crashes and errors of the worker
  MaxDrops,   \* bound: requests that fail between their steps, web restarts
  BatchSize,  \* BATCH_SIZE
  MaxTries,   \* MAX_TRIES
  BaseDelay   \* RETRY_BASE_DELAY

AllCalls == {"put", "delete", "delete_media"}
Immediately == 0
Ids == 1..MaxId
Times == 0..MaxTime
GaveUp == MaxTime + 1   \* next_try is NULL

ASSUME BoundsAssumption ==
  /\ MaxId \in Nat \ {0} /\ MaxTime \in Nat /\ MaxAsks \in Nat /\ MaxCalls \in Nat
  /\ MaxErrors \in Nat /\ MaxDrops \in Nat /\ Calls \subseteq AllCalls
  /\ BatchSize \in Nat \ {0} /\ MaxTries \in Nat \ {0} /\ BaseDelay \in Nat \ {0}
  /\ IsFiniteSet(Clients)
Delay(tries) == BaseDelay * 2^(tries - 1)
ASSUME DelayAssumption == \A tries \in 1..MaxTries : Delay(tries) \in Nat
ASSUME PostsAssumption == At \in [Posts -> Times] /\ MediaOf \in [Posts -> SUBSET Media]

Row == [post : Posts, at : Times, next : 0..GaveUp, tries : Nat]
NoRow == [tries |-> -1]
Entry == [id : Ids, post : Posts, next : 0..MaxTime]
NoEntry == [id |-> 0]
Idle == [step |-> "idle"]

VARIABLES
  queue,      \* the scheduled_status table
  uploads,    \* the upload table
  attached,   \* uploads a published post carries
  now,        \* the clock
  cache,      \* the idempotency caches: a row id, or 1 for a post, 0 for none
  asked,      \* how often each post was requested
  req,        \* the requests under way
  calls,      \* requests of Calls so far
  drops,      \* failed requests and web restarts so far
  pc,         \* where the worker's pass stands
  todo,       \* what the pass has still to publish: ids, posts and times
  current,    \* what it is publishing
  fresh,      \* its session holds the rows as they were fetched
  loaded,     \* the row the failure is to be recorded on, as it was read
  errors,     \* crashes and errors of the worker so far
  \* History: nothing below is read by the code.
  posted,     \* how often each post was published
  queued,     \* posts whose row was inserted
  hurried,    \* posts asked for again before the earlier request was answered
  cancelled,  \* posts whose row a DELETE has found and was answered for
  charged     \* posts whose row was charged with the failure of another's

requests == <<cache, asked, req, calls, drops>>
worker == <<pc, todo, current, fresh, loaded, errors>>
history == <<posted, queued, hurried, cancelled, charged>>
vars == <<queue, uploads, attached, now, requests, worker, history>>

-----------------------------------------------------------------------------
Used == {i \in Ids : queue[i] # NoRow}
\* One more than the largest id of the table.
IsNewId(i) == (\A j \in Used : j < i) /\ (i = 1 \/ i - 1 \in Used)
HasMedia(p) == MediaOf[p] \subseteq uploads
Referenced == UNION {MediaOf[queue[i].post] : i \in Used}

Due == {[id |-> i, post |-> queue[i].post, next |-> queue[i].next] :
          i \in {j \in Used : queue[j].next <= now}}
Sooner(d, e) == d.next < e.next \/ (d.next = e.next /\ d.id < e.id)
Batch == {d \in Due : Cardinality({e \in Due : Sooner(e, d)}) < BatchSize}

\* Times after MaxTime are not told apart.
Later(t) == IF t < MaxTime THEN t ELSE MaxTime

TypeOK ==
  /\ queue \in [Ids -> Row \cup {NoRow}]
  /\ uploads \subseteq Media /\ attached \subseteq Media /\ now \in Times
  /\ cache \in [Posts -> 0..MaxId] /\ asked \in [Posts -> 0..MaxAsks]
  /\ calls \in 0..MaxCalls /\ drops \in 0..MaxDrops /\ errors \in 0..MaxErrors
  /\ \A c \in Clients : req[c].step \in
       {"idle", "schedule", "post", "cache", "put", "delete", "read_queue", "delete_media"}
  /\ pc \in {"idle", "pass", "send", "counts", "failed", "record"}
  /\ todo \subseteq Entry /\ current \in Entry \cup {NoEntry} /\ fresh \in BOOLEAN
  /\ loaded \in Row \cup {NoRow}
  /\ pc \in {"send", "counts", "failed", "record"} <=> current # NoEntry
  /\ pc = "record" <=> loaded # NoRow
  /\ posted \in [Posts -> Nat] /\ queued \cup hurried \cup cancelled \cup charged \subseteq Posts

Init ==
  /\ queue = [i \in Ids |-> NoRow]
  /\ uploads = Media /\ attached = {} /\ now = 0
  /\ cache = [p \in Posts |-> 0] /\ asked = [p \in Posts |-> 0]
  /\ req = [c \in Clients |-> Idle] /\ calls = 0 /\ drops = 0
  /\ pc = "idle" /\ todo = {} /\ current = NoEntry /\ fresh = TRUE /\ loaded = NoRow
  /\ errors = 0
  /\ posted = [p \in Posts |-> 0] /\ queued = {} /\ hurried = {} /\ cancelled = {}
  /\ charged = {}

-----------------------------------------------------------------------------
(* POST /api/v1/statuses. *)

Answer(c) == req' = [req EXCEPT ![c] = Idle]
Wait(c, step) == req' = [req EXCEPT ![c] = step]

Composing(c) == req[c].step \in {"schedule", "post", "cache"}

\* The earlier answer, if the key is known and what it led to is still there.
Answered(p) == cache[p] # 0 /\ (At[p] = Immediately \/ queue[cache[p]] # NoRow)

\* The checks: the time lies ahead, the key is not known, the media exist.
\* (publish looks the media up once more before the network calls; nothing
\* but a deletion of media between the two lookups could tell them apart, and
\* the same answer follows.)
Compose(c, p) ==
  /\ req[c] = Idle /\ asked[p] < MaxAsks
  /\ At[p] # Immediately => now < At[p]
  /\ asked' = [asked EXCEPT ![p] = @ + 1]
  /\ IF Answered(p) \/ ~HasMedia(p)
     THEN UNCHANGED req
     ELSE Wait(c, [step |-> IF At[p] = Immediately THEN "post" ELSE "schedule", post |-> p])
  /\ hurried' = IF \E d \in Clients : Composing(d) /\ req[d].post = p
                THEN hurried \cup {p} ELSE hurried
  /\ UNCHANGED <<queue, uploads, attached, now, cache, calls, drops, worker, posted, queued, cancelled, charged>>

Schedule(c) ==
  /\ req[c].step = "schedule"
  /\ LET p == req[c].post
     IN  /\ \E i \in Ids :
           /\ IsNewId(i)
           /\ queue' = [queue EXCEPT ![i] = [post |-> p, at |-> At[p], next |-> At[p], tries |-> 0]]
           /\ cache' = [cache EXCEPT ![p] = i]
         /\ queued' = queued \cup {p}
  /\ Answer(c)
  /\ UNCHANGED <<uploads, attached, now, asked, calls, drops, worker, posted, hurried, cancelled, charged>>

\* What send_create does to the tables in its first commit.
Publish(p) ==
  /\ attached' = attached \cup MediaOf[p]
  /\ posted' = [posted EXCEPT ![p] = @ + 1]

\* A post that is not scheduled: published, and its key known only after the
\* second commit (the replies count of the parent).
PostNow(c) ==
  /\ req[c].step = "post"
  /\ Publish(req[c].post)
  /\ Wait(c, [step |-> "cache", post |-> req[c].post])
  /\ UNCHANGED <<queue, uploads, now, cache, asked, calls, drops, worker, queued,
                 hurried, cancelled, charged>>

Remember(c) ==
  /\ req[c].step = "cache"
  /\ cache' = [cache EXCEPT ![req[c].post] = 1]
  /\ Answer(c)
  /\ UNCHANGED <<queue, uploads, attached, now, asked, calls, drops, worker, history>>

-----------------------------------------------------------------------------
(* PUT and DELETE of a queued post. *)

\* The row is read, before the body is.
Load(c, call, i) ==
  /\ call \in Calls /\ req[c] = Idle /\ calls < MaxCalls /\ queue[i] # NoRow
  /\ calls' = calls + 1
  /\ Wait(c, [step |-> call, id |-> i, row |-> queue[i]])
  /\ UNCHANGED <<queue, uploads, attached, now, cache, asked, drops, worker, history>>

\* An UPDATE sets the columns that differ from the row as it was read.
Updated(row, old, new) ==
  [f \in DOMAIN row |-> IF old[f] = new[f] THEN row[f] ELSE new[f]]

\* reschedule
Moved(row, t) == [row EXCEPT !.at = t, !.next = t, !.tries = 0]

\* The new time is checked when the body is there, which takes any time; an
\* UPDATE that finds no row is an error.
Reschedule(c, t) ==
  /\ req[c].step = "put" /\ now < t
  /\ LET i == req[c].id
         old == req[c].row
     IN  IF queue[i] = NoRow
         THEN UNCHANGED queue
         ELSE queue' = [queue EXCEPT ![i] = Updated(@, old, Moved(old, t))]
  /\ Answer(c)
  /\ UNCHANGED <<uploads, attached, now, cache, asked, calls, drops, worker, history>>

\* A DELETE that finds no row only warns.
Cancel(c) ==
  /\ req[c].step = "delete"
  /\ queue' = [queue EXCEPT ![req[c].id] = NoRow]
  /\ cancelled' = cancelled \cup {req[c].row.post}
  /\ Answer(c)
  /\ UNCHANGED <<uploads, attached, now, cache, asked, calls, drops, worker, posted, queued, hurried, charged>>

-----------------------------------------------------------------------------
(* DELETE /api/v1/media: no post carries it, no queued one refers to it. *)

ReadAttached(c, m) ==
  /\ "delete_media" \in Calls /\ req[c] = Idle /\ calls < MaxCalls
  /\ m \in uploads \ attached
  /\ calls' = calls + 1
  /\ Wait(c, [step |-> "read_queue", media |-> m])
  /\ UNCHANGED <<queue, uploads, attached, now, cache, asked, drops, worker, history>>

ReadQueue(c) ==
  /\ req[c].step = "read_queue"
  /\ IF req[c].media \in Referenced
     THEN Answer(c)
     ELSE Wait(c, [step |-> "delete_media", media |-> req[c].media])
  /\ UNCHANGED <<queue, uploads, attached, now, cache, asked, calls, drops, worker, history>>

DeleteMedia(c) ==
  /\ req[c].step = "delete_media"
  /\ uploads' = uploads \ {req[c].media}
  /\ Answer(c)
  /\ UNCHANGED <<queue, attached, now, cache, asked, calls, drops, worker, history>>

\* A request fails: the database stays locked, the network call raises.
Drop(c) ==
  /\ req[c] # Idle /\ drops < MaxDrops
  /\ drops' = drops + 1
  /\ Answer(c)
  /\ UNCHANGED <<queue, uploads, attached, now, cache, asked, calls, worker, history>>

RestartWeb ==
  /\ drops < MaxDrops
  /\ drops' = drops + 1
  /\ req' = [c \in Clients |-> Idle] /\ cache' = [p \in Posts |-> 0]
  /\ UNCHANGED <<queue, uploads, attached, now, asked, calls, worker, history>>

-----------------------------------------------------------------------------
(* The worker. *)

\* fetch_due_scheduled_statuses, and the parameters of the rows as plain data.
Fetch ==
  /\ pc = "idle" /\ Due # {}
  /\ todo' = Batch
  /\ pc' = "pass" /\ fresh' = TRUE
  /\ UNCHANGED <<queue, uploads, attached, now, requests, current, loaded, errors, history>>

EndPass ==
  /\ pc = "pass" /\ todo = {}
  /\ pc' = "idle"
  /\ UNCHANGED <<queue, uploads, attached, now, requests, todo, current, fresh, loaded, errors, history>>

\* The next in the order of the query.
Take(e) ==
  /\ pc = "pass" /\ e \in todo /\ \A d \in todo \ {e} : Sooner(e, d)
  /\ todo' = todo \ {e}
Proceed == pc' = "pass" /\ current' = NoEntry

\* get finds the object in the session without looking at the table, until a
\* rollback has expired it.
Present(e) == fresh \/ queue[e.id] # NoRow
Skip(e) ==
  /\ Take(e) /\ ~Present(e)
  /\ UNCHANGED <<queue, uploads, attached, now, requests, pc, current, fresh, loaded, errors, history>>

\* mutant: the row is deleted, and that committed, as soon as it is taken
ResolveDeleting(e) ==
  /\ Take(e) /\ Present(e) /\ HasMedia(e.post)
  /\ queue' = [queue EXCEPT ![e.id] = NoRow]
  /\ pc' = "send" /\ current' = e
  /\ UNCHANGED <<uploads, attached, now, requests, fresh, loaded, errors, history>>

\* The uploads are looked up, then the delivery is prepared.
Resolve(e) ==
  /\ Take(e) /\ Present(e) /\ HasMedia(e.post)
  /\ pc' = "send" /\ current' = e
  /\ UNCHANGED <<queue, uploads, attached, now, requests, fresh, loaded, errors, history>>

Failed == pc' = "failed" /\ fresh' = FALSE

MissingMedia(e) ==
  /\ Take(e) /\ Present(e) /\ ~HasMedia(e.post)
  /\ Failed /\ current' = e
  /\ UNCHANGED <<queue, uploads, attached, now, requests, loaded, errors, history>>

\* mutant: the row is left for the second commit to delete
SendKeepingRow ==
  /\ pc = "send"
  /\ Publish(current.post)
  /\ pc' = "counts"
  /\ UNCHANGED <<queue, uploads, now, requests, todo, current, fresh, loaded, errors,
                 queued, hurried, cancelled, charged>>

\* One commit: the row of that id, whichever it is by now, and the post.
Send ==
  /\ pc = "send"
  /\ queue' = [queue EXCEPT ![current.id] = NoRow]
  /\ Publish(current.post)
  /\ pc' = "counts"
  /\ UNCHANGED <<uploads, now, requests, todo, current, fresh, loaded, errors,
                 queued, hurried, cancelled, charged>>

\* The replies count of the parent, in a commit of its own.
Count ==
  /\ pc = "counts"
  /\ Proceed
  /\ UNCHANGED <<queue, uploads, attached, now, requests, todo, fresh, loaded, errors, history>>

\* Anything that raises while the post is delivered, before either commit.
SendFails ==
  /\ pc \in {"send", "counts"} /\ errors < MaxErrors
  /\ errors' = errors + 1
  /\ Failed
  /\ UNCHANGED <<queue, uploads, attached, now, requests, todo, current, loaded, history>>

\* _record_failure: the row is read again ...
ReadRow ==
  /\ pc = "failed"
  /\ IF queue[current.id] = NoRow
     THEN Proceed /\ UNCHANGED loaded
     ELSE pc' = "record" /\ loaded' = queue[current.id] /\ UNCHANGED current
  /\ UNCHANGED <<queue, uploads, attached, now, requests, todo, fresh, errors, history>>

\* mutant: the tries are not counted
AfterFailureForever(row) == [row EXCEPT !.next = Later(now + Delay(1))]

AfterFailure(row) ==
  [row EXCEPT !.tries = row.tries + 1,
              !.next = IF row.tries + 1 >= MaxTries THEN GaveUp
                       ELSE Later(now + Delay(row.tries + 1))]

\* ... and updated.  An UPDATE that finds no row raises, which ends the pass.
RecordFailure ==
  /\ pc = "record"
  /\ loaded' = NoRow
  /\ charged' = IF loaded.post = current.post THEN charged ELSE charged \cup {loaded.post}
  /\ IF queue[current.id] = NoRow
     THEN pc' = "idle" /\ current' = NoEntry /\ todo' = {} /\ UNCHANGED queue
     ELSE /\ queue' = [queue EXCEPT ![current.id] = Updated(@, loaded, AfterFailure(loaded))]
          /\ Proceed /\ UNCHANGED todo
  /\ UNCHANGED <<uploads, attached, now, requests, fresh, errors, posted, queued, hurried, cancelled>>

\* The process dies, or recording the failure fails: what was not committed
\* is undone, and the next pass starts anew.
Crash ==
  /\ pc # "idle" /\ errors < MaxErrors
  /\ errors' = errors + 1
  /\ pc' = "idle" /\ todo' = {} /\ current' = NoEntry /\ fresh' = TRUE /\ loaded' = NoRow
  /\ UNCHANGED <<queue, uploads, attached, now, requests, history>>

Tick ==
  /\ now < MaxTime
  /\ now' = now + 1
  /\ UNCHANGED <<queue, uploads, attached, requests, worker, history>>

-----------------------------------------------------------------------------
Work ==
  \/ Fetch \/ EndPass \/ Send \/ Count \/ ReadRow \/ RecordFailure
  \/ \E e \in todo : Skip(e) \/ Resolve(e) \/ MissingMedia(e)

Request(c) ==
  \/ \E p \in Posts : Compose(c, p)
  \/ Schedule(c) \/ PostNow(c) \/ Remember(c)
  \/ \E call \in {"put", "delete"}, i \in Ids : Load(c, call, i)
  \/ \E t \in Times : Reschedule(c, t)
  \/ Cancel(c)
  \/ \E m \in Media : ReadAttached(c, m)
  \/ ReadQueue(c) \/ DeleteMedia(c) \/ Drop(c)

Next ==
  \/ Work \/ SendFails \/ Crash \/ Tick \/ RestartWeb
  \/ \E c \in Clients : Request(c)

Spec == Init /\ [][Next]_vars

\* The worker goes on and time passes; supervisord starts it again.
FairSpec == Spec /\ WF_vars(Work) /\ WF_vars(Tick)

-----------------------------------------------------------------------------
(* Properties. *)

\* A request that is sent again under its key, after the one before it was
\* answered, leads to no second post: neither published twice, nor queued twice,
\* nor one of each.  The keys are lost with the process, the key of a row that is
\* changed or cancelled no longer finds it, and a row that is charged with the
\* failure of the one whose id it got may be published before its time, when its
\* key is still good.
OnePerKey ==
  drops = 0 /\ calls = 0 =>
    \A p \in Posts \ (hurried \cup charged) :
      posted[p] + Cardinality({i \in Used : queue[i].post = p}) <= 1

\* Whatever fails or crashes, before, between or after the two commits, the
\* worker publishes no post of the queue twice, "what makes publishing a queued
\* post exactly-once" (publish): a post appears as often as it was asked for, at
\* most, and once for all requests that carry its key.
PublishedOnce ==
  /\ TypeOK
  /\ \A p \in Posts : posted[p] <= asked[p]
  /\ OnePerKey

\* A post that was queued is published, cancelled or still in the queue: the
\* worker "leaves the post in the queue instead of dropping it"
\* (docs/mastodon_api.md:233).  Neither a failure nor a crash, a PUT or a
\* deletion of media loses one: only a DELETE may, whose row id is then used
\* again.
OnlyCancellingLoses ==
  cancelled = {} =>
    \A p \in queued : posted[p] > 0 \/ \E i \in Used : queue[i].post = p

\* As long as nothing is cancelled, a queued post ends up published, or its
\* attempts end.
Settled(p) ==
  \/ posted[p] > 0 \/ cancelled # {}
  \/ \E i \in Used : queue[i].post = p /\ queue[i].next = GaveUp
EventuallySettled == \A p \in Posts : p \in queued ~> Settled(p)
=============================================================================
