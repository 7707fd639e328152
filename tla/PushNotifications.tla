-------------------------- MODULE PushNotifications --------------------------
(***************************************************************************)
(* The Web Push worker of app/push_notifications.py, the subscriptions it  *)
(* serves, and the requests that change them meanwhile (/push/subscription *)
(* in app/mastodon/router.py, /oauth/revoke, the clearing of the           *)
(* notifications).                                                         *)
(*                                                                         *)
(* A subscription belongs to a token and carries a watermark: the highest  *)
(* notification id dealt with.  The worker fetches due subscriptions,      *)
(* pushes to them what lies above their watermarks, and commits once for   *)
(* the whole batch.  What it works on are its session's objects, which are *)
(* not read again while the session holds them: mem is the object and base *)
(* the row as it was loaded, and a commit writes the columns that differ.  *)
(* Its first flush takes the write lock of SQLite until the commit: the    *)
(* requests wait.                                                          *)
(*                                                                         *)
(* Notifications have a row id, which SQLite may use again, and a number   *)
(* for the order of their births, which the code does not see.  The type   *)
(* of one, its mute and its target are its Kind; the alerts and the policy *)
(* of a subscription are one flag, and policies that look up the follow    *)
(* tables are left out.  A token that unsubscribed stays so.  MaxPosts,    *)
(* MaxCalls, MaxLosses and MaxNotifications bound the model and not the    *)
(* code.                                                                   *)
(***************************************************************************)
EXTENDS Integers, FiniteSets

CONSTANTS
  Tokens,            \* access tokens with the push scope
  MaxNotifications,  \* bound: notifications ever created
  Kind,              \* the kind of each of them: see Kinds
  Calls,             \* the calls clients make, of AllCalls
  MaxCalls,          \* bound: calls other than the subscriptions
  MaxPosts,          \* bound: subscriptions per token
  MaxLosses,         \* bound: crashes and unexpected errors
  BatchSize,         \* PUSH_DELIVERY_BATCH_SIZE
  MaxRetries,        \* _MAX_RETRIES
  MaxBacklog,        \* _MAX_BACKLOG
  MaxCatchUp         \* _MAX_CATCH_UP

\* "titled" is pushed; "untitled" is selected but _push_title knows no title
\* for it (status, poll, update); "other" is not selected (a move, a
\* webmention, a muted actor or conversation).
Kinds == {"titled", "untitled", "other"}
AllCalls == {"replace", "update", "unsubscribe", "revoke", "expire", "remove"}

Numbers == 1..MaxNotifications

ASSUME SizesAssumption ==
  /\ MaxNotifications \in Nat /\ MaxCalls \in Nat /\ MaxLosses \in Nat
  /\ MaxPosts \in Nat \ {0} /\ BatchSize \in Nat \ {0} /\ MaxRetries \in Nat \ {0}
  /\ MaxBacklog \in Nat \ {0} /\ MaxCatchUp \in 1..MaxBacklog
ASSUME KindAssumption == Kind \in [Numbers -> Kinds] /\ Calls \subseteq AllCalls

Row == [endpoint : 0..MaxPosts, mark : 0..MaxNotifications, tries : 0..MaxRetries,
        waiting : BOOLEAN, wants : BOOLEAN]
NewRow(e, i) == [endpoint |-> e, mark |-> i, tries |-> 0, waiting |-> FALSE, wants |-> TRUE]
NoRow == NewRow(0, 0)

VARIABLES
  table,      \* the notification with each row id, 0 for none
  born,       \* how many were created so far
  subs,       \* the tokens that have a row in push_subscription
  db,         \* that row
  revoked,    \* tokens that were revoked
  expired,    \* tokens that expired
  posting,    \* tokens whose POST was authorized and is under way
  worker,     \* where the worker stands
  batch,      \* the subscriptions left to process
  current,    \* the one being processed: one at most
  held,       \* those whose object is in the worker's session
  mem, base,  \* that object, and the row it was loaded from
  newest,     \* newest_id
  todo,       \* its candidates left, as row ids and numbers
  delivered,  \* how many this subscription was delivered
  doomed,     \* subscriptions deleted in the session
  locked,     \* the session holds the write lock
  posts,      \* history: how often each token subscribed
  since,      \* history: born at each of these times
  dealt,      \* history: what was dealt with for an endpoint
  pushed,     \* history: what an endpoint received
  acked,      \* history: what it acknowledged in the current batch
  settled,    \* history: what it acknowledged in a batch that was committed
  faults,     \* history: what went wrong with a push
  calls, losses

clientVars == <<subs, db, revoked, expired, posting, posts, since, calls>>
notifVars == <<table, born>>
sessionVars == <<batch, current, held, mem, base, newest, todo, delivered, doomed, locked>>
pushVars == <<dealt, pushed, acked, settled, faults>>
vars == <<notifVars, clientVars, worker, sessionVars, pushVars, losses>>

\* i is the highest id in use, 0 if there is none.
IsNewest(i) == (i # 0 => table[i] # 0) /\ \A j \in Numbers : table[j] # 0 => j <= i

Selected(i) == table[i] # 0 /\ Kind[table[i]] # "other"

\* the query of fetch_next_push_subscriptions
Due == {t \in subs \ revoked :
          ~ db[t].waiting /\ \E i \in Numbers : i > db[t].mark /\ Selected(i)}

Init ==
  /\ table = [i \in Numbers |-> 0] /\ born = 0
  /\ subs = {} /\ db = [t \in Tokens |-> NoRow]
  /\ revoked = {} /\ expired = {} /\ posting = {}
  /\ worker = "idle" /\ batch = {} /\ current = {} /\ held = {}
  /\ mem = db /\ base = db
  /\ newest = 0 /\ todo = {} /\ delivered = 0 /\ doomed = {} /\ locked = FALSE
  /\ posts = [t \in Tokens |-> 0] /\ since = [t \in Tokens |-> [k \in 1..MaxPosts |-> 0]]
  /\ dealt = {} /\ pushed = {} /\ acked = {} /\ settled = {} /\ faults = {}
  /\ calls = 0 /\ losses = 0

-----------------------------------------------------------------------------
(* Notifications, and the requests of clients. *)

\* A notification is committed: its id is one more than the highest in use.
Notify ==
  /\ born < MaxNotifications /\ ~ locked
  /\ born' = born + 1
  /\ \E i \in 0..MaxNotifications :
       IsNewest(i) /\ table' = [table EXCEPT ![i + 1] = born + 1]
  /\ UNCHANGED <<clientVars, worker, sessionVars, pushVars, losses>>

Call(name) == name \in Calls /\ calls < MaxCalls /\ ~ locked /\ calls' = calls + 1

\* notifications_clear, notifications_dismiss, notifications_v2_dismiss, the
\* removal of the object a notification is about, the pruning
Remove ==
  /\ Call("remove")
  /\ \E gone \in SUBSET {i \in Numbers : table[i] # 0} :
       table' = [i \in Numbers |-> IF i \in gone THEN 0 ELSE table[i]]
  /\ UNCHANGED <<born, subs, db, revoked, expired, posting, posts, since, worker,
                 sessionVars, pushVars, losses>>

\* push_subscription_create: the token is checked, then the body read and the
\* host of the endpoint resolved
Authorize(t) ==
  /\ t \notin revoked \union expired \union posting
  /\ posts[t] = 0 \/ "replace" \in Calls
  /\ posts[t] < MaxPosts
  /\ posting' = posting \union {t}
  /\ UNCHANGED <<notifVars, subs, db, revoked, expired, posts, since, calls, worker,
                 sessionVars, pushVars, losses>>

\* and the row inserted or overwritten
Subscribe(t) ==
  /\ t \in posting /\ ~ locked
  /\ posting' = posting \ {t}
  /\ subs' = subs \union {t}
  /\ posts' = [posts EXCEPT ![t] = @ + 1]
  /\ since' = [since EXCEPT ![t][posts[t] + 1] = born]
  /\ \E i \in 0..MaxNotifications :
       IsNewest(i) /\ db' = [db EXCEPT ![t] = NewRow(posts[t] + 1, i)]
  /\ UNCHANGED <<notifVars, revoked, expired, calls, worker, sessionVars, pushVars, losses>>

\* push_subscription_update
Update(t) ==
  /\ Call("update") /\ t \in subs \ (revoked \union expired)
  /\ db' = [db EXCEPT ![t].wants = ~ @]
  /\ UNCHANGED <<notifVars, subs, revoked, expired, posting, posts, since, worker,
                 sessionVars, pushVars, losses>>

\* push_subscription_delete
Unsubscribe(t) ==
  /\ Call("unsubscribe") /\ t \in subs \ (revoked \union expired \union posting)
  /\ subs' = subs \ {t}
  /\ db' = [db EXCEPT ![t] = NoRow]
  /\ posts' = [posts EXCEPT ![t] = MaxPosts]
  /\ UNCHANGED <<notifVars, revoked, expired, posting, since, worker, sessionVars,
                 pushVars, losses>>

\* oauth_revoke, indieauth_revocation_endpoint
Revoke(t) ==
  /\ Call("revoke") /\ t \notin revoked \union expired
  /\ revoked' = revoked \union {t}
  /\ subs' = subs \ {t}
  /\ db' = [db EXCEPT ![t] = NoRow]
  /\ UNCHANGED <<notifVars, expired, posting, posts, since, worker, sessionVars,
                 pushVars, losses>>

\* Tokens have a lifetime.
Expire(t) ==
  /\ Call("expire") /\ t \notin expired
  /\ expired' = expired \union {t}
  /\ UNCHANGED <<notifVars, subs, db, revoked, posting, posts, since, worker,
                 sessionVars, pushVars, losses>>

\* next_try has passed.
Elapse(t) ==
  /\ db[t].waiting
  /\ db' = [db EXCEPT ![t].waiting = FALSE]
  /\ UNCHANGED <<notifVars, subs, revoked, expired, posting, posts, since, calls, worker,
                 sessionVars, pushVars, losses>>

-----------------------------------------------------------------------------
(* The worker: a poll. *)

\* The session lets go of the objects it held.
Release == held' = {} /\ mem' = [t \in Tokens |-> NoRow] /\ base' = mem'

\* Nothing is due.
PollEmpty ==
  /\ worker = "idle" /\ Due = {}
  /\ Release
  /\ UNCHANGED <<notifVars, clientVars, worker, batch, current, newest, todo, delivered,
                 doomed, locked, pushVars, losses>>

\* fetch_next_push_subscriptions.  An object the session still holds from the
\* last poll is not read again.
Poll ==
  /\ worker = "idle" /\ Due # {}
  /\ \E picked \in SUBSET Due :
       /\ Cardinality(picked) = IF Cardinality(Due) <= BatchSize
                                THEN Cardinality(Due) ELSE BatchSize
       /\ batch' = picked /\ held' = picked
       /\ mem' = [t \in Tokens |->
                    IF t \in picked
                      THEN [IF t \in held THEN mem[t] ELSE db[t] EXCEPT !.waiting = FALSE]
                      ELSE NoRow]
  /\ base' = mem'
  /\ worker' = "fetched"
  /\ UNCHANGED <<notifVars, clientVars, current, newest, todo, delivered, doomed, locked,
                 pushVars, losses>>

\* process_push_subscriptions_batch
ReadNewest ==
  /\ worker = "fetched"
  /\ newest' \in 0..MaxNotifications /\ IsNewest(newest')
  /\ worker' = "next"
  /\ UNCHANGED <<notifVars, clientVars, batch, current, held, mem, base, todo, delivered,
                 doomed, locked, pushVars, losses>>

-----------------------------------------------------------------------------
(* The worker: one subscription. *)

Touched == {t \in held \ doomed : mem[t] # base[t]}

\* _process_subscription: the token expired
StartExpired(t) ==
  /\ worker = "next" /\ t \in batch \cap expired
  /\ doomed' = doomed \union {t}
  /\ batch' = batch \ {t}
  /\ UNCHANGED <<notifVars, clientVars, worker, current, held, mem, base, newest, todo,
                 delivered, locked, pushVars, losses>>

\* it has nothing to push
StartCaughtUp(t) ==
  /\ worker = "next" /\ t \in batch \ expired
  /\ newest <= mem[t].mark
  /\ batch' = batch \ {t}
  /\ UNCHANGED <<notifVars, clientVars, worker, current, held, mem, base, newest, todo,
                 delivered, doomed, locked, pushVars, losses>>

\* the watermark, moved up when the backlog is too long
MarkClamped(t) ==
  IF newest - mem[t].mark > MaxBacklog THEN newest - MaxCatchUp ELSE mem[t].mark

\* What the candidates' query flushes first, the clamped mark included.
Flushed(t) == IF MarkClamped(t) = mem[t].mark THEN Touched ELSE Touched \union {t}

Start(t) ==
  LET mark == MarkClamped(t) IN
  /\ worker = "next" /\ t \in batch \ expired
  /\ newest > mem[t].mark
  /\ Flushed(t) \subseteq subs
  /\ batch' = batch \ {t} /\ current' = {t}
  /\ mem' = [mem EXCEPT ![t].mark = mark]
  /\ locked' = (locked \/ Flushed(t) \union doomed # {})
  /\ todo' = {[id |-> i, number |-> table[i]] :
                i \in {j \in Numbers : mark < j /\ j <= newest /\ Selected(j)}}
  /\ dealt' = dealt \union
                {<<t, mem[t].endpoint, table[i]>> :
                   i \in {j \in Numbers : mem[t].mark < j /\ j <= mark /\ table[j] # 0}}
  /\ delivered' = 0
  /\ worker' = "sending"
  /\ UNCHANGED <<notifVars, clientVars, held, base, newest, doomed, pushed, acked,
                 settled, faults, losses>>

NextSubscription == current' = {} /\ todo' = {} /\ worker' = "next"

Pair(t, e) == <<t, mem[t].endpoint, e.number>>

\* e is the next candidate, and the batch has not delivered enough yet.
Candidate(t, e) ==
  /\ worker = "sending" /\ t \in current /\ e \in todo /\ \A d \in todo : e.id <= d.id
  /\ delivered < MaxCatchUp

\* the alert or the policy says no
Skip(t, e) ==
  /\ Candidate(t, e) /\ ~ mem[t].wants
  /\ mem' = [mem EXCEPT ![t].mark = e.id]
  /\ dealt' = dealt \union {Pair(t, e)}
  /\ todo' = todo \ {e}
  /\ UNCHANGED <<notifVars, clientVars, worker, batch, current, held, base, newest, delivered,
                 doomed, locked, pushed, acked, settled, faults, losses>>

\* _deliver_one gets to its request
Deliverable(t, e) == Candidate(t, e) /\ mem[t].wants /\ Kind[e.number] = "titled"

\* The push service receives the request.
Receive(p) ==
  /\ pushed' = pushed \union {p}
  /\ faults' = faults
       \union (IF p \in settled THEN {"again"} ELSE {})
       \union (IF p \notin dealt \union pushed
                  /\ \E q \in pushed : q[1] = p[1] /\ q[2] = p[2] /\ q[3] > p[3]
               THEN {"late"} ELSE {})

\* mutant: the watermark stays
AcceptKeepingMark(t, e) ==
  /\ Deliverable(t, e)
  /\ Receive(Pair(t, e))
  /\ mem' = [mem EXCEPT ![t].tries = 0]
  /\ dealt' = dealt \union {Pair(t, e)}
  /\ acked' = acked \union {Pair(t, e)}
  /\ todo' = todo \ {e} /\ delivered' = delivered + 1
  /\ UNCHANGED <<notifVars, clientVars, worker, batch, current, held, base, newest, doomed,
                 locked, settled, losses>>

\* 2xx
Accept(t, e) ==
  /\ Deliverable(t, e)
  /\ Receive(Pair(t, e))
  /\ mem' = [mem EXCEPT ![t].tries = 0, ![t].mark = e.id]
  /\ dealt' = dealt \union {Pair(t, e)}
  /\ acked' = acked \union {Pair(t, e)}
  /\ todo' = todo \ {e} /\ delivered' = delivered + 1
  /\ UNCHANGED <<notifVars, clientVars, worker, batch, current, held, base, newest, doomed,
                 locked, settled, losses>>

\* 413: this one is too large, whoever it is for
TooLarge(t, e) ==
  /\ Deliverable(t, e)
  /\ mem' = [mem EXCEPT ![t].tries = 0, ![t].mark = e.id]
  /\ dealt' = dealt \union {Pair(t, e)}
  /\ todo' = todo \ {e} /\ delivered' = delivered + 1
  /\ UNCHANGED <<notifVars, clientVars, worker, batch, current, held, base, newest, doomed,
                 locked, pushed, acked, settled, faults, losses>>

\* 404 and 410; or check_url_async, which comes first, refuses the endpoint
Gone(t, e) ==
  /\ Candidate(t, e) /\ mem[t].wants
  /\ doomed' = doomed \union {t}
  /\ NextSubscription
  /\ UNCHANGED <<notifVars, clientVars, batch, held, mem, base, newest, delivered, locked,
                 pushVars, losses>>

\* mutants: a failure is passed over; it does not count
FailPassing(t, e) ==
  /\ Deliverable(t, e)
  /\ mem' = [mem EXCEPT ![t].mark = e.id]
  /\ todo' = todo \ {e}
  /\ UNCHANGED <<notifVars, clientVars, worker, batch, current, held, base, newest,
                 delivered, doomed, locked, pushVars, losses>>
FailForever(t, e) ==
  /\ Deliverable(t, e)
  /\ mem' = [mem EXCEPT ![t].waiting = TRUE]
  /\ NextSubscription
  /\ UNCHANGED <<notifVars, clientVars, batch, held, base, newest, delivered, doomed,
                 locked, pushVars, losses>>

\* Any other status, no answer, or an answer that is lost: _apply_backoff
Fail(t, e) ==
  /\ Deliverable(t, e)
  /\ Receive(Pair(t, e)) \/ UNCHANGED <<pushed, faults>>
  /\ IF mem[t].tries + 1 >= MaxRetries
     THEN doomed' = doomed \union {t} /\ UNCHANGED mem
     ELSE /\ mem' = [mem EXCEPT ![t].tries = @ + 1, ![t].waiting = TRUE]
          /\ UNCHANGED doomed
  /\ NextSubscription
  /\ UNCHANGED <<notifVars, clientVars, batch, held, base, newest, delivered, locked, dealt,
                 acked, settled, losses>>

\* The batch has delivered enough to this subscription.
Enough ==
  /\ worker = "sending" /\ todo # {} /\ delivered >= MaxCatchUp
  /\ NextSubscription
  /\ UNCHANGED <<notifVars, clientVars, batch, held, mem, base, newest, delivered, doomed,
                 locked, pushVars, losses>>

\* All candidates are dealt with: the watermark passes what was not selected.
Exhausted(t) ==
  /\ worker = "sending" /\ t \in current /\ todo = {}
  /\ mem' = [mem EXCEPT ![t].mark = newest]
  /\ NextSubscription
  /\ UNCHANGED <<notifVars, clientVars, batch, held, base, newest, delivered, doomed, locked,
                 pushVars, losses>>

-----------------------------------------------------------------------------
(* The worker: the end of a batch. *)

\* What the session drops, it drops for all the subscriptions of the batch.
Rollback ==
  /\ Release
  /\ batch' = {} /\ current' = {} /\ todo' = {} /\ newest' = 0 /\ delivered' = 0
  /\ doomed' = {} /\ locked' = FALSE /\ acked' = {}
  /\ UNCHANGED <<notifVars, clientVars, dealt, pushed, settled, faults>>

\* The columns that changed are written, and the rest left as they are.
Written(t) ==
  [db[t] EXCEPT
     !.mark = IF mem[t].mark # base[t].mark THEN mem[t].mark ELSE @,
     !.tries = IF mem[t].tries # base[t].tries THEN mem[t].tries ELSE @,
     !.waiting = mem[t].waiting \/ @]

Commit ==
  /\ worker = "next" /\ batch = {} /\ Touched \subseteq subs
  /\ db' = [t \in Tokens |-> IF t \in doomed THEN NoRow
                             ELSE IF t \in Touched THEN Written(t) ELSE db[t]]
  /\ subs' = subs \ doomed
  /\ held' = held \ doomed /\ doomed' = {} /\ locked' = FALSE
  /\ mem' = [t \in Tokens |-> IF t \in held' THEN mem[t] ELSE NoRow] /\ base' = mem'
  /\ newest' = 0 /\ delivered' = 0
  /\ settled' = settled \union acked /\ acked' = {}
  /\ worker' = "idle"
  /\ UNCHANGED <<notifVars, revoked, expired, posting, posts, since, calls, batch, current,
                 todo, dealt, pushed, faults, losses>>

\* A flush finds that the row of an object is gone.
LoseRow ==
  /\ worker = "next"
  /\ IF batch = {}
     THEN ~ Touched \subseteq subs
     ELSE \E t \in batch \ expired : newest > mem[t].mark /\ ~ Flushed(t) \subseteq subs
  /\ Rollback /\ worker' = "idle" /\ UNCHANGED losses

\* _push_title raises, and nothing below the main loop expects it to.
Poison(t, e) ==
  /\ Candidate(t, e) /\ mem[t].wants /\ Kind[e.number] = "untitled"
  /\ Rollback /\ worker' = "idle" /\ UNCHANGED losses

\* Any other error: the database is locked, or a Retry-After overflows.
Abort ==
  /\ worker \notin {"idle", "down"} /\ losses < MaxLosses
  /\ losses' = losses + 1
  /\ Rollback /\ worker' = "idle"

Crash ==
  /\ worker # "down" /\ losses < MaxLosses
  /\ losses' = losses + 1
  /\ Rollback /\ worker' = "down"

Restart ==
  /\ worker = "down" /\ worker' = "idle"
  /\ UNCHANGED <<notifVars, clientVars, sessionVars, pushVars, losses>>

-----------------------------------------------------------------------------
Client(t) ==
  \/ Authorize(t) \/ Subscribe(t) \/ Update(t) \/ Unsubscribe(t)
  \/ Revoke(t) \/ Expire(t) \/ Elapse(t)

Answer(t, e) == Accept(t, e) \/ TooLarge(t, e) \/ Gone(t, e) \/ Fail(t, e)

Work ==
  \/ PollEmpty \/ Poll \/ ReadNewest
  \/ \E t \in batch : StartExpired(t) \/ StartCaughtUp(t) \/ Start(t)
  \/ \E t \in current, e \in todo : Skip(t, e) \/ Answer(t, e) \/ Poison(t, e)
  \/ Enough \/ \E t \in current : Exhausted(t)
  \/ Commit \/ LoseRow \/ Restart

Next ==
  \/ Notify \/ Remove \/ \E t \in Tokens : Client(t)
  \/ Work \/ Abort \/ Crash

\* The worker runs and is restarted, a request ends in some way, and time
\* passes.
Fairness == WF_vars(Work) /\ \A t \in Tokens : WF_vars(Elapse(t))

Spec == Init /\ [][Next]_vars
FairSpec == Spec /\ Fairness

-----------------------------------------------------------------------------
(* Properties. *)

Pairs == Tokens \X (1..MaxPosts) \X Numbers

\* Every variable has its type; the worker's position, its batch and its
\* candidates fit together.
NotificationsType ==
  table \in [Numbers -> 0..MaxNotifications] /\ born \in 0..MaxNotifications
ClientsType ==
  /\ subs \subseteq Tokens /\ db \in [Tokens -> Row]
  /\ revoked \subseteq Tokens /\ expired \subseteq Tokens /\ posting \subseteq Tokens
  /\ posts \in [Tokens -> 0..MaxPosts]
  /\ since \in [Tokens -> [1..MaxPosts -> 0..MaxNotifications]]
  /\ calls \in 0..MaxCalls
WorkerType ==
  /\ worker \in {"idle", "fetched", "next", "sending", "down"}
  /\ held \subseteq Tokens /\ doomed \subseteq held /\ batch \subseteq held \ doomed
  /\ current \subseteq held \ (doomed \union batch) /\ \A t, u \in current : t = u
  /\ mem \in [Tokens -> Row] /\ base \in [Tokens -> Row]
  /\ newest \in 0..MaxNotifications /\ delivered \in 0..MaxCatchUp
  /\ todo \subseteq [id : Numbers, number : Numbers] /\ locked \in BOOLEAN
  /\ worker \in {"idle", "down"} => batch = {} /\ doomed = {} /\ ~ locked
  /\ worker = "sending" <=> current # {}
HistoriesType ==
  /\ dealt \subseteq Pairs /\ pushed \subseteq Pairs
  /\ acked \subseteq Pairs /\ settled \subseteq Pairs
  /\ faults \subseteq {"again", "late"} /\ losses \in 0..MaxLosses
TypeOK == NotificationsType /\ ClientsType /\ WorkerType /\ HistoriesType

\* A push that was acknowledged, in a batch that was committed, is never sent
\* again, whatever is lost, replaced, cleared or expires afterwards.
NeverAgain == TypeOK /\ "again" \notin faults

\* An endpoint gets its first copies in the order the notifications were
\* created, through failures, errors, crashes and removals.  Only one that was
\* passed over, in a batch that was not committed, may come later.
FirstCopiesInOrder == "late" \notin faults

\* What lies below a watermark was pushed, refused as too large, not wanted, or
\* passed over because the backlog was too long.  Only a notification whose id
\* was used before, by one that was removed, can be missed; and nothing that is
\* older than a subscription is pushed to it.
BelowWatermarkIsDealtWith ==
  /\ \A p \in pushed : p[3] > since[p[1]][p[2]]
  /\ \A t \in subs, i \in Numbers :
       i <= db[t].mark /\ Selected(i) /\ table[i] = i /\ i > since[t][db[t].endpoint]
         => <<t, db[t].endpoint, i>> \in dealt

\* A notification a subscription should get is dealt with in the end, unless
\* the subscription or the notification goes away: what docs/mastodon_api.md:207
\* promises.
Pending(t, n) ==
  /\ t \in subs \ revoked /\ db[t].wants /\ n > since[t][db[t].endpoint]
  /\ \E i \in Numbers : table[i] = n /\ Selected(i) /\ i > db[t].mark
EventuallyPushed == \A t \in Tokens, n \in Numbers : Pending(t, n) ~> ~ Pending(t, n)

\* It is, as long as no notification without a title is to be pushed.
Poisonous ==
  \E t \in subs \ revoked, i \in Numbers :
    db[t].wants /\ i > db[t].mark /\ table[i] # 0 /\ Kind[table[i]] = "untitled"
PushedUnlessPoisoned ==
  \A t \in Tokens, n \in Numbers : Pending(t, n) ~> ~ Pending(t, n) \/ Poisonous
=============================================================================
