----------------------------- MODULE StreamingHub -----------------------------
(***************************************************************************)
(* The streaming API of app/mastodon/streaming.py: the hub with its        *)
(* subscribers and their bounded queues, and the pump, a task that polls   *)
(* the tables while anyone is connected and turns new, edited and deleted  *)
(* rows into events.                                                       *)
(*                                                                         *)
(* Everything runs in one event loop; what lies between two awaits is one  *)
(* action.  The rows are written by others (web requests, workers) at any  *)
(* time.  Cursors and tracked rows belong to the hub, and outlive the task *)
(* that moves them: when the last client leaves, the task is told to stop, *)
(* finishes its tick, and may meet the task of the next client.            *)
(*                                                                         *)
(* Row ids are taken from one range for all three tables, and grow.  A     *)
(* client is what it has on its screen: what it loaded by REST as it       *)
(* connected, as far as the hub tracks it, and what it was sent since.     *)
(* MaxChanges, MaxCalls, MaxFaults and Pumps bound the model and not the  *)
(* code.                                                                   *)
(***************************************************************************)
EXTENDS Integers, Sequences, FiniteSets, FiniteSetsExt

CONSTANTS
  Rows,        \* row ids
  Post,        \* what each row is: its box, its streams, its thread
  Clients,     \* the sockets
  First,       \* the stream each client names in the query string, if any
  Wanted,      \* the streams each client may subscribe to afterwards
  Pumps,       \* bound: tasks that exist at a time
  NoTask,      \* there is none
  QueueSize,   \* _QUEUE_MAXSIZE
  MaxStreams,  \* _MAX_STREAMS_PER_SUBSCRIBER
  MaxConnections, \* config.STREAMING_MAX_CONNECTIONS
  SeedTrack,   \* _SEED_TRACK
  TrackLimit,  \* _TRACK_LIMIT
  FetchLimit,  \* _FETCH_LIMIT
  MaxChanges,    \* bound: edits, deletions, prunings
  MaxCalls,    \* bound: connections, and changes of what they are subscribed to
  MaxFaults    \* bound: ticks and seeds that fail, tasks that are cancelled

Tracking == {"inbox", "outbox"}
Boxes == Tracking \cup {"notification"}
NoThread == 0

ASSUME RowsAssumption ==
  /\ Rows \subseteq Nat \ {0} /\ IsFiniteSet(Rows)
  /\ \A i \in Rows : Post[i].box \in Boxes
  /\ NoTask \notin Pumps
  /\ \A c \in Clients : IsFiniteSet(First[c])
ASSUME LimitsAssumption ==
  /\ QueueSize \in Nat \ {0} /\ MaxStreams \in Nat /\ MaxConnections \in Nat
  /\ SeedTrack \in Nat /\ TrackLimit \in Nat /\ FetchLimit \in Nat \ {0}
  /\ MaxChanges \in Nat /\ MaxCalls \in Nat /\ MaxFaults \in Nat

VARIABLES
  row,       \* the tables: what became of each row, and its edits
  cursor,    \* _inbox_cursor, _outbox_cursor, _notification_cursor
  tracked,   \* _tracked_inbox and _tracked_outbox
  pump,      \* the tasks
  task,      \* _task: the task that was not told to stop
  sub,       \* the sockets: where each stands, its streams and its queue
  changes, calls, faults,
  \* History: nothing below is read by the code.
  view,      \* what each client has on its screen
  lost,      \* what a client may have missed of a row: clients and rows
  overlap    \* a client came while a task that was told to stop still ran

tables == <<row, changes>>
hub == <<cursor, tracked, task>>
history == <<view, lost, overlap>>
vars == <<tables, hub, pump, sub, calls, faults, history>>

-----------------------------------------------------------------------------
(* The tables. *)

BoxOf(i) == Post[i].box
Exists(i) == row[i].state \in {"live", "deleted"}
\* fetch_inbox_timeline_page, fetch_outbox_timeline_page, and the filter of
\* _notification_events.
Visible(i) == row[i].state = "live" /\ ~Post[i].hidden

Largest(S) == IF S = {} THEN 0 ELSE Max(S)
InBox(b) == {i \in Rows : Exists(i) /\ BoxOf(i) = b}
Newest(S, n) == {i \in S : Cardinality({j \in S : j >= i}) <= n}
Oldest(S, n) == {i \in S : Cardinality({j \in S : j <= i}) <= n}

Insert(i) ==
  /\ row[i].state = "none" /\ \A j \in Rows : j > i => row[j].state = "none"
  /\ row' = [row EXCEPT ![i].state = "live"]
  /\ UNCHANGED <<changes, hub, pump, sub, calls, faults, history>>

Edit(i) ==
  /\ row[i].state = "live" /\ BoxOf(i) \in Tracking /\ changes < MaxChanges
  /\ row' = [row EXCEPT ![i].rev = @ + 1] /\ changes' = changes + 1
  /\ UNCHANGED <<hub, pump, sub, calls, faults, history>>

Delete(i) ==
  /\ row[i].state = "live" /\ BoxOf(i) \in Tracking /\ changes < MaxChanges
  /\ row' = [row EXCEPT ![i].state = "deleted"] /\ changes' = changes + 1
  /\ UNCHANGED <<hub, pump, sub, calls, faults, history>>

\* app/prune.py, or a notification dismissed.
Prune(i) ==
  /\ row[i].state = "live" /\ BoxOf(i) # "outbox" /\ changes < MaxChanges
  /\ row' = [row EXCEPT ![i].state = "pruned"] /\ changes' = changes + 1
  /\ UNCHANGED <<hub, pump, sub, calls, faults, history>>

-----------------------------------------------------------------------------
(* Streams and events. *)

Registered == {c \in Clients : sub[c].pc \in {"seeding", "in", "leaving", "leaked"}}
Active == UNION {sub[c].streams : c \in Registered}

\* _classify_streams.
Classify(i, active) ==
  LET p == Post[i]
  IN  {"user"} \cup IF ~p.public THEN {}
                    ELSE {"public", IF p.box = "outbox" THEN "public:local" ELSE "public:remote"}
                         \cup (p.tags \cap active)
\* _list_hits: the subscribed lists whose timeline holds the row.
ListHits(i, active) == IF Post[i].box = "inbox" THEN Post[i].lists \cap active ELSE {}
\* _apply_list_and_exclusive.
StreamsOf(i, active) ==
  (Classify(i, active) \cup ListHits(i, active))
    \ (IF Post[i].box = "inbox" /\ Post[i].exclusive THEN {"user"} ELSE {})

Event(e, i, streams) == [event |-> e, id |-> i, streams |-> streams]
\* The numbers in S, the smallest first.
Ascending(S) == [n \in 1..Cardinality(S) |->
                   CHOOSE i \in S : Cardinality({j \in S : j <= i}) = n]
\* An event for each row in S, in the order of the ids, and the reverse.
Events(e, S, streams) == [n \in 1..Cardinality(S) |->
                            LET i == Ascending(S)[n] IN Event(e, i, streams[i])]
NewestFirst(events) == [n \in DOMAIN events |-> events[Len(events) + 1 - n]]
Ids(events) == {events[n].id : n \in DOMAIN events}

\* Hub.publish: the events of a tick that are for a subscriber to these streams.
For(streams, events) ==
  LET wanted == {n \in DOMAIN events : events[n].streams \cap streams # {}}
  IN  [n \in 1..Cardinality(wanted) |-> events[Ascending(wanted)[n]]]
\* mutant: a full queue refuses the new frames
OfferRefusing(frames) == [n \in 1..Min({Len(frames), QueueSize}) |-> frames[n]]
\* Subscriber.offer: a full queue loses its oldest frame for each new one, so
\* that of all frames, the last ones are left.
Excess(frames) == IF Len(frames) > QueueSize THEN Len(frames) - QueueSize ELSE 0
Offer(frames) == [n \in 1..(Len(frames) - Excess(frames)) |-> frames[Excess(frames) + n]]

-----------------------------------------------------------------------------
(* The pump.  A task that is not "done" runs; `ask` is the cursor it has   *)
(* read for the query it waits for, `keys` the tracked rows it has asked   *)
(* for, `all` the streams anyone was subscribed to at that moment.         *)

NoPump == [pc |-> "done", stop |-> TRUE, ask |-> 0, ids |-> {}, keys |-> {}, all |-> {},
           events |-> <<>>]
Asleep == [NoPump EXCEPT !.pc = "sleep", !.stop = FALSE]
Running(t) == pump[t].pc # "done"
Set(t, p) == pump' = [pump EXCEPT ![t] = p]

\* What a task that ends in the middle of a tick takes with it.
Holds(t) == pump[t].ids \cup Ids(pump[t].events)

\* EventPump.run: the loop's condition.
Wake(t) ==
  /\ pump[t].pc = "sleep"
  /\ Set(t, IF pump[t].stop THEN NoPump
            ELSE [pump[t] EXCEPT !.pc = "inbox", !.ask = cursor["inbox"]])
  /\ UNCHANGED <<tables, hub, sub, calls, faults, history>>

New(t, b) == Oldest({i \in InBox(b) : i > pump[t].ask}, FetchLimit)
\* mutant: a full batch leaves the cursor where it was
AdvancedLate(b, new) == [cursor EXCEPT ![b] = IF new = {} \/ Cardinality(new) >= FetchLimit
                                              THEN @ ELSE Max(new)]
\* mutant: the cursor moves to the newest row, fetched or not
AdvancedToNewest(b, new) == [cursor EXCEPT ![b] = Largest(InBox(b) \cup {@})]
Advanced(b, new) == [cursor EXCEPT ![b] = IF new = {} THEN @ ELSE Max(new)]

\* _new_statuses, a table at a time.
NewStatuses(t) ==
  /\ pump[t].pc \in Tracking
  /\ LET b == pump[t].pc
         new == New(t, b)
         c == Advanced(b, new)
     IN  /\ cursor' = c
         /\ Set(t, [pump[t] EXCEPT !.ids = @ \cup new,
                                   !.pc = IF b = "inbox" THEN "outbox" ELSE "status",
                                   !.ask = IF b = "inbox" THEN c["outbox"] ELSE 0])
  /\ UNCHANGED <<tables, tracked, task, sub, calls, faults, history>>

TrackedIn(T, b) == {i \in T : BoxOf(i) = b}
\* _track: the oldest are evicted.
Keep(T, b, n) == Newest(TrackedIn(T, b), n)

\* _status_events: the rows are fetched again, tracked, and serialized.
StatusEvents(t) ==
  /\ pump[t].pc = "status"
  /\ LET shown == {i \in pump[t].ids : Visible(i)}
         all == shown \cup DOMAIN tracked
         kept == Keep(all, "inbox", TrackLimit) \cup Keep(all, "outbox", TrackLimit)
         sent == {i \in shown : StreamsOf(i, Active) # {}}
     IN  /\ tracked' = [i \in kept |-> IF i \in shown THEN [gone |-> FALSE, rev |-> row[i].rev]
                                       ELSE tracked[i]]
         /\ lost' = lost \cup Clients \X (all \ kept)
         /\ Set(t, [pump[t] EXCEPT
                      !.events = Events("update", sent, [i \in sent |-> StreamsOf(i, Active)]),
                      !.pc = "notification", !.ask = cursor["notification"]])
  /\ UNCHANGED <<tables, cursor, task, sub, calls, faults, view, overlap>>

\* The conversations of timelines.dm_threads, each by its last status.
Thread(th) == {i \in Rows : row[i].state = "live" /\ Post[i].thread = th}
\* _direct_events: the conversations that new rows belong to, newest first.
DirectEvents(ids) ==
  LET last == {Max(Thread(Post[i].thread)) :
                 i \in {j \in ids : row[j].state = "live" /\ Post[j].thread # NoThread}}
  IN  IF "direct" \in Active
      THEN NewestFirst(Events("conversation", last, [i \in last |-> {"direct"}])) ELSE <<>>

\* _notification_events, and the events of conversations after them;
\* _edit_and_delete_events is skipped when nobody is subscribed to anything.
NotificationEvents(t) ==
  /\ pump[t].pc = "notification"
  /\ LET new == New(t, "notification")
         shown == {i \in new : Visible(i)}
         keys == TrackedIn(DOMAIN tracked, "inbox")
     IN  /\ cursor' = Advanced("notification", new)
         /\ Set(t, [pump[t] EXCEPT
              !.events = @
                \o Events("notification", shown, [i \in shown |-> {"user", "user:notification"}])
                \o DirectEvents(pump[t].ids),
              !.ids = {}, !.ask = 0, !.all = Active, !.keys = keys,
              !.pc = IF Active = {} THEN "publish" ELSE "edits:inbox"])
  /\ UNCHANGED <<tables, tracked, task, sub, calls, faults, history>>

EditsOf == [b \in Tracking |-> IF b = "inbox" THEN "edits:inbox" ELSE "edits:outbox"]
\* _edit_and_delete_events, for one table.  A row that another task has stopped
\* to track meanwhile is a KeyError, which run() logs; one that another task
\* has begun to track is dropped as unseen.
Edits(t, b) ==
  LET seen == {i \in pump[t].keys : Exists(i)}
      unknown == seen \ DOMAIN tracked
      done == {i \in seen : \A j \in unknown : i < j}
      removed == {i \in done : row[i].state = "deleted" /\ ~tracked[i].gone}
      changed == {i \in done \ removed : row[i].rev # tracked[i].rev /\ Visible(i)}
      next == IF b = "inbox" THEN TrackedIn(DOMAIN tracked, "outbox") ELSE {}
      others == {i \in DOMAIN tracked : BoxOf(i) # b}
      kept == others \cup (IF unknown = {} THEN done \ removed
                           ELSE TrackedIn(DOMAIN tracked, b) \ removed)
  IN  /\ tracked' = [i \in kept |-> IF i \in done THEN [tracked[i] EXCEPT !.rev = row[i].rev]
                                    ELSE tracked[i]]
      /\ lost' = lost \cup Clients \X ({i \in DOMAIN tracked : i \notin kept /\ i \notin removed}
                                     \cup IF unknown = {} THEN {} ELSE Holds(t) \cup seen)
      /\ IF unknown # {}
         THEN Set(t, [Asleep EXCEPT !.stop = pump[t].stop])
         ELSE Set(t, [pump[t] EXCEPT
                !.pc = IF next = {} THEN "publish" ELSE "edits:outbox",
                !.all = IF next = {} THEN {} ELSE @,
                !.keys = next,
                !.events = @
                  \o Events("delete", removed, [i \in removed |-> pump[t].all])
                  \o Events("status.update", changed,
                            [i \in changed |-> StreamsOf(i, Active)])])

EditEvents(t) ==
  /\ \E b \in Tracking : pump[t].pc = EditsOf[b] /\ Edits(t, b)
  /\ UNCHANGED <<tables, cursor, task, sub, calls, faults, view, overlap>>

\* What the queue of a subscriber would hold without its limit, and the rows of
\* the frames it loses.
Frames(t, c) == sub[c].queue \o For(sub[c].streams, pump[t].events)
Dropped(t, c) == {Frames(t, c)[n].id : n \in 1..Excess(Frames(t, c))}

\* EventPump.run: the events of the tick are published, without an await.
Publish(t) ==
  /\ pump[t].pc = "publish"
  /\ sub' = [c \in Clients |-> IF c \in Registered
                               THEN [sub[c] EXCEPT !.queue = Offer(Frames(t, c))] ELSE sub[c]]
  /\ lost' = lost \cup UNION {{c} \X Dropped(t, c) : c \in Registered}
  /\ Set(t, [Asleep EXCEPT !.stop = pump[t].stop])
  /\ UNCHANGED <<tables, hub, calls, faults, view, overlap>>

\* An exception in a tick is logged, and the next tick goes on from where the
\* cursors are; asyncio.wait's timeout cancels a task that was told to stop.
\* (A tick that has found nothing loses nothing.)
TickFails(t) ==
  /\ Holds(t) # {} /\ faults < MaxFaults
  /\ \/ Set(t, [Asleep EXCEPT !.stop = pump[t].stop])
     \/ pump[t].stop /\ Set(t, NoPump)
  /\ lost' = lost \cup Clients \X Holds(t) /\ faults' = faults + 1
  /\ UNCHANGED <<tables, hub, sub, calls, view, overlap>>

Pump(t) == Wake(t) \/ NewStatuses(t) \/ StatusEvents(t) \/ NotificationEvents(t)
           \/ EditEvents(t) \/ Publish(t)

-----------------------------------------------------------------------------
(* The sockets.  Hub._lock is held across an await only while the pump is  *)
(* seeded.                                                                 *)

\* The rows that a tick under way has asked for, or found.
InFlight == UNION {Ids(pump[t].events) \cup
                     (IF pump[t].all = {} THEN {} ELSE DOMAIN tracked) : t \in Pumps}
Locked == \E c \in Clients : sub[c].pc = "seeding"
\* A row that the next query of its table returns, or a later one, whichever
\* task asks; and what the stream does not bring to whoever subscribes now.
Ahead(i) == /\ i > cursor[BoxOf(i)]
            /\ \A t \in Pumps : pump[t].pc = BoxOf(i) => i > pump[t].ask
Past == {i \in Rows : ~Ahead(i)}
Gone == [pc |-> "out", streams |-> {}, queue |-> <<>>]

\* What the client shows: a row it has seen removed must not come back.
Blank == [i \in Rows |-> "none"]
Screen(T) == [i \in Rows |-> IF i \in DOMAIN T /\ ~T[i].gone THEN "loaded" ELSE "none"]

\* streaming_endpoint up to the lock; the first stream is in the query string.
Connect(c) ==
  /\ sub[c].pc = "out" /\ calls < MaxCalls
  /\ Cardinality(Registered) < MaxConnections
  /\ sub' = [sub EXCEPT ![c] = [Gone EXCEPT !.pc = "waiting", !.streams = First[c]]]
  /\ calls' = calls + 1
  /\ view' = [view EXCEPT ![c] = Blank]
  /\ lost' = lost \ ({c} \X Rows)
  /\ UNCHANGED <<tables, hub, pump, faults, overlap>>

\* Hub.register: the first subscriber seeds the pump and starts a task.
Register(c) ==
  /\ sub[c].pc = "waiting" /\ ~Locked
  /\ sub' = [sub EXCEPT ![c].pc = IF task = NoTask THEN "seeding" ELSE "in"]
  /\ view' = [view EXCEPT ![c] = IF task = NoTask THEN @ ELSE Screen(tracked)]
  /\ overlap' = (overlap \/ \E t \in Pumps \ {task} : Running(t))
  /\ lost' = lost \cup {c} \X (InFlight \cup (Past \ DOMAIN tracked))
  /\ UNCHANGED <<tables, hub, pump, calls, faults>>

\* EventPump.seed: the newest rows, the deleted ones among them.
Seeds == LET kept == Newest(InBox("inbox"), SeedTrack) \cup Newest(InBox("outbox"), SeedTrack)
         IN  [i \in kept |-> [gone |-> row[i].state = "deleted", rev |-> row[i].rev]]

Seed(c) ==
  /\ sub[c].pc = "seeding"
  /\ cursor' = [b \in Boxes |-> Largest(InBox(b))]
  /\ tracked' = Seeds
  /\ \E t \in Pumps :
       /\ ~Running(t)
       /\ Set(t, Asleep) /\ task' = t
  /\ sub' = [sub EXCEPT ![c].pc = "in"]
  /\ view' = [view EXCEPT ![c] = Screen(Seeds)]
  /\ lost' = lost \cup {c} \X {i \in Rows \ DOMAIN Seeds : row[i].state # "none"}
  /\ UNCHANGED <<tables, calls, faults, overlap>>

\* The queries of seed() fail: the lock is released, the socket is closed, and
\* nobody takes the subscriber out of the set again.
SeedFails(c) ==
  /\ sub[c].pc = "seeding" /\ faults < MaxFaults
  /\ sub' = [sub EXCEPT ![c].pc = "leaked"] /\ faults' = faults + 1
  /\ UNCHANGED <<tables, hub, pump, calls, history>>

\* _reader_loop.
Subscribe(c, k) ==
  /\ sub[c].pc = "in" /\ k \notin sub[c].streams /\ calls < MaxCalls
  /\ Cardinality(sub[c].streams) < MaxStreams
  /\ sub' = [sub EXCEPT ![c].streams = @ \cup {k}] /\ calls' = calls + 1
  /\ lost' = lost \cup {c} \X Past
  /\ UNCHANGED <<tables, hub, pump, faults, view, overlap>>

Unsubscribe(c, k) ==
  /\ sub[c].pc = "in" /\ k \in sub[c].streams /\ calls < MaxCalls
  /\ sub' = [sub EXCEPT ![c].streams = @ \ {k}] /\ calls' = calls + 1
  /\ lost' = lost \cup {c} \X {i \in Rows : view[c][i] # "none"}
  /\ UNCHANGED <<tables, hub, pump, faults, view, overlap>>

\* _writer_loop: a frame for each stream the client is still subscribed to.
Send(c) ==
  /\ sub[c].pc = "in" /\ sub[c].queue # <<>>
  /\ LET e == Head(sub[c].queue)
         heard == e.streams \cap sub[c].streams # {}
     IN  view' = IF ~heard \/ e.event \notin {"update", "delete"} THEN view
                 ELSE [view EXCEPT ![c][e.id] =
                         CASE e.event = "delete" -> "removed"
                           [] e.event = "update" /\ @ \in {"removed", "ghost"} -> "ghost"
                           [] e.event = "update" /\ @ \in {"told", "twice"} -> "twice"
                           [] OTHER -> "told"]
  /\ sub' = [sub EXCEPT ![c].queue = Tail(@)]
  /\ UNCHANGED <<tables, hub, pump, calls, faults, lost, overlap>>

\* The client goes, or _writer_loop finds that its token was revoked.
Leave(c) ==
  /\ sub[c].pc = "in"
  /\ sub' = [sub EXCEPT ![c].pc = "leaving"]
  /\ UNCHANGED <<tables, hub, pump, calls, faults, history>>

\* mutant: the task is stopped when any client leaves
UnregisterAny(c) ==
  /\ sub[c].pc = "leaving" /\ ~Locked
  /\ sub' = [sub EXCEPT ![c] = Gone]
  /\ IF task # NoTask
     THEN Set(task, [pump[task] EXCEPT !.stop = TRUE]) /\ task' = NoTask
     ELSE UNCHANGED <<pump, task>>
  /\ UNCHANGED <<tables, cursor, tracked, calls, faults, history>>

\* Hub.unregister: the last one stops the task.
Unregister(c) ==
  /\ sub[c].pc = "leaving" /\ ~Locked
  /\ sub' = [sub EXCEPT ![c] = Gone]
  /\ IF Registered = {c} /\ task # NoTask
     THEN Set(task, [pump[task] EXCEPT !.stop = TRUE]) /\ task' = NoTask
     ELSE UNCHANGED <<pump, task>>
  /\ UNCHANGED <<tables, cursor, tracked, calls, faults, history>>

-----------------------------------------------------------------------------
Init ==
  /\ row = [i \in Rows |-> [state |-> "none", rev |-> 0]]
  /\ cursor = [b \in Boxes |-> 0] /\ tracked = [i \in {} |-> 0]
  /\ pump = [t \in Pumps |-> NoPump] /\ task = NoTask
  /\ sub = [c \in Clients |-> Gone]
  /\ changes = 0 /\ calls = 0 /\ faults = 0
  /\ view = [c \in Clients |-> Blank]
  /\ lost = {} /\ overlap = FALSE

Write(i) == Insert(i) \/ Edit(i) \/ Delete(i) \/ Prune(i)
Socket(c) ==
  \/ Connect(c) \/ Register(c) \/ Seed(c) \/ SeedFails(c) \/ Send(c) \/ Leave(c) \/ Unregister(c)
  \/ (\E k \in Wanted[c] : Subscribe(c, k)) \/ (\E k \in sub[c].streams : Unsubscribe(c, k))
Next ==
  \/ \E i \in Rows : Write(i)
  \/ \E t \in Pumps : Pump(t) \/ TickFails(t)
  \/ \E c \in Clients : Socket(c)

Spec == Init /\ [][Next]_vars

-----------------------------------------------------------------------------
(* Properties. *)

\* The types, and the limits of the queues and of what is tracked.
TypeOK ==
  /\ row \in [Rows -> [state : {"none", "live", "deleted", "pruned"}, rev : 0..MaxChanges]]
  /\ cursor \in [Boxes -> 0..Largest(Rows)] /\ task \in Pumps \cup {NoTask}
  /\ DOMAIN tracked \subseteq {i \in Rows : BoxOf(i) \in Tracking}
  /\ \A b \in Tracking :
       Cardinality(TrackedIn(DOMAIN tracked, b)) <= Max({SeedTrack, TrackLimit})
  /\ \A c \in Clients : /\ Len(sub[c].queue) <= QueueSize
                        /\ Cardinality(sub[c].streams) <= Max({Cardinality(First[c]), MaxStreams})
  /\ changes <= MaxChanges /\ calls <= MaxCalls /\ faults <= MaxFaults

\* A connected client is polled for, by exactly one task that will go on: a
\* shutdown stops the task it was meant for, and a leaving client none that
\* others need (register, unregister).
OnePump ==
  /\ TypeOK
  /\ \A t \in Pumps : Running(t) /\ ~pump[t].stop <=> t = task
  /\ (\E c \in Clients : sub[c].pc = "in") => task # NoTask

\* No client is sent an update twice, or one for a status that it was told to
\* remove; unless a task that was told to stop was still at it when the
\* client came (section 6 of the README).
CleanStream ==
  overlap \/ \A c \in Clients, i \in Rows : view[c][i] \notin {"twice", "ghost"}

\* A deleted status that a client shows will be removed: it is still tracked,
\* or the frame is on its way - unless a failed tick, a full queue or an
\* eviction took it, or the client subscribed too late.
Coming(c, i) ==
  LET delete(e) == e.event = "delete" /\ e.id = i
  IN  \/ i \in DOMAIN tracked /\ ~tracked[i].gone
      \/ \E n \in DOMAIN sub[c].queue : delete(sub[c].queue[n])
      \/ \E t \in Pumps : \E n \in DOMAIN pump[t].events : delete(pump[t].events[n])
DeletesAreTold ==
  overlap \/ \A c \in Clients, i \in Rows :
    /\ sub[c].pc = "in" /\ sub[c].streams # {}
    /\ view[c][i] \in {"loaded", "told"} /\ row[i].state = "deleted"
    => <<c, i>> \in lost \/ Coming(c, i)

\* A status is shown to every client that is subscribed when it comes: as long
\* as it is not, it is ahead of every query, in the hands of a task, or in the
\* client's queue, whatever two tasks do to the cursors they share.
Owed(c, i) ==
  /\ sub[c].pc = "in" /\ Visible(i) /\ BoxOf(i) \in Tracking
  /\ StreamsOf(i, sub[c].streams) \cap sub[c].streams # {}
  /\ view[c][i] = "none" /\ <<c, i>> \notin lost
Underway(c, i) ==
  LET update(e) == e.event = "update" /\ e.id = i
  IN  \/ Ahead(i)
      \/ \E n \in DOMAIN sub[c].queue : update(sub[c].queue[n])
      \/ \E t \in Pumps :
           i \in pump[t].ids \/ \E n \in DOMAIN pump[t].events : update(pump[t].events[n])
NothingIsSkipped == \A c \in Clients, i \in Rows : Owed(c, i) => Underway(c, i)
=============================================================================
